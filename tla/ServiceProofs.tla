---------------------------- MODULE ServiceProofs ----------------------------
(***************************************************************************)
(* Proofs about the services, each on its own invariant, for every number  *)
(* of invocations, names, symbols, messages, references, versions,         *)
(* ingestions, days, quotes and holdings; the research is proved over the  *)
(* ingestions.  A step of Services is a step of one service; the invariant *)
(* of a service is about its variables only, so the steps of the others    *)
(* keep it.                                                                *)
(***************************************************************************)
EXTENDS Services, SumLemmas, TLAPS

\* Every step is one of the service's own, or leaves the service alone.
LEMMA ServiceMoves ==
  ASSUME [Next]_vars
  PROVE  /\ Allocate!Next \/ UNCHANGED allocationVars
         /\ Provider!Next \/ UNCHANGED callVars
         /\ Engine!Next \/ UNCHANGED engineVars
         /\ Claims!Next \/ UNCHANGED claimVars
         /\ Resolver!Next \/ UNCHANGED tokenVars
         /\ Bundle!Next \/ UNCHANGED bundleVars
         /\ Secrets!Next \/ UNCHANGED secretVars
         /\ Notice!Next \/ UNCHANGED noticeVars
         /\ Kite!Next \/ UNCHANGED kiteVars
         /\ Start!Next \/ UNCHANGED startVars
BY DEF Next, vars, ResearchMoves, AllocationMoves, ProviderMoves, NoticeMoves, ClaimsMoves,
       SecretsMoves, KiteMoves, FiguresMoves, ResolverMoves, BundleMoves, EngineMoves,
       StartMoves

-----------------------------------------------------------------------------
(* The claims on a cycle.  A claim names whoever works under it; whoever   *)
(* has found none, and whom no commit has superseded since, still finds    *)
(* none.                                                                   *)

Place == {"resting", "calling", "claiming", "working"}

ClaimsType ==
  /\ clock \in Nat
  /\ claim \in [by : Invocations \cup {Nobody}, at : Nat]
  /\ invocation \in [Invocations -> [at : Place, now : Nat]]
  /\ superseded \subseteq Invocations
  /\ outlived \in BOOLEAN

WorksUnderClaim(i) ==
  invocation[i].at = "working" => claim = [by |-> i, at |-> invocation[i].now]

StillFree(i) ==
  invocation[i].at = "claiming" /\ i \notin superseded =>
    claim = Claims!NoClaim \/ claim.at + MaxClaimAge <= invocation[i].now

ClaimsInv ==
  /\ ClaimsType
  /\ \A i \in Invocations : invocation[i].now <= clock
  /\ ~outlived => \A i \in Invocations : WorksUnderClaim(i) /\ StillFree(i)

LEMMA ClaimsInit == Init => ClaimsInv
<1> SUFFICES ASSUME Claims!Init PROVE ClaimsInv
  BY DEF Init
<1>1. ClaimsType
  BY DEF Claims!Init, ClaimsType, Claims!NoClaim, Claims!Resting, Place
<1>2. \A i \in Invocations : invocation[i].now <= clock
  BY DEF Claims!Init, Claims!Resting
<1>3. \A i \in Invocations : invocation[i].at = "resting"
  BY DEF Claims!Init, Claims!Resting
<1> QED BY <1>1, <1>2, <1>3 DEF ClaimsInv, WorksUnderClaim, StillFree

\* A step that commits nothing and puts nobody to work keeps the invariant.
LEMMA ClaimsUncommitted ==
  ASSUME ClaimsInv, UNCHANGED <<clock, claim, outlived>>, NEW i \in Invocations,
         invocation' \in [Invocations -> [at : Place, now : Nat]],
         \A j \in Invocations : j # i => invocation'[j] = invocation[j],
         invocation'[i].at # "working", invocation'[i].now <= clock,
         \/ superseded' = superseded
         \/ superseded' = superseded \ {i} /\ invocation'[i].at # "claiming",
         invocation'[i].at = "claiming" =>
           claim = Claims!NoClaim \/ claim.at + MaxClaimAge <= invocation'[i].now
  PROVE  ClaimsInv'
<1>2. ClaimsType'
  BY DEF ClaimsInv, ClaimsType
<1>3. \A j \in Invocations : invocation'[j].now <= clock'
  BY DEF ClaimsInv
<1>4. ASSUME ~outlived', NEW j \in Invocations
      PROVE  WorksUnderClaim(j)' /\ StillFree(j)'
  <2>1. CASE j = i
    BY <2>1 DEF WorksUnderClaim, StillFree, Claims!NoClaim
  <2>2. CASE j # i
    <3>1. WorksUnderClaim(j) /\ StillFree(j)
      BY <1>4 DEF ClaimsInv
    <3>2. j \in superseded' <=> j \in superseded
      BY <2>2
    <3> QED BY <2>2, <3>1, <3>2 DEF WorksUnderClaim, StillFree, Claims!NoClaim
  <2> QED BY <2>1, <2>2
<1> QED BY <1>2, <1>3, <1>4 DEF ClaimsInv

LEMMA ClaimsWrite ==
  ASSUME ClaimsInv, NEW i \in Invocations, Claims!WriteClaim(i)
  PROVE  ClaimsInv'
<1> DEFINE row == [by |-> i, at |-> invocation[i].now]
<1>1. /\ invocation[i].at = "claiming" /\ i \notin superseded
      /\ claim' = row /\ clock' = clock
      /\ superseded' = {j \in Invocations : j # i /\ invocation[j].at = "claiming"}
      /\ invocation' = [invocation EXCEPT ![i].at = "working"]
      /\ outlived' = (outlived \/ \E j \in Invocations : Claims!Outlives(j)')
  BY DEF Claims!WriteClaim, Claims!Is, Claims!Commit, Claims!GoTo, Claims!Observe
<1>2. /\ invocation'[i] = [at |-> "working", now |-> invocation[i].now]
      /\ \A j \in Invocations : j # i => invocation'[j] = invocation[j]
  BY <1>1 DEF ClaimsInv, ClaimsType
<1>3. ClaimsType'
  <2>1. invocation' \in [Invocations -> [at : Place, now : Nat]]
    BY <1>1 DEF ClaimsInv, ClaimsType, Place
  <2>2. outlived' \in BOOLEAN /\ superseded' \subseteq Invocations
    BY <1>1
  <2> QED BY <1>1, <2>1, <2>2 DEF ClaimsInv, ClaimsType
<1>4. \A j \in Invocations : invocation'[j].now <= clock'
  BY <1>1, <1>2 DEF ClaimsInv
<1>5. ASSUME ~outlived', NEW j \in Invocations
      PROVE  WorksUnderClaim(j)' /\ StillFree(j)'
  <2>1. ~outlived /\ ~Claims!Outlives(j)'
    BY <1>1, <1>5
  <2>2. CASE j = i
    BY <1>1, <1>2, <2>2 DEF WorksUnderClaim, StillFree
  <2>3. CASE j # i
    <3>1. invocation[j].at # "working"
      <4> SUFFICES ASSUME invocation[j].at = "working" PROVE FALSE
        OBVIOUS
      <4>1. claim = [by |-> j, at |-> invocation[j].now]
        BY <2>1 DEF ClaimsInv, WorksUnderClaim
      <4>2. claim # Claims!NoClaim
        BY <4>1, ClaimsAssumption DEF Claims!NoClaim
      <4>3. claim.at + MaxClaimAge <= invocation[i].now
        BY <1>1, <2>1, <4>2 DEF ClaimsInv, StillFree
      <4>4. /\ invocation[i].now \in Nat /\ invocation[j].now \in Nat /\ clock \in Nat
            /\ invocation[i].now <= clock
        BY DEF ClaimsInv, ClaimsType
      <4>5. clock >= invocation[j].now + MaxClaimAge
        BY <4>1, <4>3, <4>4, ClaimsAssumption
      <4> QED BY <1>1, <1>2, <2>1, <2>3, <4>5
              DEF Claims!Outlives, Claims!Holding, Claims!Is
    <3>2. invocation'[j].at = "claiming" => j \in superseded'
      BY <1>1, <1>2, <2>3
    <3> QED BY <1>2, <2>3, <3>1, <3>2 DEF WorksUnderClaim, StillFree
  <2> QED BY <2>2, <2>3
<1> QED BY <1>3, <1>4, <1>5 DEF ClaimsInv

LEMMA ClaimsRelease ==
  ASSUME ClaimsInv, NEW i \in Invocations, Claims!Release(i)
  PROVE  ClaimsInv'
<1>1. /\ invocation[i].at = "working" /\ claim' = Claims!NoClaim
      /\ superseded' = {j \in Invocations : j # i /\ invocation[j].at = "claiming"}
      /\ invocation' = [invocation EXCEPT ![i] = Claims!Resting]
      /\ UNCHANGED <<clock, outlived>>
  BY DEF Claims!Release, Claims!Holding, Claims!Is, Claims!Commit, Claims!Rest
<1>2. /\ invocation'[i] = [at |-> "resting", now |-> 0]
      /\ \A j \in Invocations : j # i => invocation'[j] = invocation[j]
  BY <1>1 DEF ClaimsInv, ClaimsType, Claims!Resting
<1>3. ClaimsType'
  BY <1>1 DEF ClaimsInv, ClaimsType, Place, Claims!Resting, Claims!NoClaim
<1>4. \A j \in Invocations : invocation'[j].now <= clock'
  BY <1>1, <1>2 DEF ClaimsInv, ClaimsType
<1>5. ASSUME ~outlived', NEW j \in Invocations
      PROVE  WorksUnderClaim(j)' /\ StillFree(j)'
  <2>1. WorksUnderClaim(i) /\ WorksUnderClaim(j)
    BY <1>1, <1>5 DEF ClaimsInv
  <2>2. j # i => invocation[j].at # "working"
    BY <1>1, <2>1 DEF WorksUnderClaim
  <2> QED BY <1>1, <1>2, <2>2 DEF WorksUnderClaim, StillFree, Claims!NoClaim
<1> QED BY <1>3, <1>4, <1>5 DEF ClaimsInv

LEMMA ClaimsTick ==
  ASSUME ClaimsInv, Claims!Tick
  PROVE  ClaimsInv'
<1>1. /\ clock' = clock + 1 /\ UNCHANGED <<claim, invocation, superseded>>
      /\ outlived' \in BOOLEAN /\ (~outlived' => ~outlived)
  BY DEF Claims!Tick, Claims!Observe, ClaimsInv, ClaimsType
<1>2. ClaimsType' /\ \A i \in Invocations : invocation'[i].now <= clock'
  BY <1>1 DEF ClaimsInv, ClaimsType
<1> QED BY <1>1, <1>2 DEF ClaimsInv, WorksUnderClaim, StillFree, Claims!NoClaim

LEMMA ClaimsStep == ClaimsInv /\ [Next]_vars => ClaimsInv'
<1> SUFFICES ASSUME ClaimsInv, Claims!Next \/ UNCHANGED claimVars PROVE ClaimsInv'
  BY ServiceMoves
<1>2. ASSUME NEW i \in Invocations, Claims!CallClaim(i)
      PROVE  ClaimsInv'
  BY <1>2, ClaimsUncommitted DEF Claims!CallClaim, Place, ClaimsInv, ClaimsType
<1>3. ASSUME NEW i \in Invocations, Claims!ReadClaim(i)
      PROVE  ClaimsInv'
  <2>1. /\ invocation' \in [Invocations -> [at : Place, now : Nat]]
        /\ \A j \in Invocations : j # i => invocation'[j] = invocation[j]
        /\ invocation'[i].at = "claiming" /\ invocation'[i].now = invocation[i].now
    BY <1>3 DEF Claims!ReadClaim, Claims!GoTo, ClaimsInv, ClaimsType, Place
  <2>2. claim = Claims!NoClaim \/ claim.at + MaxClaimAge <= invocation[i].now
    BY <1>3, ClaimsAssumption DEF Claims!ReadClaim, Claims!Fresh, ClaimsInv, ClaimsType
  <2>3. UNCHANGED <<clock, claim, superseded, outlived>>
    BY <1>3 DEF Claims!ReadClaim
  <2> QED BY <2>1, <2>2, <2>3, ClaimsUncommitted DEF ClaimsInv
<1>4. ASSUME NEW i \in Invocations,
             Claims!ClaimRefused(i) \/ Claims!WriteRefused(i) \/ Claims!Die(i)
      PROVE  ClaimsInv'
  <2>1. /\ invocation' = [invocation EXCEPT ![i] = [at |-> "resting", now |-> 0]]
        /\ UNCHANGED <<clock, claim, outlived>>
        /\ superseded' = superseded \/ superseded' = superseded \ {i}
    BY <1>4 DEF Claims!ClaimRefused, Claims!WriteRefused, Claims!Die, Claims!Rest, Claims!Resting
  <2> QED BY <2>1, ClaimsUncommitted DEF Place, ClaimsInv, ClaimsType
<1>5. CASE UNCHANGED claimVars
  BY <1>5 DEF claimVars, ClaimsInv, ClaimsType, WorksUnderClaim, StillFree, Claims!NoClaim
<1> QED BY <1>2, <1>3, <1>4, <1>5, ClaimsWrite, ClaimsRelease, ClaimsTick DEF Claims!Next

\* However calls, reads, writes, releases and deaths interleave, two invocations
\* work on one cycle together only once a claim was gone stale under its worker.
THEOREM OneWorker == Spec => []OneWorksAtATime
<1>1. Spec => []ClaimsInv
  BY ClaimsInit, ClaimsStep, PTL DEF Spec
<1>2. ClaimsInv => OneWorksAtATime
  BY DEF ClaimsInv, WorksUnderClaim, OneWorksAtATime, Claims!OneWorksAtATime,
         Claims!Holding, Claims!Is
<1> QED BY <1>1, <1>2, PTL

-----------------------------------------------------------------------------
(* The tokens of the symbols.  Until a save is cut off the file holds the  *)
(* mapping in memory, so a restart changes nothing, and whoever heeds the  *)
(* events works with its tokens.                                           *)

TokensType ==
  /\ mapping \in [Traded -> Tokens \cup {NoToken}]
  /\ cache \in [Traded -> Tokens \cup {NoToken}]
  /\ used \in [Traded -> Tokens \cup {NoToken}]
  /\ spilled \in BOOLEAN

TokensInv ==
  /\ TokensType
  /\ ~spilled => cache = mapping /\ \A s \in Traded : used[s] \in {NoToken, mapping[s]}

LEMMA TokensInit == Init => TokensInv
BY DEF Init, Resolver!Init, Resolver!Unmapped, TokensInv, TokensType

LEMMA TokensStep == TokensInv /\ [Next]_vars => TokensInv'
<1> SUFFICES ASSUME TokensInv, Resolver!Next \/ UNCHANGED tokenVars PROVE TokensInv'
  BY ServiceMoves
<1> USE DEF TokensInv, TokensType
<1>1. ASSUME NEW s \in Traded, Resolver!Resolve(s)
      PROVE  TokensInv'
  BY <1>1 DEF Resolver!Resolve
<1>2. ASSUME NEW s \in Traded, NEW listed \in SUBSET Tokens, Resolver!DumpChanges(s, listed)
      PROVE  TokensInv'
  BY <1>2 DEF Resolver!DumpChanges
<1>3. CASE Resolver!Refresh
  <2>1. PICK m \in Resolver!NewMappings :
          /\ mapping' = m /\ cache' = m /\ spilled' = spilled
          /\ used' = [s \in Traded |-> IF s \in Resolver!Changed(m) THEN NoToken ELSE used[s]]
    BY <1>3 DEF Resolver!Refresh
  <2>2. m \in [Traded -> Tokens \cup {NoToken}]
    BY DEF Resolver!NewMappings
  <2>3. TokensType'
    BY <2>1, <2>2
  <2>4. ASSUME ~spilled, NEW s \in Traded
        PROVE  used'[s] \in {NoToken, m[s]}
    BY <2>1, <2>4 DEF Resolver!Changed
  <2> QED BY <2>1, <2>3, <2>4
<1>4. CASE Resolver!RefreshRaises
  BY <1>4 DEF Resolver!RefreshRaises, Resolver!NewMappings, Resolver!Unmapped
<1>5. CASE Resolver!Restart
  BY <1>5 DEF Resolver!Restart
<1>6. CASE UNCHANGED tokenVars
  BY <1>6 DEF tokenVars
<1> QED BY <1>1, <1>2, <1>3, <1>4, <1>5, <1>6 DEF Resolver!Next

\* Over listings, delistings, symbols of two exchanges and restarts, a user that
\* heeds the events works with the token the resolver gives, or a save was cut off.
THEOREM TokensCurrent == Spec => []TokensInUseAreCurrent
<1>1. Spec => []TokensInv
  BY TokensInit, TokensStep, PTL DEF Spec
<1>2. TokensInv => TokensInUseAreCurrent
  BY DEF TokensInv, TokensInUseAreCurrent, Resolver!TokensInUseAreCurrent
<1> QED BY <1>1, <1>2, PTL

-----------------------------------------------------------------------------
(* The bundle of secrets at AWS.  A bundle on its way or in the cache was  *)
(* the current one when AWS read it, and one that was served is not long   *)
(* replaced.                                                               *)

BundleType ==
  /\ hour \in Nat
  /\ bundle \in Nat \ {0}
  /\ \A v \in 1..(bundle - 1) : retired[v] \in Nat /\ retired[v] <= hour

WasRead(answer) ==
  answer # NoBundle =>
    /\ answer.version \in 1..bundle /\ answer.read \in Nat /\ answer.read <= hour
    /\ answer.version = bundle \/ answer.read <= retired[answer.version]

WasCached(answer) ==
  answer # NoBundle => answer.at \in Nat /\ answer.read <= answer.at /\ answer.at <= hour

WasServed(answer) ==
  answer # NoBundle =>
    /\ answer.version \in 1..bundle /\ answer.at \in Nat /\ answer.latency \in Nat
    /\ answer.at <= hour
    /\ answer.version = bundle \/ answer.at < retired[answer.version] + LifeTime + answer.latency

BundleInv ==
  /\ BundleType
  /\ WasRead(requested)
  /\ WasRead(cached) /\ WasCached(cached)
  /\ WasServed(served)

LEMMA BundleInit == Init => BundleInv
BY DEF Init, Bundle!Init, BundleInv, BundleType, WasRead, WasCached, WasServed

\* Serving an answer read no longer ago than the cache lives and its request took.
LEMMA BundleServed ==
  ASSUME BundleType, NEW answer, answer # NoBundle, WasRead(answer),
         NEW latency \in Nat, NEW result,
         answer.version # bundle => hour < answer.read + LifeTime + latency,
         result = [version |-> answer.version, at |-> hour, latency |-> latency]
  PROVE  WasServed(result)
<1>1. result.version = answer.version /\ result.at = hour /\ result.latency = latency
  OBVIOUS
<1>2. hour \in Nat /\ answer.version \in 1..bundle /\ answer.read \in Nat /\ bundle \in Nat
  BY DEF BundleType, WasRead
<1>3. ASSUME answer.version # bundle
      PROVE  hour < retired[answer.version] + LifeTime + latency
  <2>1. answer.version \in 1..(bundle - 1) /\ answer.read <= retired[answer.version]
    BY <1>2, <1>3 DEF WasRead
  <2>2. retired[answer.version] \in Nat
    BY <2>1 DEF BundleType
  <2> QED BY <1>2, <1>3, <2>1, <2>2, LifeTimeAssumption
<1> QED BY <1>1, <1>2, <1>3 DEF WasServed

LEMMA BundleRotates ==
  ASSUME BundleInv, Bundle!Rotate
  PROVE  BundleInv'
<1>1. /\ bundle' = bundle + 1 /\ UNCHANGED <<hour, requested, cached, served>>
      /\ bundle \in Nat \ {0} /\ bundle' \in Nat \ {0} /\ hour \in Nat
      /\ retired' = [v \in 1..bundle |-> IF v = bundle THEN hour ELSE retired[v]]
  BY DEF Bundle!Rotate, BundleInv, BundleType
<1>2. /\ retired'[bundle] = hour
      /\ \A v \in 1..(bundle - 1) : retired'[v] = retired[v]
  BY <1>1
<1>3. BundleType'
  <2> SUFFICES ASSUME NEW v \in 1..bundle PROVE retired'[v] \in Nat /\ retired'[v] <= hour
    BY <1>1 DEF BundleType
  <2> QED BY <1>1, <1>2 DEF BundleInv, BundleType
<1>4. ASSUME NEW answer, answer # NoBundle, WasRead(answer)
      PROVE  /\ answer.version \in 1..bundle' /\ answer.read \in Nat /\ answer.read <= hour'
             /\ answer.read <= retired'[answer.version]
  BY <1>1, <1>2, <1>4 DEF WasRead
<1>5. WasRead(requested)' /\ WasRead(cached)'
  BY <1>1, <1>4 DEF BundleInv, WasRead
<1>6. WasCached(cached)'
  BY <1>1 DEF BundleInv, WasCached
<1>7. WasServed(served)'
  <2> SUFFICES ASSUME served # NoBundle
               PROVE  /\ served.version \in 1..bundle'
                      /\ served.at < retired'[served.version] + LifeTime + served.latency
    BY <1>1 DEF BundleInv, WasServed
  <2>1. /\ served.version \in 1..bundle /\ served.at \in Nat /\ served.latency \in Nat
        /\ served.at <= hour
    BY DEF BundleInv, WasServed
  <2>2. CASE served.version = bundle
    BY <1>1, <1>2, <2>1, <2>2, LifeTimeAssumption
  <2>3. CASE served.version # bundle
    BY <1>1, <1>2, <2>1, <2>3 DEF BundleInv, WasServed
  <2> QED BY <2>2, <2>3
<1> QED BY <1>3, <1>5, <1>6, <1>7 DEF BundleInv

LEMMA BundleStep == BundleInv /\ [Next]_vars => BundleInv'
<1> SUFFICES ASSUME BundleInv, Bundle!Next \/ UNCHANGED bundleVars PROVE BundleInv'
  BY ServiceMoves
<1>1. CASE Bundle!Hour
  <2>1. hour' = hour + 1 /\ UNCHANGED <<bundle, retired, requested, cached, served>>
    BY <1>1 DEF Bundle!Hour
  <2> QED BY <2>1 DEF BundleInv, BundleType, WasRead, WasCached, WasServed
<1>2. CASE Bundle!ServeCached
  <2>1. /\ cached # NoBundle /\ hour - cached.at < LifeTime
        /\ served' = [version |-> cached.version, at |-> hour, latency |-> cached.at - cached.read]
        /\ UNCHANGED <<hour, bundle, retired, requested, cached>>
    BY <1>2, LifeTimeAssumption DEF Bundle!ServeCached, Bundle!IsStale, BundleInv, BundleType, WasCached
  <2>2. /\ cached.at \in Nat /\ cached.read \in Nat /\ cached.read <= cached.at /\ hour \in Nat
    BY <2>1 DEF BundleInv, BundleType, WasRead, WasCached
  <2>3. /\ cached.at - cached.read \in Nat
        /\ hour < cached.read + LifeTime + (cached.at - cached.read)
    BY <2>1, <2>2, LifeTimeAssumption
  <2>4. WasServed(served')
    BY <2>1, <2>3, BundleServed DEF BundleInv
  <2>5. WasServed(served)'
    BY <2>1, <2>4 DEF WasServed
  <2> QED BY <2>1, <2>5 DEF BundleInv, BundleType, WasRead, WasCached
<1>3. CASE Bundle!Request
  <2>1. /\ requested' = [version |-> bundle, read |-> hour]
        /\ UNCHANGED <<hour, bundle, retired, cached, served>>
    BY <1>3 DEF Bundle!Request
  <2>2. requested'.version = bundle /\ requested'.read = hour
    BY <2>1
  <2> QED BY <2>1, <2>2 DEF BundleInv, BundleType, WasRead, WasCached, WasServed
<1>4. CASE Bundle!ServeRefreshed
  <2>1. /\ requested # NoBundle /\ requested' = NoBundle /\ UNCHANGED <<hour, bundle, retired>>
        /\ cached' = [version |-> requested.version, read |-> requested.read, at |-> hour]
        /\ served' = [version |-> requested.version, at |-> hour, latency |-> hour - requested.read]
    BY <1>4 DEF Bundle!ServeRefreshed
  <2>2. requested.read \in Nat /\ requested.read <= hour /\ hour \in Nat
    BY <2>1 DEF BundleInv, BundleType, WasRead
  <2>3. /\ hour - requested.read \in Nat
        /\ hour < requested.read + LifeTime + (hour - requested.read)
    BY <2>2, LifeTimeAssumption
  <2>4. WasServed(served')
    BY <2>1, <2>3, BundleServed DEF BundleInv
  <2>5. WasServed(served)'
    BY <2>1, <2>4 DEF WasServed
  <2>6. /\ cached'.version = requested.version /\ cached'.read = requested.read
        /\ cached'.at = hour
    BY <2>1
  <2>7. WasRead(cached)' /\ WasCached(cached)' /\ WasRead(requested)'
    BY <2>1, <2>2, <2>6 DEF BundleInv, WasRead, WasCached
  <2> QED BY <2>1, <2>5, <2>7 DEF BundleInv, BundleType
<1>5. CASE Bundle!RequestFails
  BY <1>5 DEF Bundle!RequestFails, BundleInv, BundleType, WasRead, WasCached, WasServed
<1>6. CASE Bundle!Reopen
  BY <1>6 DEF Bundle!Reopen, BundleInv, BundleType, WasRead, WasCached, WasServed
<1>7. CASE UNCHANGED bundleVars
  BY <1>7 DEF bundleVars, BundleInv, BundleType, WasRead, WasCached, WasServed
<1> QED BY <1>1, <1>2, <1>3, <1>4, <1>5, <1>6, <1>7, BundleRotates DEF Bundle!Next

LEMMA BundleIsServedRight ==
  ASSUME BundleInv
  PROVE  Bundle!RotationsTakeEffect
<1> SUFFICES ASSUME served # NoBundle, served.version # bundle
             PROVE  served.at - retired[served.version] < LifeTime + served.latency
  BY DEF Bundle!RotationsTakeEffect
<1>1. /\ served.version \in 1..(bundle - 1) /\ served.at \in Nat /\ served.latency \in Nat
      /\ served.at < retired[served.version] + LifeTime + served.latency
  BY DEF BundleInv, BundleType, WasServed
<1>2. retired[served.version] \in Nat
  BY <1>1 DEF BundleInv, BundleType
<1> QED BY <1>1, <1>2, LifeTimeAssumption

-----------------------------------------------------------------------------
(* The file of secrets.  Until two calls overlap or one is cut off while   *)
(* writing, one writer at most is at work, what it will write is what is   *)
(* stored but for its own name, and the file holds what is stored unless   *)
(* that writer has emptied it.                                             *)

Secret == Values \cup {NoValue}
Condition == {"empty", "whole", "torn"}
WriterAt == {"away", "loaded", "writing"}

SecretsType ==
  /\ file \in [is : Condition, secrets : [Names -> Secret]]
  /\ writer \in [Writers -> [at : WriterAt, name : Names \cup {NoValue},
                             value : Secret, copy : [Names -> Secret]]]
  /\ \A w \in Writers : writer[w].at # "away" => writer[w].name \in Names
  /\ stored \in [Names -> Secret]
  /\ spoilt \in BOOLEAN

OneWriter == \A v, w \in Writers : writer[v].at # "away" /\ writer[w].at # "away" => v = w

CopiesStored ==
  \A w \in Writers : writer[w].at # "away" =>
    writer[w].copy = [stored EXCEPT ![writer[w].name] = writer[w].value]

FileHoldsStored ==
  /\ file.is # "torn"
  /\ (\A w \in Writers : writer[w].at # "writing") => Secrets!LoadStore = stored

SecretsInv == SecretsType /\ (~spoilt => OneWriter /\ CopiesStored /\ FileHoldsStored)

LEMMA SecretsInit == Init => SecretsInv
<1> SUFFICES ASSUME Secrets!Init PROVE SecretsInv
  BY DEF Init
<1>1. /\ file = [is |-> "empty", secrets |-> [n \in Names |-> NoValue]]
      /\ writer = [w \in Writers |-> [at |-> "away", name |-> NoValue, value |-> NoValue,
                                      copy |-> [n \in Names |-> NoValue]]]
      /\ stored = [n \in Names |-> NoValue] /\ spoilt = FALSE
  BY DEF Secrets!Init, Secrets!Away, Secrets!NoSecrets
<1>2. SecretsType
  BY <1>1 DEF SecretsType, Secret, Condition, WriterAt
<1>3. Secrets!LoadStore = stored
  BY <1>1 DEF Secrets!LoadStore, Secrets!NoSecrets
<1> QED BY <1>1, <1>2, <1>3 DEF SecretsInv, OneWriter, CopiesStored, FileHoldsStored

LEMMA LoadStoreType == SecretsType => Secrets!LoadStore \in [Names -> Secret]
BY DEF SecretsType, Secrets!LoadStore, Secrets!NoSecrets, Secret

LEMMA SecretsSet ==
  ASSUME SecretsInv, NEW w \in Writers, NEW name \in Names, NEW value \in Values,
         Secrets!SetSecret(w, name, value)
  PROVE  SecretsInv'
<1> DEFINE act == [at |-> "loaded", name |-> name, value |-> value,
                   copy |-> [Secrets!LoadStore EXCEPT ![name] = value]]
<1>1. /\ writer[w].at = "away" /\ writer' = [writer EXCEPT ![w] = act]
      /\ spoilt' = (spoilt \/ \E v \in Writers : writer[v].at # "away")
      /\ UNCHANGED <<file, stored>>
  BY DEF Secrets!SetSecret, Secrets!Busy
<1>2. /\ act \in [at : WriterAt, name : Names \cup {NoValue}, value : Secret, copy : [Names -> Secret]]
      /\ act.at = "loaded" /\ act.name = name /\ act.value = value
      /\ act.copy = [Secrets!LoadStore EXCEPT ![name] = value]
  BY LoadStoreType DEF SecretsInv, Secret, WriterAt
<1> HIDE DEF act
<1>3. writer'[w] = act /\ \A v \in Writers : v # w => writer'[v] = writer[v]
  BY <1>1 DEF SecretsInv, SecretsType
<1>4. SecretsType'
  BY <1>1, <1>2, <1>3 DEF SecretsInv, SecretsType
<1>5. ASSUME ~spoilt'
      PROVE  OneWriter' /\ CopiesStored' /\ FileHoldsStored'
  <2>1. ~spoilt /\ \A v \in Writers : writer[v].at = "away"
    BY <1>1, <1>5
  <2>2. Secrets!LoadStore = stored /\ file.is # "torn"
    BY <2>1 DEF SecretsInv, FileHoldsStored
  <2>3. Secrets!LoadStore' = Secrets!LoadStore
    BY <1>1 DEF Secrets!LoadStore
  <2>4. \A v \in Writers : writer'[v].at # "away" => v = w
    BY <1>3, <2>1
  <2>5. OneWriter'
    BY <2>4 DEF OneWriter
  <2>6. CopiesStored'
    BY <1>1, <1>2, <1>3, <2>2, <2>4 DEF CopiesStored
  <2> QED BY <1>1, <2>2, <2>3, <2>5, <2>6 DEF FileHoldsStored
<1> QED BY <1>4, <1>5 DEF SecretsInv

LEMMA SecretsTruncate ==
  ASSUME SecretsInv, NEW w \in Writers, Secrets!Truncate(w)
  PROVE  SecretsInv'
<1>1. /\ writer[w].at = "loaded" /\ writer' = [writer EXCEPT ![w].at = "writing"]
      /\ file' = [is |-> "empty", secrets |-> [n \in Names |-> NoValue]]
      /\ UNCHANGED <<stored, spoilt>>
  BY DEF Secrets!Truncate, Secrets!NoSecrets
<1>2. /\ writer'[w].at = "writing" /\ writer'[w].name = writer[w].name
      /\ writer'[w].value = writer[w].value /\ writer'[w].copy = writer[w].copy
      /\ \A v \in Writers : v # w => writer'[v] = writer[v]
  BY <1>1 DEF SecretsInv, SecretsType
<1>3. SecretsType'
  BY <1>1 DEF SecretsInv, SecretsType, Secret, Condition, WriterAt
<1>4. ASSUME ~spoilt
      PROVE  OneWriter' /\ CopiesStored' /\ FileHoldsStored'
  <2>1. OneWriter'
    BY <1>1, <1>2, <1>4 DEF SecretsInv, OneWriter
  <2>2. CopiesStored'
    BY <1>1, <1>2, <1>4 DEF SecretsInv, CopiesStored
  <2> QED BY <1>1, <1>2, <2>1, <2>2 DEF FileHoldsStored
<1> QED BY <1>1, <1>3, <1>4 DEF SecretsInv

LEMMA SecretsSave ==
  ASSUME SecretsInv, NEW w \in Writers, Secrets!SaveStore(w)
  PROVE  SecretsInv'
<1>1. /\ writer[w].at = "writing" /\ writer[w].name \in Names
      /\ file' = [is |-> "whole", secrets |-> writer[w].copy]
      /\ stored' = [stored EXCEPT ![writer[w].name] = writer[w].value]
      /\ writer' = [writer EXCEPT ![w] = Secrets!Away] /\ spoilt' = spoilt
  BY DEF Secrets!SaveStore, Secrets!Finish, SecretsInv, SecretsType
<1>2. /\ Secrets!Away \in [at : WriterAt, name : Names \cup {NoValue}, value : Secret,
                           copy : [Names -> Secret]]
      /\ Secrets!Away.at = "away"
  BY DEF Secrets!Away, Secrets!NoSecrets, Secret, WriterAt
<1>3. writer'[w].at = "away" /\ \A v \in Writers : v # w => writer'[v] = writer[v]
  BY <1>1, <1>2 DEF SecretsInv, SecretsType
<1>4. SecretsType'
  <2>1. file' \in [is : Condition, secrets : [Names -> Secret]]
    BY <1>1 DEF SecretsInv, SecretsType, Condition
  <2>2. stored' \in [Names -> Secret]
    BY <1>1 DEF SecretsInv, SecretsType
  <2> QED BY <1>1, <1>2, <1>3, <2>1, <2>2 DEF SecretsInv, SecretsType
<1>5. ASSUME ~spoilt
      PROVE  OneWriter' /\ CopiesStored' /\ FileHoldsStored'
  <2>1. \A v \in Writers : writer'[v].at = "away"
    BY <1>1, <1>3, <1>5 DEF SecretsInv, OneWriter
  <2>2. writer[w].copy = stored'
    BY <1>1, <1>5 DEF SecretsInv, CopiesStored
  <2>3. Secrets!LoadStore' = stored' /\ file'.is # "torn"
    BY <1>1, <2>2 DEF Secrets!LoadStore
  <2> QED BY <2>1, <2>3 DEF OneWriter, CopiesStored, FileHoldsStored
<1> QED BY <1>1, <1>4, <1>5 DEF SecretsInv

\* A writer that dies, before it opens the file or while it writes.
LEMMA SecretsCutOff ==
  ASSUME SecretsInv, NEW w \in Writers, Secrets!SaveTorn(w) \/ Secrets!WriterDies(w)
  PROVE  SecretsInv'
<1>1. /\ Secrets!Away \in [at : WriterAt, name : Names \cup {NoValue}, value : Secret,
                           copy : [Names -> Secret]]
      /\ Secrets!Away.at = "away"
  BY DEF Secrets!Away, Secrets!NoSecrets, Secret, WriterAt
<1>2. writer' = [writer EXCEPT ![w] = Secrets!Away] /\ stored' = stored
  BY DEF Secrets!SaveTorn, Secrets!WriterDies
<1>3. writer'[w].at = "away" /\ \A v \in Writers : v # w => writer'[v] = writer[v]
  BY <1>1, <1>2 DEF SecretsInv, SecretsType
<1>4. CASE Secrets!SaveTorn(w)
  <2>1. spoilt' = TRUE /\ file' \in [is : Condition, secrets : [Names -> Secret]]
    BY <1>4 DEF Secrets!SaveTorn, Secrets!NoSecrets, Condition, Secret
  <2> QED BY <1>1, <1>2, <1>3, <2>1 DEF SecretsInv, SecretsType
<1>5. CASE Secrets!WriterDies(w)
  <2>1. writer[w].at = "loaded" /\ UNCHANGED <<file, spoilt>>
    BY <1>5 DEF Secrets!WriterDies
  <2>2. SecretsType'
    BY <1>1, <1>2, <1>3, <2>1 DEF SecretsInv, SecretsType
  <2>3. ASSUME ~spoilt
        PROVE  OneWriter' /\ CopiesStored' /\ FileHoldsStored'
    <3>1. OneWriter' /\ CopiesStored'
      BY <1>2, <1>3, <2>3 DEF SecretsInv, OneWriter, CopiesStored
    <3>2. \A v \in Writers : writer[v].at # "writing"
      BY <2>1, <2>3 DEF SecretsInv, OneWriter
    <3>3. Secrets!LoadStore' = Secrets!LoadStore
      BY <2>1 DEF Secrets!LoadStore
    <3> QED BY <1>2, <2>1, <2>3, <3>1, <3>2, <3>3 DEF SecretsInv, FileHoldsStored
  <2> QED BY <2>1, <2>2, <2>3 DEF SecretsInv
<1> QED BY <1>4, <1>5

LEMMA SecretsStep == SecretsInv /\ [Next]_vars => SecretsInv'
<1> SUFFICES ASSUME SecretsInv, Secrets!Next \/ UNCHANGED secretVars PROVE SecretsInv'
  BY ServiceMoves
<1>1. ASSUME UNCHANGED <<file, writer, stored, spoilt>>
      PROVE  SecretsInv'
  BY <1>1 DEF SecretsInv, SecretsType, OneWriter, CopiesStored, FileHoldsStored,
              Secrets!LoadStore
<1>2. CASE \/ Secrets!Start \/ Secrets!GetSecret \/ Secrets!RefuseStart
           \/ Secrets!Started \/ Secrets!Stop \/ UNCHANGED secretVars
  BY <1>1, <1>2 DEF Secrets!Start, Secrets!GetSecret, Secrets!RefuseStart,
                    Secrets!Started, Secrets!Stop, secretVars
<1> QED BY <1>2, SecretsSet, SecretsTruncate, SecretsSave, SecretsCutOff DEF Secrets!Next

LEMMA SecretsSurvive ==
  ASSUME SecretsInv
  PROVE  Secrets!StoredSecretsSurvive
<1> SUFFICES ASSUME ~spoilt
             PROVE  /\ \A name \in Names : stored[name] # NoValue =>
                         \/ Secrets!LoadStore[name] = stored[name]
                         \/ \E w \in Writers : Secrets!Rewriting(w) /\ Secrets!HeldBy(w, name)
                    /\ Secrets!Refused =>
                         \/ stored[Secrets!NextName] = NoValue
                         \/ \E w \in Writers : Secrets!Rewriting(w)
  BY DEF Secrets!StoredSecretsSurvive
<1>1. CASE \A w \in Writers : writer[w].at # "writing"
  <2>1. Secrets!LoadStore = stored /\ file.is # "torn"
    BY <1>1 DEF SecretsInv, FileHoldsStored
  <2> QED BY <2>1 DEF Secrets!Refused, Secrets!Readable, Secrets!Missing, Secrets!NextValue
<1>2. ASSUME NEW w \in Writers, writer[w].at = "writing"
      PROVE  Secrets!Rewriting(w) /\ \A name \in Names : Secrets!HeldBy(w, name)
  BY <1>2 DEF SecretsInv, SecretsType, CopiesStored, Secrets!Rewriting, Secrets!HeldBy
<1> QED BY <1>1, <1>2

\* Whatever calls and starts interleave: a stored secret is in the file or in the
\* hands of the one writer that rewrites it, unless calls overlapped or one was cut
\* off; and a secret rotated at AWS is served no longer than the cache lives.
THEOREM SecretsServed == Spec => []SecretsAreServedRight
<1>1. Spec => [](SecretsInv /\ BundleInv)
  BY SecretsInit, SecretsStep, BundleInit, BundleStep, PTL DEF Spec
<1>2. SecretsInv /\ BundleInv => SecretsAreServedRight
  BY SecretsSurvive, BundleIsServedRight DEF SecretsAreServedRight
<1> QED BY <1>1, <1>2, PTL

-----------------------------------------------------------------------------
(* The notices to the operator.  What the file holds while retry_queued    *)
(* works has reached the chat, is in the job's hands, or was enqueued      *)
(* behind its back.                                                        *)

LEMMA ToSetAppend ==
  ASSUME NEW S, NEW s \in Seq(S), NEW e \in S
  PROVE  Notice!ToSet(Append(s, e)) = Notice!ToSet(s) \cup {e}
<1>1. /\ Len(Append(s, e)) = Len(s) + 1 /\ DOMAIN Append(s, e) = 1..(Len(s) + 1)
      /\ Append(s, e)[Len(s) + 1] = e /\ \A i \in 1..Len(s) : Append(s, e)[i] = s[i]
  OBVIOUS
<1>2. DOMAIN s = 1..Len(s) /\ Len(s) \in Nat
  OBVIOUS
<1> QED BY <1>1, <1>2 DEF Notice!ToSet

LEMMA ToSetTail ==
  ASSUME NEW S, NEW s \in Seq(S), s # <<>>
  PROVE  Notice!ToSet(s) = {Head(s)} \cup Notice!ToSet(Tail(s))
<1>1. /\ DOMAIN s = 1..Len(s) /\ Len(s) \in Nat \ {0} /\ Head(s) = s[1]
      /\ DOMAIN Tail(s) = 1..(Len(s) - 1)
      /\ \A i \in 1..(Len(s) - 1) : Tail(s)[i] = s[i + 1]
  OBVIOUS
<1>2. ASSUME NEW i \in DOMAIN s, i # 1
      PROVE  \E j \in DOMAIN Tail(s) : s[i] = Tail(s)[j]
  <2>1. i - 1 \in DOMAIN Tail(s) /\ Tail(s)[i - 1] = s[i]
    BY <1>1, <1>2
  <2> QED BY <2>1
<1>3. \A j \in DOMAIN Tail(s) : j + 1 \in DOMAIN s /\ Tail(s)[j] = s[j + 1]
  BY <1>1
<1>4. /\ Notice!ToSet(s) = {s[i] : i \in DOMAIN s}
      /\ Notice!ToSet(Tail(s)) = {Tail(s)[j] : j \in DOMAIN Tail(s)}
  BY DEF Notice!ToSet
<1>5. ASSUME NEW i \in DOMAIN s
      PROVE  s[i] \in {Head(s)} \cup Notice!ToSet(Tail(s))
  BY <1>1, <1>2, <1>4
<1>6. ASSUME NEW j \in DOMAIN Tail(s)
      PROVE  Tail(s)[j] \in Notice!ToSet(s)
  BY <1>3, <1>4
<1>7. Head(s) \in Notice!ToSet(s)
  BY <1>1, <1>4
<1> QED BY <1>4, <1>5, <1>6, <1>7

Job == [open : BOOLEAN, rows : Seq(Messages), failed : Seq(Messages), attempts : Nat]

NoticesType ==
  /\ sending \in [message : Messages \cup {NoMessage}, attempts : Nat]
  /\ sending.attempts # 0 => sending.message \in Messages
  /\ accepted \subseteq Messages
  /\ queue \in Seq(Messages)
  /\ job \in Job
  /\ received \in [Messages -> Nat]

Known(m) ==
  received[m] > 0 \/ m = sending.message \/ m \in Notice!ToSet(queue) \/ m \in unsafe

InHands(m) ==
  \/ received[m] > 0 \/ m \in Notice!ToSet(job.rows)
  \/ m \in Notice!ToSet(job.failed) \/ m \in unsafe

NoticesInv ==
  /\ NoticesType
  /\ \A m \in accepted : Known(m)
  /\ job.open => \A m \in Notice!ToSet(queue) : InHands(m)

LEMMA NoticesInit == Init => NoticesInv
<1> SUFFICES ASSUME Notice!Init PROVE NoticesInv
  BY DEF Init
<1>1. /\ sending = [message |-> NoMessage, attempts |-> 0] /\ accepted = {} /\ queue = <<>>
      /\ job = [open |-> FALSE, rows |-> <<>>, failed |-> <<>>, attempts |-> 0]
      /\ received = [m \in Messages |-> 0]
  BY DEF Notice!Init, Notice!NoSend, Notice!NoJob
<1>2. NoticesType
  BY <1>1 DEF NoticesType, Job
<1> QED BY <1>1, <1>2 DEF NoticesInv

\* A delivery makes the message known for good, and forgets no other.
LEMMA NoticeDelivered ==
  ASSUME NoticesType, NEW m \in Messages, Notice!MaybeDelivered(m)
  PROVE  /\ received' \in [Messages -> Nat]
         /\ \A n \in Messages : received[n] > 0 => received'[n] > 0
         /\ Notice!Delivered(m) => received'[m] > 0
BY DEF NoticesType, Notice!MaybeDelivered, Notice!Delivered

LEMMA NoticesSend ==
  ASSUME NoticesInv,
         \/ \E m \in Messages : Notice!Send(m)
         \/ Notice!RequestAnswered \/ Notice!RequestFails \/ Notice!Enqueue
         \/ Notice!SendAbandoned
  PROVE  NoticesInv'
<1> DEFINE sent == sending.message
<1>1. ASSUME NEW m \in Messages, Notice!Send(m)
      PROVE  NoticesInv'
  <2>1. /\ accepted' = accepted \cup {m} /\ sending.message = NoMessage
        /\ sending' = [message |-> m, attempts |-> 0]
        /\ UNCHANGED <<queue, job, received, unsafe>>
    BY <1>1 DEF Notice!Send, Notice!Sending
  <2>2. NoticesType' /\ sending'.message = m
    BY <2>1 DEF NoticesInv, NoticesType
  <2>3. \A n \in accepted : n # sending.message
    BY <2>1, MessageAssumption DEF NoticesInv, NoticesType
  <2> QED BY <2>1, <2>2, <2>3 DEF NoticesInv, Known, InHands
<1>2. CASE Notice!RequestAnswered \/ Notice!RequestFails
  <2>1. /\ sent \in Messages /\ Notice!MaybeDelivered(sent)
        /\ UNCHANGED <<accepted, queue, job, unsafe>>
    BY <1>2 DEF Notice!RequestAnswered, Notice!RequestFails, Notice!Sending,
                Notice!MaybeDelivered, NoticesInv, NoticesType
  <2>2. /\ received' \in [Messages -> Nat]
        /\ \A n \in Messages : received[n] > 0 => received'[n] > 0
        /\ Notice!Delivered(sent) => received'[sent] > 0
    BY <2>1, NoticeDelivered DEF NoticesInv
  <2>3. \A n \in Notice!ToSet(queue) : n \in Messages
    BY DEF NoticesInv, NoticesType, Notice!ToSet
  <2>4. job.open => \A n \in Notice!ToSet(queue) : InHands(n)'
    BY <2>1, <2>2, <2>3 DEF NoticesInv, InHands
  <2>5. CASE Notice!RequestAnswered
    <3>1. sending' = [message |-> NoMessage, attempts |-> 0] /\ received'[sent] > 0
      BY <2>2, <2>5 DEF Notice!RequestAnswered, Notice!NoSend
    <3>2. NoticesType'
      BY <2>1, <2>2, <3>1 DEF NoticesInv, NoticesType
    <3> QED BY <2>1, <2>2, <2>4, <3>1, <3>2 DEF NoticesInv, NoticesType, Known
  <2>6. CASE Notice!RequestFails
    <3>1. sending' = [sending EXCEPT !.attempts = @ + 1]
      BY <2>6 DEF Notice!RequestFails
    <3>2. /\ sending'.message = sending.message
          /\ sending' \in [message : Messages \cup {NoMessage}, attempts : Nat]
      <4>1. sending \in [message : Messages \cup {NoMessage}, attempts : Nat]
        BY DEF NoticesInv, NoticesType
      <4> QED BY <3>1, <4>1
    <3>3. NoticesType'
      BY <2>1, <2>2, <3>2 DEF NoticesInv, NoticesType
    <3> QED BY <2>1, <2>2, <2>4, <3>2, <3>3 DEF NoticesInv, NoticesType, Known
  <2> QED BY <1>2, <2>5, <2>6
<1>3. CASE Notice!Enqueue
  <2>1. /\ sent \in Messages
        /\ queue' = Append(queue, sent)
        /\ unsafe' = IF job.open THEN unsafe \cup {sent} ELSE unsafe
        /\ sending' = [message |-> NoMessage, attempts |-> 0]
        /\ UNCHANGED <<accepted, job, received>>
    BY <1>3, AttemptsAssumption
       DEF Notice!Enqueue, Notice!Exhausted, Notice!NoSend, NoticesInv, NoticesType
  <2>2. Notice!ToSet(queue') = Notice!ToSet(queue) \cup {sent}
    BY <2>1, ToSetAppend DEF NoticesInv, NoticesType
  <2>3. NoticesType'
    BY <2>1 DEF NoticesInv, NoticesType
  <2>4. \A n \in accepted : Known(n)'
    BY <2>1, <2>2 DEF NoticesInv, Known
  <2>5. job.open => \A n \in Notice!ToSet(queue') : InHands(n)'
    BY <2>1, <2>2 DEF NoticesInv, InHands
  <2> QED BY <2>1, <2>3, <2>4, <2>5 DEF NoticesInv
<1>4. CASE Notice!SendAbandoned
  <2>1. /\ unsafe' = unsafe \cup {sent}
        /\ sending' = [message |-> NoMessage, attempts |-> 0]
        /\ UNCHANGED <<accepted, queue, job, received>>
    BY <1>4 DEF Notice!SendAbandoned, Notice!NoSend
  <2>2. NoticesType'
    BY <2>1 DEF NoticesInv, NoticesType
  <2> QED BY <2>1, <2>2 DEF NoticesInv, Known, InHands
<1> QED BY <1>1, <1>2, <1>3, <1>4

LEMMA NoticesRetry ==
  ASSUME NoticesInv,
         \/ Notice!ReadQueue \/ Notice!RowSent \/ Notice!RowFails \/ Notice!Rewrite
         \/ Notice!RewriteTorn \/ Notice!JobDies
  PROVE  NoticesInv'
<1> DEFINE closed == [open |-> FALSE, rows |-> <<>>, failed |-> <<>>, attempts |-> 0]
<1>0. /\ job.rows \in Seq(Messages) /\ job.failed \in Seq(Messages) /\ job.attempts \in Nat
      /\ closed \in Job /\ ~closed.open
      /\ \A n \in Notice!ToSet(queue) : n \in Messages
  BY DEF NoticesInv, NoticesType, Job, Notice!ToSet
<1> HIDE DEF closed
<1>1. CASE Notice!ReadQueue
  <2>1. /\ job' = [open |-> TRUE, rows |-> queue, failed |-> <<>>, attempts |-> 0]
        /\ UNCHANGED <<sending, accepted, queue, received, unsafe>>
    BY <1>1 DEF Notice!ReadQueue, Notice!NoJob
  <2>2. NoticesType' /\ job'.rows = queue
    BY <2>1 DEF NoticesInv, NoticesType, Job
  <2> QED BY <2>1, <2>2 DEF NoticesInv, Known, InHands
<1>2. CASE Notice!RowSent \/ Notice!RowFails
  <2> DEFINE row == Head(job.rows)
  <2>1. /\ job.rows # <<>> /\ Notice!MaybeDelivered(row)
        /\ UNCHANGED <<sending, accepted, queue, unsafe>>
    BY <1>2 DEF Notice!RowSent, Notice!RowFails, Notice!Trying, Notice!MaybeDelivered
  <2>2. /\ row \in Messages /\ Tail(job.rows) \in Seq(Messages)
        /\ Append(job.failed, row) \in Seq(Messages)
        /\ Notice!ToSet(job.rows) = {row} \cup Notice!ToSet(Tail(job.rows))
        /\ Notice!ToSet(Append(job.failed, row)) = Notice!ToSet(job.failed) \cup {row}
    BY <1>0, <2>1, ToSetTail, ToSetAppend
  <2> HIDE DEF row
  <2>3. /\ received' \in [Messages -> Nat]
        /\ \A n \in Messages : received[n] > 0 => received'[n] > 0
        /\ Notice!Delivered(row) => received'[row] > 0
    BY <2>1, <2>2, NoticeDelivered DEF NoticesInv
  <2>4. /\ job' \in Job
        /\ \/ received'[row] > 0 /\ job'.rows = Tail(job.rows) /\ job'.failed = job.failed
           \/ job'.rows = job.rows /\ job'.failed = job.failed
           \/ job'.rows = Tail(job.rows) /\ job'.failed = Append(job.failed, row)
        /\ job'.open = job.open
    <3>1. CASE Notice!RowSent
      <4>1. job' = [job EXCEPT !.rows = Tail(@), !.attempts = 0] /\ Notice!Delivered(row)
        BY <3>1 DEF Notice!RowSent, row
      <4> QED BY <2>2, <2>3, <4>1 DEF NoticesInv, NoticesType, Job
    <3>2. CASE Notice!RowFails
      <4>1. \/ job' = [job EXCEPT !.attempts = @ + 1]
            \/ job' = [job EXCEPT !.rows = Tail(@), !.attempts = 0, !.failed = Append(@, row)]
        BY <3>2 DEF Notice!RowFails, row
      <4>2. job \in Job
        BY DEF NoticesInv, NoticesType
      <4>3. CASE job' = [job EXCEPT !.attempts = @ + 1]
        BY <4>2, <4>3 DEF Job
      <4>4. CASE job' = [job EXCEPT !.rows = Tail(@), !.attempts = 0,
                                    !.failed = Append(@, row)]
        BY <2>2, <4>2, <4>4 DEF Job
      <4> QED BY <4>1, <4>3, <4>4
    <3> QED BY <1>2, <3>1, <3>2
  <2>5. NoticesType'
    BY <2>1, <2>3, <2>4 DEF NoticesInv, NoticesType
  <2>6. \A n \in accepted : Known(n)'
    BY <2>1, <2>3 DEF NoticesInv, NoticesType, Known
  <2>7. ASSUME job.open, NEW n \in Notice!ToSet(queue)
        PROVE  InHands(n)'
    <3>1. InHands(n) /\ n \in Messages
      BY <1>0, <2>7 DEF NoticesInv
    <3> QED BY <2>1, <2>2, <2>3, <2>4, <3>1 DEF InHands
  <2> QED BY <2>1, <2>4, <2>5, <2>6, <2>7 DEF NoticesInv
<1>3. CASE Notice!Rewrite \/ Notice!RewriteTorn
  <2>1. /\ job.open /\ job.rows = <<>> /\ job' = closed
        /\ UNCHANGED <<sending, accepted, received>>
    BY <1>3 DEF Notice!Rewrite, Notice!RewriteTorn, Notice!NoJob, closed
  <2>2. /\ queue' \in Seq(Messages)
        /\ unsafe \subseteq unsafe'
        /\ \A n \in Notice!ToSet(job.failed) : n \in Notice!ToSet(queue') \/ n \in unsafe'
    <3>1. CASE Notice!Rewrite
      BY <1>0, <3>1 DEF Notice!Rewrite
    <3>2. CASE Notice!RewriteTorn
      BY <1>0, <3>2 DEF Notice!RewriteTorn
    <3> QED BY <1>3, <3>1, <3>2
  <2>3. NoticesType'
    BY <1>0, <2>1, <2>2 DEF NoticesInv, NoticesType
  <2>4. Notice!ToSet(job.rows) = {}
    BY <2>1 DEF Notice!ToSet
  <2>5. \A n \in accepted : Known(n)'
    BY <2>1, <2>2, <2>4 DEF NoticesInv, Known, InHands
  <2> QED BY <1>0, <2>1, <2>3, <2>5 DEF NoticesInv
<1>4. CASE Notice!JobDies
  <2>1. job' = closed /\ UNCHANGED <<sending, accepted, queue, received, unsafe>>
    BY <1>4 DEF Notice!JobDies, Notice!NoJob, closed
  <2> QED BY <1>0, <2>1 DEF NoticesInv, NoticesType, Known
<1> QED BY <1>1, <1>2, <1>3, <1>4

LEMMA NoticesStep == NoticesInv /\ [Next]_vars => NoticesInv'
<1> SUFFICES ASSUME NoticesInv, Notice!Next \/ UNCHANGED noticeVars PROVE NoticesInv'
  BY ServiceMoves
<1>1. CASE UNCHANGED noticeVars
  BY <1>1 DEF noticeVars, NoticesInv, NoticesType, Known, InHands
<1> QED BY <1>1, NoticesSend, NoticesRetry DEF Notice!Next

\* Whatever fails, dies or is retried in between: a message given to send has
\* reached the chat, is being sent or waits in the file, or its own write failed,
\* its process died, or the retry job held an older copy of the file.
THEOREM NoticesKept == Spec => []NoticesAccountedFor
<1>1. Spec => []NoticesInv
  BY NoticesInit, NoticesStep, PTL DEF Spec
<1>2. NoticesInv => NoticesAccountedFor
  BY DEF NoticesInv, Known, NoticesAccountedFor, Notice!NoticesAccountedFor
<1> QED BY <1>1, <1>2, PTL
-----------------------------------------------------------------------------
(* The Kite port.  As long as the file parses, it maps every order Kite    *)
(* has taken and all a running port has in memory; a running port resolves *)
(* every order of the book even when the file is broken for the next one.  *)

Tag == {TagOf[r] : r \in References}
KiteOrder == [tag : Tag, status : Kite!Statuses, filled : Nat]
Posting == [reference : References \cup {NoReference}, at : {"none", "recording", "posting"},
            attempts : Nat]

KiteType ==
  /\ mapped \subseteq References
  /\ port \in [up : BOOLEAN, cache : SUBSET References]
  /\ posting \in Posting
  /\ posting.at # "none" => posting.reference \in References /\ port.up
  /\ book \in Seq(KiteOrder)

Resolvable(tag, references) == \E r \in references : TagOf[r] = tag

KiteInv ==
  /\ KiteType
  /\ port.up => \A o \in DOMAIN book : Resolvable(book[o].tag, port.cache)
  /\ posting.at = "posting" => Resolvable(TagOf[posting.reference], port.cache)
  /\ ending # "broken" =>
       /\ port.cache \subseteq mapped
       /\ \A o \in DOMAIN book : Resolvable(book[o].tag, mapped)

LEMMA KiteInit == Init => KiteInv
<1> SUFFICES ASSUME Kite!Init PROVE KiteInv
  BY DEF Init
<1>1. /\ mapped = {} /\ port = [up |-> FALSE, cache |-> {}] /\ book = <<>>
      /\ posting = [reference |-> NoReference, at |-> "none", attempts |-> 0]
  BY DEF Kite!Init, Kite!PortDown, Kite!NotPosting
<1> QED BY <1>1 DEF KiteInv, KiteType, Posting

\* A start, a stop and a death.
LEMMA KitePortMoves ==
  ASSUME KiteInv, Kite!Start \/ Kite!Stop \/ Kite!Die
  PROVE  KiteInv'
<1>1. CASE Kite!Start
  <2>1. /\ ~port.up /\ ending # "broken"
        /\ port' = [up |-> TRUE, cache |-> mapped]
        /\ UNCHANGED <<mapped, ending, posting, book>>
    BY <1>1 DEF Kite!Start
  <2>2. posting.at = "none"
    BY <2>1 DEF KiteInv, KiteType, Posting
  <2>3. KiteType'
    BY <2>1, <2>2 DEF KiteInv, KiteType
  <2> QED BY <2>1, <2>2, <2>3 DEF KiteInv
<1>2. CASE Kite!Stop \/ Kite!Die
  <2>1. /\ port' = [up |-> FALSE, cache |-> {}]
        /\ posting' = [reference |-> NoReference, at |-> "none", attempts |-> 0]
        /\ UNCHANGED <<mapped, ending, book>>
    BY <1>2 DEF Kite!Stop, Kite!Die, Kite!PortDown, Kite!NotPosting
  <2>2. KiteType'
    BY <2>1 DEF KiteInv, KiteType, Posting
  <2> QED BY <2>1, <2>2 DEF KiteInv
<1> QED BY <1>1, <1>2

\* What an append or a torn append leaves: a file that parses has lost no
\* line; and what a complete append put in the cache, it put in the file.
LEMMA KiteRecords ==
  ASSUME KiteInv, Kite!Recorded \/ Kite!RecordFails \/ Kite!RecordDies
  PROVE  KiteInv'
<1> DEFINE r == posting.reference
<1>1. r \in References /\ port.up /\ posting.at = "recording" /\ UNCHANGED book
  BY DEF KiteInv, KiteType, Kite!Recorded, Kite!RecordFails, Kite!RecordDies
<1>2. CASE Kite!Recorded
  <2>1. posting' = [posting EXCEPT !.at = "posting"]
    BY <1>2 DEF Kite!Recorded
  <2>2. posting' \in Posting /\ posting'.at = "posting" /\ posting'.reference = r
    BY <2>1 DEF KiteInv, KiteType, Posting
  <2>3. CASE Kite!Known(r)
    <3>1. UNCHANGED <<mapped, ending, port>>
      BY <1>2, <2>3 DEF Kite!Recorded
    <3>2. Resolvable(TagOf[r], port.cache)
      BY <2>3 DEF Kite!Known, Resolvable
    <3>3. KiteType'
      BY <1>1, <2>2, <3>1 DEF KiteInv, KiteType
    <3> QED BY <1>1, <2>2, <3>1, <3>2, <3>3 DEF KiteInv
  <2>4. CASE ~Kite!Known(r)
    <3>1. Kite!AppendLine(r) /\ port' = [port EXCEPT !.cache = @ \cup {r}]
      BY <1>2, <2>4 DEF Kite!Recorded, Kite!Cached
    <3>2. /\ port' \in [up : BOOLEAN, cache : SUBSET References]
          /\ port'.up = port.up /\ port'.cache = port.cache \cup {r}
      BY <1>1, <3>1 DEF KiteInv, KiteType
    <3>3. \/ ending # "broken" /\ mapped' = mapped \cup {r}
          \/ ending' = "broken" /\ mapped' = mapped
      BY <3>1 DEF Kite!AppendLine
    <3>4. KiteType'
      BY <1>1, <2>2, <3>2, <3>3 DEF KiteInv, KiteType
    <3> QED BY <1>1, <2>2, <3>2, <3>3, <3>4 DEF KiteInv, Resolvable
  <2> QED BY <2>3, <2>4
<1>3. CASE Kite!RecordFails \/ Kite!RecordDies
  <2>1. /\ posting' = [reference |-> NoReference, at |-> "none", attempts |-> 0]
        /\ Kite!TornLine(r)
        /\ port' = port \/ port' = [up |-> FALSE, cache |-> {}]
    BY <1>3 DEF Kite!RecordFails, Kite!RecordDies, Kite!NotPosting, Kite!PortDown
  <2>2. /\ mapped \subseteq mapped' /\ mapped' \subseteq References
        /\ ending' # "broken" => ending # "broken"
    BY <1>1, <2>1 DEF Kite!TornLine, KiteInv, KiteType
  <2>3. /\ port' \in [up : BOOLEAN, cache : SUBSET References]
        /\ port'.cache \subseteq port.cache /\ (port'.up => port' = port)
    <3>1. port \in [up : BOOLEAN, cache : SUBSET References]
      BY DEF KiteInv, KiteType
    <3>2. CASE port' = port
      BY <3>1, <3>2
    <3>3. CASE port' = [up |-> FALSE, cache |-> {}]
      BY <3>1, <3>3
    <3> QED BY <2>1, <3>2, <3>3
  <2>4. KiteType'
    BY <1>1, <2>1, <2>2, <2>3 DEF KiteInv, KiteType, Posting
  <2> QED BY <1>1, <2>1, <2>2, <2>3, <2>4 DEF KiteInv, Resolvable
<1> QED BY <1>2, <1>3

\* submit_order once its tag is on file: the orders Kite takes for it.
LEMMA KitePosts ==
  ASSUME KiteInv, Kite!PostAnswered \/ Kite!PostRefused \/ Kite!PostUnanswered
  PROVE  KiteInv'
<1> DEFINE r == posting.reference
           order == [tag |-> TagOf[r], status |-> "OPEN PENDING", filled |-> 0]
<1>1. /\ r \in References /\ port.up /\ posting.at = "posting"
      /\ UNCHANGED <<mapped, ending, port>>
  BY DEF KiteInv, KiteType, Kite!PostAnswered, Kite!PostRefused, Kite!PostUnanswered
<1>2. book' = book \/ book' = Append(book, order)
  BY DEF Kite!PostAnswered, Kite!PostRefused, Kite!PostUnanswered, Kite!Take
<1>3. order \in KiteOrder /\ order.tag = TagOf[r]
  BY <1>1 DEF KiteOrder, Tag, Kite!Statuses
<1> HIDE DEF order
<1>4. /\ posting' \in Posting
      /\ posting'.at # "none" => posting'.reference = r
      /\ posting'.at \in {"none", "posting"}
  <2>1. \/ posting' = [reference |-> NoReference, at |-> "none", attempts |-> 0]
        \/ posting' = [posting EXCEPT !.attempts = @ + 1]
    BY DEF Kite!PostAnswered, Kite!PostRefused, Kite!PostUnanswered, Kite!NotPosting
  <2>2. posting \in Posting
    BY DEF KiteInv, KiteType
  <2>3. CASE posting' = [reference |-> NoReference, at |-> "none", attempts |-> 0]
    BY <2>3 DEF Posting
  <2>4. CASE posting' = [posting EXCEPT !.attempts = @ + 1]
    BY <1>1, <2>2, <2>4 DEF Posting
  <2> QED BY <2>1, <2>3, <2>4
<1>5. book' \in Seq(KiteOrder) /\ \A o \in DOMAIN book' :
        (o \in DOMAIN book /\ book'[o] = book[o]) \/ book'[o].tag = TagOf[r]
  BY <1>2, <1>3 DEF KiteInv, KiteType
<1>6. KiteType'
  BY <1>1, <1>4, <1>5 DEF KiteInv, KiteType
<1>7. /\ Resolvable(TagOf[r], port.cache)
      /\ ending # "broken" => Resolvable(TagOf[r], mapped)
  BY <1>1 DEF KiteInv, Resolvable
<1>8. port.up => \A o \in DOMAIN book' : Resolvable(book'[o].tag, port.cache)
  BY <1>5, <1>7 DEF KiteInv
<1>9. ending # "broken" => \A o \in DOMAIN book' : Resolvable(book'[o].tag, mapped)
  BY <1>5, <1>7 DEF KiteInv
<1>10. posting'.at = "posting" => Resolvable(TagOf[posting'.reference], port.cache)
  BY <1>4, <1>7
<1> QED BY <1>1, <1>6, <1>8, <1>9, <1>10 DEF KiteInv, Resolvable

\* Kite's side: an order keeps its tag.
LEMMA KiteFills ==
  ASSUME KiteInv, NEW o \in DOMAIN book, Kite!KiteMoves(o)
  PROVE  KiteInv'
<1>1. UNCHANGED <<mapped, ending, port, posting>>
  BY DEF Kite!KiteMoves
<1>2. PICK status \in Kite!Statuses : \E filled \in book[o].filled..OrderSize :
        book' = [book EXCEPT ![o].status = status, ![o].filled = filled]
  BY DEF Kite!KiteMoves
<1>3. PICK filled \in book[o].filled..OrderSize :
        book' = [book EXCEPT ![o].status = status, ![o].filled = filled]
  BY <1>2
<1> DEFINE order == [book[o] EXCEPT !.status = status, !.filled = filled]
<1>4. book[o] \in KiteOrder
  BY DEF KiteInv, KiteType
<1>5. filled \in Nat
  BY <1>3, <1>4, OrderSizeAssumption DEF KiteOrder
<1>6. order \in KiteOrder /\ order.tag = book[o].tag
  BY <1>4, <1>5 DEF KiteOrder
<1>7. book' = [book EXCEPT ![o] = order]
  BY <1>3
<1> HIDE DEF order
<1>8. book' \in Seq(KiteOrder) /\ DOMAIN book' = DOMAIN book
      /\ \A p \in DOMAIN book : book'[p].tag = book[p].tag
  BY <1>6, <1>7 DEF KiteInv, KiteType
<1>9. KiteType'
  BY <1>1, <1>8 DEF KiteInv, KiteType
<1> QED BY <1>1, <1>8, <1>9 DEF KiteInv, Resolvable

LEMMA KiteStep == KiteInv /\ [Next]_vars => KiteInv'
<1> SUFFICES ASSUME KiteInv, Kite!Next \/ UNCHANGED kiteVars PROVE KiteInv'
  BY ServiceMoves
<1>1. CASE UNCHANGED kiteVars
  BY <1>1 DEF kiteVars, KiteInv, KiteType, Resolvable
<1>2. ASSUME NEW r \in References, Kite!Submit(r)
      PROVE  KiteInv'
  <2>1. /\ port.up /\ posting' = [reference |-> r, at |-> "recording", attempts |-> 0]
        /\ UNCHANGED <<mapped, ending, port, book>>
    BY <1>2 DEF Kite!Submit
  <2>2. KiteType'
    BY <2>1 DEF KiteInv, KiteType, Posting
  <2> QED BY <2>1, <2>2 DEF KiteInv, Resolvable
<1> QED BY <1>1, <1>2, KitePortMoves, KiteRecords, KitePosts, KiteFills DEF Kite!Next

\* What the port makes of an order it can resolve: an outstanding one is
\* listed, and a listed one carries a reference with its tag.
LEMMA KiteListed ==
  ASSUME KiteInv, Kite!CanList, NEW o \in DOMAIN book
  PROVE  LET listed == {v \in Kite!OpenOrders : v.id = o}
         IN  /\ Kite!Outstanding(book[o]) => listed # {}
             /\ \A v \in listed : v.reference # NoReference /\ TagOf[v.reference] = book[o].tag
<1>1. book[o] \in KiteOrder /\ book[o].status # "UNLISTED" /\ port.up
      /\ port.cache \subseteq References
  BY DEF KiteInv, KiteType, Kite!CanList, Kite!Unrecognized
<1>2. /\ Kite!Resolve(book[o].tag) \in References
      /\ TagOf[Kite!Resolve(book[o].tag)] = book[o].tag
  BY <1>1 DEF KiteInv, Resolvable, Kite!Resolve
<1>3. /\ Kite!View(o).id = o /\ Kite!View(o).reference = Kite!Resolve(book[o].tag)
      /\ Kite!View(o).state = Kite!MapKiteStatus(book[o])
  BY DEF Kite!View
<1>4. \A p \in DOMAIN book : Kite!View(p).id = p
  BY DEF Kite!View
<1>5. Kite!Outstanding(book[o]) => Kite!MapKiteStatus(book[o]) \notin {"FILLED", "CANCELLED"}
  <2> SUFFICES ASSUME Kite!Outstanding(book[o])
               PROVE  Kite!MapKiteStatus(book[o]) \notin {"FILLED", "CANCELLED"}
    OBVIOUS
  <2>1. book[o].status \in {"OPEN PENDING", "OPEN", "MODIFIED", "REJECTED"}
        /\ book[o].filled < OrderSize
    BY <1>1 DEF Kite!Outstanding, KiteOrder, Kite!Statuses
  <2> QED BY <2>1 DEF Kite!MapKiteStatus
<1>6. \A v \in Kite!OpenOrders : v.id = o => v = Kite!View(o)
  BY <1>4 DEF Kite!OpenOrders
<1>7. Kite!Outstanding(book[o]) => Kite!View(o) \in Kite!OpenOrders
  BY <1>3, <1>5 DEF Kite!OpenOrders
<1> QED BY <1>2, <1>3, <1>6, <1>7, ReferenceAssumption

\* Whatever died, was cut or lost: every outstanding order of the book is
\* among the open orders of a running port, under a reference of its tag.
THEOREM OpenOrdersKnown == Spec => []OpenOrdersAreOurs
<1>1. Spec => []KiteInv
  BY KiteInit, KiteStep, PTL DEF Spec
<1>2. KiteInv => OpenOrdersAreOurs
  BY KiteListed DEF OpenOrdersAreOurs, Kite!OpenOrdersAreOurs
<1> QED BY <1>1, <1>2, PTL

-----------------------------------------------------------------------------
(* Starts.  A version is the configuration it was computed from, so the    *)
(* settings are a function of it; and the keys at the top come from        *)
(* ETF_PLATFORM_ENV and from variables alone, as long as no file the       *)
(* operator installs or edits has a top-level key of its own (none of the  *)
(* repository's has).                                                      *)

FilesLeaveTheTop ==
  \A f \in DOMAIN Installed :
    /\ "app" \notin DOMAIN Installed[f]
    /\ \A l \in Layers[f] : "app" \notin DOMAIN l

Running == {"configured", "notifying", "authenticated", "recovering", "up"}
ProcessFields == {"at", "runner", "asked", "environ", "config", "notifier"}

NamedAsAsked(p) ==
  \/ Start!VariablesOf(p.environ, "app") # {}
  \/ Start!SelectRunner(p.config.settings["app"].environment) = p.runner

StartInv ==
  /\ DOMAIN configFiles = DOMAIN Installed
  /\ \A f \in DOMAIN Installed : "app" \notin DOMAIN configFiles[f]
  /\ \A c \in issued : c.settings = Start!Build(c.version)
  /\ DOMAIN process = ProcessFields
  /\ process.at # "stopped" => NamedAsAsked(process)
  /\ process.at \in {"notifying", "authenticated", "recovering", "up"} /\ process.runner = "live"
       => process.notifier

LEMMA StartInit ==
  ASSUME FilesLeaveTheTop, Init
  PROVE  StartInv
<1>1. /\ configFiles = Installed /\ issued = {}
      /\ DOMAIN process = ProcessFields /\ process.at = "stopped"
  BY DEF Init, Start!Init, Start!Stopped, ProcessFields
<1> QED BY <1>1 DEF StartInv, FilesLeaveTheTop

\* load: with no variable for a key at the top, the configuration names the
\* environment it was asked for.
LEMMA EnvironmentNamed ==
  ASSUME StartInv, NEW env, NEW variables, Start!VariablesOf(variables, "app") = {}
  PROVE  Start!Load(env, variables).settings["app"].environment = env
<1> DEFINE below == Start!BeforeOverrides(env)
           resolved == Start!Resolved(env, variables)
           app == [k \in {"environment"} |-> env]
<1>1. "app" \notin DOMAIN Start!FromFiles(env)
  <2>1. "app" \notin DOMAIN configFiles["base"]
    BY ConfigAssumption DEF StartInv
  <2>2. "app" \notin DOMAIN Start!EnvFile(env)
    BY DEF StartInv, Start!EnvFile
  <2> QED BY <2>1, <2>2 DEF Start!FromFiles, Start!DeepMerge
<1>2. "app" \in DOMAIN below /\ below["app"] = app
  BY <1>1 DEF Start!BeforeOverrides, Start!Named, Start!Atop
<1>3. "app" \in DOMAIN resolved /\ resolved["app"] = app
  BY <1>2 DEF Start!Resolved, Start!ApplyEnvOverrides
<1>4. Start!Build(resolved)["app"] = Start!Atop(app, Defaults["app"])
  BY <1>3, ConfigAssumption DEF Start!Build
<1>5. Start!Atop(app, Defaults["app"])["environment"] = env
  BY DEF Start!Atop
<1>6. Start!Load(env, variables).settings = Start!Build(resolved)
  BY DEF Start!Load
<1> QED BY <1>4, <1>5, <1>6

LEMMA StartLaunch ==
  ASSUME StartInv, NEW env, Start!Launch(env)
  PROVE  StartInv'
<1> DEFINE config == Start!Load(env, exported)
<1>1. /\ process' = [at |-> "configured", runner |-> Start!SelectRunner(env), asked |-> env,
                     environ |-> exported, config |-> config, notifier |-> FALSE]
      /\ issued' = issued \cup {process'.config} /\ UNCHANGED configFiles
  BY DEF Start!Launch
<1>2. config.settings = Start!Build(config.version)
  BY DEF Start!Load, Start!Version
<1>3. Start!VariablesOf(exported, "app") = {} => config.settings["app"].environment = env
  BY EnvironmentNamed
<1> HIDE DEF config
<1>4. /\ DOMAIN process' = ProcessFields /\ process'.at = "configured"
      /\ process'.config = config /\ process'.environ = exported
      /\ process'.runner = Start!SelectRunner(env)
  BY <1>1 DEF ProcessFields
<1>5. NamedAsAsked(process')
  BY <1>3, <1>4 DEF NamedAsAsked
<1>6. \A c \in issued' : c.settings = Start!Build(c.version)
  BY <1>1, <1>2, <1>4 DEF StartInv
<1> QED BY <1>1, <1>4, <1>5, <1>6 DEF StartInv

\* The steps of a starting process move it on, or end it; what it was
\* launched with stays.
LEMMA StartProcess ==
  ASSUME StartInv,
         \/ Start!BuildNotifier \/ Start!Authenticate \/ Start!ReachBroker
         \/ Start!Recover \/ Start!Shutdown
  PROVE  StartInv'
<1>1. UNCHANGED <<configFiles, issued>>
  BY DEF Start!BuildNotifier, Start!Authenticate, Start!ReachBroker, Start!Recover, Start!Shutdown
<1>2. process.at \in Running /\ DOMAIN process = ProcessFields
  BY DEF StartInv, Running, Start!BuildNotifier, Start!Authenticate, Start!ReachBroker,
         Start!Recover, Start!Shutdown
<1>3. CASE process' = Start!Stopped
  <2>1. DOMAIN process' = ProcessFields /\ process'.at = "stopped"
    BY <1>3 DEF Start!Stopped, ProcessFields
  <2> QED BY <1>1, <2>1 DEF StartInv
<1>4. CASE Start!BuildNotifier /\ process' # Start!Stopped
  <2> DEFINE told == "telegram" \in Start!Stored
  <2>1. PICK at \in {"recovering", "notifying"} :
          /\ process' = [process EXCEPT !.notifier = told, !.at = at]
          /\ process.runner = "live" => told
    BY <1>4 DEF Start!BuildNotifier
  <2> HIDE DEF told
  <2>2. /\ DOMAIN process' = ProcessFields /\ process'.at = at /\ process'.notifier = told
        /\ process'.runner = process.runner /\ process'.environ = process.environ
        /\ process'.config = process.config
    BY <1>2, <2>1 DEF ProcessFields
  <2>3. NamedAsAsked(process')
    BY <1>2, <2>2 DEF StartInv, Running, NamedAsAsked
  <2> QED BY <1>1, <2>1, <2>2, <2>3 DEF StartInv
<1>5. CASE ~Start!BuildNotifier /\ process' # Start!Stopped
  <2>1. PICK at \in {"authenticated", "recovering", "up"} :
          process' = [process EXCEPT !.at = at]
    BY <1>5 DEF Start!Authenticate, Start!ReachBroker, Start!Recover, Start!Shutdown
  <2>2. process.at \in {"notifying", "authenticated", "recovering"}
    BY <1>5 DEF Start!Authenticate, Start!ReachBroker, Start!Recover, Start!Shutdown
  <2>3. /\ DOMAIN process' = ProcessFields /\ process'.at = at
        /\ process'.notifier = process.notifier
        /\ process'.runner = process.runner /\ process'.environ = process.environ
        /\ process'.config = process.config
    BY <1>2, <2>1 DEF ProcessFields
  <2>4. NamedAsAsked(process')
    BY <2>2, <2>3 DEF StartInv, NamedAsAsked
  <2> QED BY <1>1, <2>2, <2>3, <2>4 DEF StartInv
<1> QED BY <1>3, <1>4, <1>5

LEMMA StartStep == FilesLeaveTheTop /\ StartInv /\ [Next]_vars => StartInv'
<1> SUFFICES ASSUME FilesLeaveTheTop, StartInv, Start!Next \/ UNCHANGED startVars
             PROVE  StartInv'
  BY ServiceMoves
<1>1. CASE UNCHANGED startVars
  BY <1>1 DEF startVars, StartInv, NamedAsAsked
<1>2. ASSUME NEW force \in BOOLEAN, Start!GetConfig(force)
      PROVE  StartInv'
  <2> DEFINE config == Start!Load(process.asked, process.environ)
  <2>1. issued' = issued \cup {config} /\ UNCHANGED <<configFiles, process>>
    BY <1>2 DEF Start!GetConfig
  <2>2. config.settings = Start!Build(config.version)
    BY DEF Start!Load, Start!Version
  <2> HIDE DEF config
  <2>3. \A c \in issued' : c.settings = Start!Build(c.version)
    BY <2>1, <2>2 DEF StartInv
  <2> QED BY <2>1, <2>3 DEF StartInv
<1>3. CASE Start!Edit
  <2>1. UNCHANGED <<process, issued>>
    BY <1>3 DEF Start!Edit
  <2>2. \/ UNCHANGED configFiles
        \/ \E f \in DOMAIN configFiles : \E l \in Layers[f] :
             configFiles' = [configFiles EXCEPT ![f] = l]
    BY <1>3 DEF Start!Edit
  <2>3. /\ DOMAIN configFiles' = DOMAIN Installed
        /\ \A f \in DOMAIN Installed : "app" \notin DOMAIN configFiles'[f]
    BY <2>2 DEF StartInv, FilesLeaveTheTop
  <2> QED BY <2>1, <2>3 DEF StartInv
<1> QED BY <1>1, <1>2, <1>3, StartLaunch, StartProcess DEF Start!Next

\* A version names one configuration, over all edits and restarts; a runner
\* is the one of the environment its configuration names, unless a variable
\* renamed it; and the live runner is up only with a notifier.
THEOREM StartsReproducible ==
  ASSUME FilesLeaveTheTop
  PROVE  Spec => []StartsAreReproducible
<1>1. Init => StartInv
  BY StartInit
<1>2. StartInv /\ [Next]_vars => StartInv'
  BY StartStep
<1>3. StartInv => StartsAreReproducible
  BY DEF StartInv, NamedAsAsked, StartsAreReproducible, Start!StartsAreReproducible
<1> QED BY <1>1, <1>2, <1>3, PTL DEF Spec

-----------------------------------------------------------------------------
(* The ingestions and the research.                                        *)

\* A step is one of the ingestions or of the research, or leaves both alone.
LEMMA ResearchMove ==
  ASSUME [Next]_vars
  PROVE  ResearchNext \/ UNCHANGED researchVars
BY DEF Next, vars, ResearchMoves, AllocationMoves, ProviderMoves, NoticeMoves, ClaimsMoves,
       SecretsMoves, KiteMoves, FiguresMoves, ResolverMoves, BundleMoves, EngineMoves,
       StartMoves

-----------------------------------------------------------------------------
(* The quality gate.                                                       *)

Bar == [day : Days, quote : Quote]

DaysInOrder(bars) == \A j, k \in 1..Len(bars) : j <= k => bars[j].day <= bars[k].day

LEMMA SeriesInOrder ==
  ASSUME NEW rows \in [Days -> Seq(Quote)]
  PROVE  Series(rows) \in Seq(Bar) /\ DaysInOrder(Series(rows))
<1> DEFINE seqs == [d \in Days |-> [k \in DOMAIN rows[d] |-> [day |-> d, quote |-> rows[d][k]]]]
<1>1. LastDay \in Nat /\ Days = 1..LastDay /\ \A x \in Bar : x.day \in Nat
  <2>1. LastDay \in Nat
    BY CallsAssumption
  <2> QED BY <2>1 DEF Days, Bar
<1>2. \A d \in Days : /\ seqs[d] \in Seq(Bar)
                      /\ \A k \in 1..Len(seqs[d]) : seqs[d][k].day = d
  <2> SUFFICES ASSUME NEW d \in Days
               PROVE  seqs[d] \in Seq(Bar) /\ \A k \in 1..Len(seqs[d]) : seqs[d][k].day = d
    OBVIOUS
  <2>1. rows[d] \in Seq(Quote)
    OBVIOUS
  <2>2. DOMAIN rows[d] = 1..Len(rows[d]) /\ Len(rows[d]) \in Nat
    BY <2>1
  <2>3. seqs[d] = [k \in 1..Len(rows[d]) |-> [day |-> d, quote |-> rows[d][k]]]
    BY <2>2
  <2>4. \A k \in 1..Len(rows[d]) : [day |-> d, quote |-> rows[d][k]] \in Bar
    BY <2>1 DEF Bar
  <2> HIDE DEF seqs, Bar
  <2>5. seqs[d] \in Seq(Bar) /\ Len(seqs[d]) = Len(rows[d])
    BY <2>2, <2>3, <2>4
  <2> QED BY <2>3, <2>5, <2>2
<1>3. Len(seqs) = LastDay /\ DOMAIN seqs = 1..LastDay
  BY <1>1
<1>4. Series(rows) = FlattenSeq(seqs)
  BY DEF Series
<1> HIDE DEF seqs
<1>5. CASE LastDay # 0
  <2> HIDE DEF Bar
  <2>1. \A d \in 1..LastDay : seqs[d] \in Seq(Bar) /\ \A k \in 1..Len(seqs[d]) : seqs[d][k].day = d
    BY <1>1, <1>2
  <2>2. /\ FlattenSeq(seqs) \in Seq(Bar)
        /\ \A j, k \in 1..Len(FlattenSeq(seqs)) :
             j <= k => FlattenSeq(seqs)[j].day <= FlattenSeq(seqs)[k].day
    BY <1>1, <1>3, <1>5, <2>1, FlattenOrdered, Zenon
  <2> QED BY <1>4, <2>2 DEF DaysInOrder
<1>6. CASE LastDay = 0
  <2>1. Series(rows) = <<>>
    BY <1>3, <1>4, <1>6, <1>1 DEF FlattenSeq, seqs
  <2> QED BY <2>1 DEF DaysInOrder
<1> QED BY <1>5, <1>6, <1>1

LEMMA FetchedInOrder ==
  ASSUME NEW bars \in Fetched
  PROVE  bars \in Seq(Bar) /\ DaysInOrder(bars)
<1>2. {<<>>} \cup {<<p>> : p \in Quote} \subseteq Seq(Quote)
  <2>1. <<>> \in Seq(Quote)
    OBVIOUS
  <2>2. \A p \in Quote : <<p>> \in Seq(Quote)
    OBVIOUS
  <2> QED BY <2>1, <2>2, Zenon
<1>1. NseDay \subseteq Seq(Quote)
  <2>1. "even" \in Quote
    BY DEF Quote
  <2>2. <<"even", "even">> \in Seq(Quote)
    BY <2>1
  <2> QED BY <1>2, <2>2, Zenon DEF NseDay
<1>3. \E rows \in [Days -> Seq(Quote)] : bars = Series(rows)
  <2>1. CASE bars \in NseAnswers
    <3>1. PICK rows \in [Days -> NseDay] : bars = Series(rows)
      BY <2>1 DEF NseAnswers, Normal
    <3>2. rows \in [Days -> Seq(Quote)]
      BY <1>1
    <3> QED BY <3>1, <3>2
  <2>2. CASE bars \in KiteAnswers
    <3>1. PICK rows \in [Days -> {<<>>} \cup {<<p>> : p \in Quote}] : bars = Series(rows)
      BY <2>2 DEF KiteAnswers, Normal
    <3>2. rows \in [Days -> Seq(Quote)]
      BY <1>2
    <3> QED BY <3>1, <3>2
  <2> QED BY <2>1, <2>2 DEF Fetched
<1> QED BY <1>3, SeriesInOrder

\* What the checks let through, said by the checks, is fit for use.
LEMMA GateIsSound ==
  ASSUME NEW bars \in Seq(Bar), DaysInOrder(bars), ~HasCritical(bars)
  PROVE  SoundSeries(bars)
<1>1. /\ bars # <<>> /\ Len(bars) \in Nat /\ DOMAIN bars = 1..Len(bars)
      /\ \A k \in DOMAIN bars : bars[k] \in Bar /\ bars[k].quote # "broken"
      /\ \A j, k \in DOMAIN bars : j # k => bars[j].day # bars[k].day
      /\ \A k \in 2..Len(bars) : {bars[k - 1].quote, bars[k].quote} # {"even", "spike"}
  <2>1. /\ ~CheckNoData(bars) /\ ~CheckOhlc(bars) /\ ~CheckDuplicates(bars)
        /\ ~CheckPriceJump(bars, {})
    BY DEF HasCritical, CorporateActionDays
  <2>2. Len(bars) \in Nat /\ DOMAIN bars = 1..Len(bars) /\ \A k \in DOMAIN bars : bars[k] \in Bar
    <3> HIDE DEF Bar
    <3> QED OBVIOUS
  <2>3. /\ bars # <<>>
        /\ \A k \in DOMAIN bars : bars[k].quote # "broken"
        /\ \A j, k \in DOMAIN bars : j # k => bars[j].day # bars[k].day
    BY <2>1, Zenon DEF CheckNoData, CheckOhlc, CheckDuplicates
  <2>4. \A k \in 2..Len(bars) : {bars[k - 1].quote, bars[k].quote} # {"even", "spike"}
    BY <2>1 DEF CheckPriceJump
  <2> QED BY <2>2, <2>3, <2>4
<1>2. \A k \in 1..Len(bars) : bars[k].quote \in {"even", "spike"} /\ bars[k].day \in Nat
  <2>1. LastDay \in Nat
    BY CallsAssumption
  <2>2. \A x \in Bar : x.quote \in {"even", "spike", "broken"} /\ x.day \in Nat
    BY <2>1 DEF Bar, Quote, Days
  <2> HIDE DEF Bar
  <2> QED BY <1>1, <2>2
<1>3. \A j, k \in DOMAIN bars : j < k => bars[j].day < bars[k].day
  <2> SUFFICES ASSUME NEW j \in DOMAIN bars, NEW k \in DOMAIN bars, j < k
               PROVE  bars[j].day < bars[k].day
    OBVIOUS
  <2>1. bars[j].day <= bars[k].day /\ bars[j].day # bars[k].day
    BY <1>1 DEF DaysInOrder
  <2> QED BY <1>1, <1>2, <2>1
<1> DEFINE Level == {k \in Nat : k + 1 \in 1..Len(bars) => bars[k + 1].quote = bars[1].quote}
<1>4. Level = Nat
  <2>1. Level \subseteq Nat /\ 0 \in Level
    OBVIOUS
  <2>2. ASSUME NEW k \in Nat, k \in Level PROVE k + 1 \in Level
    <3> SUFFICES ASSUME (k + 1) + 1 \in 1..Len(bars)
                 PROVE  bars[(k + 1) + 1].quote = bars[1].quote
      OBVIOUS
    <3>1. k + 1 \in 1..Len(bars) /\ (k + 1) + 1 \in 2..Len(bars) /\ ((k + 1) + 1) - 1 = k + 1
      BY <1>1
    <3>2. {bars[k + 1].quote, bars[(k + 1) + 1].quote} # {"even", "spike"}
      BY <1>1, <3>1
    <3>3. /\ bars[k + 1].quote \in {"even", "spike"}
          /\ bars[(k + 1) + 1].quote \in {"even", "spike"}
      BY <1>2, <3>1
    <3>4. bars[k + 1].quote = bars[(k + 1) + 1].quote
      BY <3>2, <3>3
    <3> QED BY <2>2, <3>1, <3>4
  <2> HIDE DEF Level
  <2> QED BY <2>1, <2>2, NatInduct
<1>5. \A k \in 1..Len(bars) : bars[k].quote = bars[1].quote
  <2> SUFFICES ASSUME NEW k \in 1..Len(bars) PROVE bars[k].quote = bars[1].quote
    OBVIOUS
  <2>1. k - 1 \in Nat /\ (k - 1) + 1 = k
    BY <1>1
  <2> HIDE DEF Level
  <2>2. k - 1 \in Level
    BY <1>4, <2>1
  <2> USE DEF Level
  <2> QED BY <2>1, <2>2
<1> HIDE DEF Level
<1> QED BY <1>1, <1>3, <1>5 DEF SoundSeries

-----------------------------------------------------------------------------
(* The ingestions.  A run keeps what it has stored so far sound and counted *)
(* and is in the registry only once it has stored all it was asked for.    *)

Admitted(i, bars) == SoundSeries(bars) \/ runs[i].force = "reason"
StoredFit(i, s) == s \in DOMAIN files[i] /\ Admitted(i, files[i][s])
Lengths(i) == [k \in DOMAIN runs[i].asked |-> Len(GetOhlcv(i, runs[i].asked[k]))]

Fetching == {"fetch", "ohlcv", "actions"}

RunRow ==
  [asked : Seq(AskedSymbols), force : {"no", "no reason", "reason"}, pos : Nat \ {0},
   step : Fetching \cup {"register", "finish", "over"}, bars : Seq(Bar), rows : Nat,
   created : Nat, outcome : {"succeeded", "halted_critical", "failed"},
   status : {"running", "succeeded", "halted_critical", "failed"}]

SnapshotRow == [run : Nat, rows : Nat]

Catalogue == UNION {[symbols -> Seq(Bar)] : symbols \in SUBSET AskedSymbols}

IngestType ==
  /\ runs \in Seq(RunRow)
  /\ files \in Seq(Catalogue)
  /\ Len(files) = Len(runs)
  /\ snapshots \in Seq(SnapshotRow)
  /\ \A n \in DOMAIN snapshots : snapshots[n].run \in RunIds
  /\ \A i \in RunIds : IsInjective(runs[i].asked)

WrittenSoFar(i) ==
  /\ DOMAIN files[i] \subseteq ToSet(runs[i].asked)
  /\ runs[i].step \in Fetching \cup {"register"} =>
       /\ i \notin Registered
       /\ runs[i].outcome = "succeeded"
       /\ \A k \in 1..(runs[i].pos - 1) : StoredFit(i, runs[i].asked[k])
       /\ runs[i].rows = SumOver(Lengths(i), 1..(runs[i].pos - 1))
  /\ runs[i].step \in Fetching => runs[i].pos <= Len(runs[i].asked) /\ runs[i].created = 0
  /\ runs[i].step \in {"ohlcv", "actions"} => Admitted(i, runs[i].bars)
  /\ runs[i].step = "actions" => /\ Asking(i) \in DOMAIN files[i]
                                 /\ files[i][Asking(i)] = runs[i].bars
  /\ runs[i].step = "register" => /\ runs[i].pos = Len(runs[i].asked) + 1
                                  /\ runs[i].created > 0

ToldRight(i) ==
  /\ runs[i].step # "over" => runs[i].status = "running"
  /\ runs[i].step = "finish" /\ runs[i].outcome = "succeeded" => i \in Registered
  /\ runs[i].outcome = "halted_critical" =>
       i \notin Registered /\ runs[i].step \in {"finish", "over"}
  /\ runs[i].status = "succeeded" => i \in Registered
  /\ runs[i].status = "halted_critical" => i \notin Registered

CompleteSnapshot(n) ==
  LET i == snapshots[n].run IN
    /\ runs[i].step \in {"finish", "over"}
    /\ runs[i].created > 0
    /\ \A s \in ToSet(runs[i].asked) : StoredFit(i, s)
    /\ snapshots[n].rows = StoredRows(i)

(* The creation times of snapshots differ.                                 *)
Numbered ==
  /\ \A i \in RunIds : runs[i].created <= Created
  /\ \A i, j \in RunIds : runs[i].created > 0 /\ runs[i].created = runs[j].created => i = j

IngestInv ==
  /\ IngestType
  /\ \A i \in RunIds : WrittenSoFar(i) /\ ToldRight(i)
  /\ \A n \in DOMAIN snapshots : CompleteSnapshot(n)
  /\ Numbered

LEMMA IngestTypeFacts ==
  ASSUME IngestType
  PROVE  /\ Len(runs) \in Nat /\ RunIds = 1..Len(runs)
         /\ DOMAIN runs = RunIds /\ DOMAIN files = RunIds
         /\ \A i \in RunIds : runs[i] \in RunRow /\ files[i] \in Catalogue
         /\ Len(snapshots) \in Nat /\ DOMAIN snapshots = 1..Len(snapshots)
         /\ \A n \in DOMAIN snapshots : snapshots[n] \in SnapshotRow
<1> HIDE DEF RunRow, Catalogue, SnapshotRow
<1>1. runs \in Seq(RunRow) /\ files \in Seq(Catalogue) /\ Len(files) = Len(runs)
      /\ snapshots \in Seq(SnapshotRow)
  BY DEF IngestType
<1>2. /\ Len(runs) \in Nat /\ DOMAIN runs = 1..Len(runs) /\ DOMAIN files = 1..Len(runs)
      /\ \A i \in 1..Len(runs) : runs[i] \in RunRow /\ files[i] \in Catalogue
  BY <1>1
<1>3. Len(snapshots) \in Nat /\ DOMAIN snapshots = 1..Len(snapshots)
      /\ \A n \in DOMAIN snapshots : snapshots[n] \in SnapshotRow
  BY <1>1
<1> QED BY <1>2, <1>3 DEF RunIds

LEMMA RegisteredRuns ==
  ASSUME IngestInv
  PROVE  /\ Registered \subseteq RunIds
         /\ \A i \in Registered : \E n \in DOMAIN snapshots :
              snapshots[n].run = i /\ CompleteSnapshot(n)
         /\ \A i \in Registered : runs[i].step \in {"finish", "over"} /\ runs[i].created > 0
BY DEF IngestInv, IngestType, Registered, CompleteSnapshot

\* A run in nothing changed keeps its place.
LEMMA RunUntouched ==
  ASSUME IngestInv, NEW i \in RunIds, runs'[i] = runs[i], files'[i] = files[i],
         (i \in Registered)' <=> i \in Registered
  PROVE  WrittenSoFar(i)' /\ ToldRight(i)'
<1>1. WrittenSoFar(i) /\ ToldRight(i)
  BY DEF IngestInv
<1>2. Lengths(i)' = Lengths(i) /\ Asking(i)' = Asking(i)
  BY DEF Lengths, GetOhlcv, Asking
<1>3. WrittenSoFar(i)'
  BY <1>1, <1>2 DEF WrittenSoFar, StoredFit, Admitted
<1>4. ToldRight(i)'
  BY <1>1 DEF ToldRight
<1> QED BY <1>3, <1>4

\* The snapshot of a run whose row keeps its request and whose files stay is
\* still complete.
LEMMA SnapshotKept ==
  ASSUME NEW n, CompleteSnapshot(n), snapshots'[n] = snapshots[n], NEW i, i = snapshots[n].run,
         files'[i] = files[i], runs'[i].asked = runs[i].asked, runs'[i].force = runs[i].force,
         runs'[i].created = runs[i].created, runs'[i].step \in {"finish", "over"}
  PROVE  CompleteSnapshot(n)'
<1>1. StoredRows(i)' = StoredRows(i)
  BY DEF StoredRows, Total, GetOhlcv
<1> QED BY <1>1 DEF CompleteSnapshot, StoredFit, Admitted

\* One ingestion moves, its row and its files alone.
LEMMA OneRunMoves ==
  ASSUME IngestInv, NEW i \in RunIds,
         NEW r \in RunRow, runs' = [runs EXCEPT ![i] = r],
         r.asked = runs[i].asked, r.force = runs[i].force,
         NEW f \in Catalogue, files' = [files EXCEPT ![i] = f],
         snapshots' = snapshots, Numbered',
         i \in Registered => f = files[i] /\ r.created = runs[i].created
                             /\ r.step \in {"finish", "over"},
         WrittenSoFar(i)' /\ ToldRight(i)'
  PROVE  IngestInv'
<1>1. IngestType
  BY DEF IngestInv
<1> HIDE DEF RunRow, Catalogue
<1>2. /\ Len(runs) \in Nat /\ RunIds = 1..Len(runs)
      /\ runs \in Seq(RunRow) /\ files \in Seq(Catalogue) /\ Len(files) = Len(runs)
  BY <1>1, IngestTypeFacts DEF IngestType
<1>3. /\ runs' \in Seq(RunRow) /\ Len(runs') = Len(runs) /\ RunIds' = RunIds
      /\ runs'[i] = r /\ \A j \in RunIds : j # i => runs'[j] = runs[j]
  BY <1>2 DEF RunIds
<1>4. /\ files' \in Seq(Catalogue) /\ Len(files') = Len(files)
      /\ files'[i] = f /\ \A j \in RunIds : j # i => files'[j] = files[j]
  BY <1>2
<1>5. IngestType'
  BY <1>1, <1>3, <1>4 DEF IngestType
<1>6. Registered' = Registered
  BY DEF Registered
<1>7. ASSUME NEW j \in RunIds' PROVE WrittenSoFar(j)' /\ ToldRight(j)'
  <2>1. CASE j = i
    BY <2>1
  <2>2. CASE j # i
    BY <2>2, <1>3, <1>4, <1>6, RunUntouched
  <2> QED BY <2>1, <2>2
<1>8. ASSUME NEW n \in DOMAIN snapshots' PROVE CompleteSnapshot(n)'
  <2> DEFINE j == snapshots[n].run
  <2>1. CompleteSnapshot(n) /\ snapshots'[n] = snapshots[n] /\ j \in RunIds
    BY <1>1 DEF IngestInv, IngestType
  <2>2. j \in Registered
    BY DEF Registered
  <2>3. /\ files'[j] = files[j] /\ runs'[j].asked = runs[j].asked
        /\ runs'[j].force = runs[j].force /\ runs'[j].created = runs[j].created
        /\ runs'[j].step \in {"finish", "over"}
    BY <1>3, <1>4, <2>1, <2>2, RegisteredRuns
  <2> HIDE DEF j
  <2> QED BY <2>1, <2>3, SnapshotKept DEF j
<1> QED BY <1>5, <1>7, <1>8 DEF IngestInv

\* As long as no creation time changes.
LEMMA NumbersKept ==
  ASSUME IngestInv, RunIds' = RunIds,
         \A i \in RunIds : runs'[i].created = runs[i].created
  PROVE  Numbered'
<1>1. Created' = Created
  BY DEF Created
<1> QED BY <1>1 DEF IngestInv, Numbered

\* The row of one run as an action leaves it.
LEMMA OneRow ==
  ASSUME IngestInv, NEW i \in RunIds
  PROVE  /\ runs[i] \in RunRow /\ files[i] \in Catalogue
         /\ files = [files EXCEPT ![i] = files[i]]
         /\ WrittenSoFar(i) /\ ToldRight(i)
         /\ runs[i].asked \in Seq(AskedSymbols) /\ Len(runs[i].asked) \in Nat
         /\ DOMAIN runs[i].asked = 1..Len(runs[i].asked) /\ IsInjective(runs[i].asked)
         /\ ToSet(runs[i].asked) \subseteq AskedSymbols
<1>1. IngestType
  BY DEF IngestInv
<1>2. runs[i] \in RunRow /\ files[i] \in Catalogue /\ IsInjective(runs[i].asked)
  BY <1>1, IngestTypeFacts DEF IngestType
<1>3. files = [files EXCEPT ![i] = files[i]]
  <2> HIDE DEF Catalogue
  <2>1. files \in Seq(Catalogue)
    BY <1>1 DEF IngestType
  <2> QED BY <2>1
<1>4. runs[i].asked \in Seq(AskedSymbols)
  BY <1>2 DEF RunRow
<1>5. /\ Len(runs[i].asked) \in Nat /\ DOMAIN runs[i].asked = 1..Len(runs[i].asked)
      /\ ToSet(runs[i].asked) \subseteq AskedSymbols
  BY <1>4 DEF ToSet
<1> QED BY <1>2, <1>3, <1>4, <1>5 DEF IngestInv

LEMMA UnnumberedMove ==
  ASSUME IngestInv, NEW i \in RunIds,
         NEW r \in RunRow, runs' = [runs EXCEPT ![i] = r],
         r.asked = runs[i].asked, r.force = runs[i].force, r.created = runs[i].created,
         NEW f \in Catalogue, files' = [files EXCEPT ![i] = f],
         snapshots' = snapshots,
         i \in Registered => f = files[i] /\ r.step \in {"finish", "over"},
         WrittenSoFar(i)' /\ ToldRight(i)'
  PROVE  IngestInv'
<1>1. /\ Len(runs) \in Nat /\ RunIds = 1..Len(runs) /\ runs \in Seq(RunRow)
  BY IngestTypeFacts DEF IngestInv, IngestType
<1> HIDE DEF RunRow, Catalogue
<1>2. /\ Len(runs') = Len(runs) /\ RunIds' = RunIds
      /\ \A j \in RunIds : j # i => runs'[j] = runs[j]
      /\ runs'[i] = r
  BY <1>1 DEF RunIds
<1>3. Numbered'
  BY <1>2, NumbersKept
<1> QED BY <1>3, OneRunMoves

LEMMA RowChanged ==
  ASSUME IngestInv, NEW i \in RunIds, NEW r, runs' = [runs EXCEPT ![i] = r],
         NEW f, files' = [files EXCEPT ![i] = f], snapshots' = snapshots
  PROVE  runs'[i] = r /\ files'[i] = f /\ Registered' = Registered
BY IngestTypeFacts DEF IngestInv, Registered

LEMMA FetchAcceptedStep ==
  ASSUME IngestInv, NEW i \in RunIds, FetchAccepted(i)
  PROVE  IngestInv'
<1>1. PICK bars \in Fetched :
        /\ HasCritical(bars) => runs[i].force = "reason"
        /\ runs' = [runs EXCEPT ![i].step = "ohlcv", ![i].bars = bars]
  BY DEF FetchAccepted
<1> DEFINE r == [runs[i] EXCEPT !.step = "ohlcv", !.bars = bars]
<1>2. runs[i].step = "fetch" /\ files' = files /\ snapshots' = snapshots
  BY DEF FetchAccepted, At
<1>3. bars \in Seq(Bar) /\ Admitted(i, bars)
  BY <1>1, FetchedInOrder, GateIsSound DEF Admitted
<1>4. runs' = [runs EXCEPT ![i] = r]
  BY <1>1, IngestTypeFacts DEF IngestInv
<1>5. /\ r \in RunRow /\ r.asked = runs[i].asked /\ r.force = runs[i].force
      /\ r.created = runs[i].created /\ r.pos = runs[i].pos /\ r.rows = runs[i].rows
      /\ r.step = "ohlcv" /\ r.bars = bars /\ r.outcome = runs[i].outcome
      /\ r.status = runs[i].status
  <2>1. runs[i] \in RunRow
    BY OneRow
  <2>2. bars \in Seq(Bar)
    BY <1>3
  <2> QED BY <2>1, <2>2 DEF RunRow, Fetching
<1> HIDE DEF r
<1>6. runs'[i] = r /\ files'[i] = files[i] /\ Registered' = Registered
      /\ files' = [files EXCEPT ![i] = files[i]]
  BY <1>2, <1>4, OneRow, RowChanged
<1>7. WrittenSoFar(i) /\ ToldRight(i) /\ i \notin Registered
  BY OneRow, <1>2 DEF WrittenSoFar, Fetching
<1>8. Lengths(i)' = Lengths(i)
  BY <1>5, <1>6 DEF Lengths, GetOhlcv
<1>9. WrittenSoFar(i)'
  BY <1>2, <1>3, <1>5, <1>6, <1>7, <1>8 DEF WrittenSoFar, StoredFit, Admitted, Fetching
<1>10. ToldRight(i)'
  BY <1>2, <1>5, <1>6, <1>7 DEF ToldRight
<1> QED BY <1>2, <1>4, <1>5, <1>6, <1>7, <1>9, <1>10, OneRow, UnnumberedMove

\* An ingestion that gives up before it is registered.
LEMMA GivesUp ==
  ASSUME IngestInv, NEW i \in RunIds, runs[i].step \in Fetching \cup {"register"},
         NEW outcome \in {"halted_critical", "failed"}, GiveUp(i, outcome),
         NEW f \in Catalogue, DOMAIN f \subseteq ToSet(runs[i].asked),
         files' = [files EXCEPT ![i] = f], snapshots' = snapshots
  PROVE  IngestInv'
<1> DEFINE r == [runs[i] EXCEPT !.step = "finish", !.outcome = outcome, !.bars = <<>>]
<1>4. runs' = [runs EXCEPT ![i] = r]
  BY IngestTypeFacts DEF IngestInv, GiveUp
<1>5. /\ r \in RunRow /\ r.asked = runs[i].asked /\ r.force = runs[i].force
      /\ r.created = runs[i].created
      /\ r.step = "finish" /\ r.outcome = outcome /\ r.status = runs[i].status
  <2>1. runs[i] \in RunRow /\ <<>> \in Seq(Bar)
    BY OneRow
  <2> QED BY <2>1 DEF RunRow
<1> HIDE DEF r
<1>6. runs'[i] = r /\ files'[i] = f /\ Registered' = Registered
  BY <1>4, RowChanged
<1>7. i \notin Registered /\ runs[i].status = "running"
  BY OneRow DEF WrittenSoFar, ToldRight, Fetching
<1>9. WrittenSoFar(i)'
  BY <1>5, <1>6 DEF WrittenSoFar, Fetching
<1>10. ToldRight(i)'
  BY <1>5, <1>6, <1>7 DEF ToldRight
<1> QED BY <1>4, <1>5, <1>6, <1>7, <1>9, <1>10, UnnumberedMove

LEMMA FetchEnds ==
  ASSUME IngestInv, NEW i \in RunIds, FetchHalted(i) \/ FetchFailed(i) \/ WriteRaises(i)
  PROVE  IngestInv'
<1>1. /\ runs[i].step \in Fetching \cup {"register"}
      /\ files' = files /\ snapshots' = snapshots
      /\ \E outcome \in {"halted_critical", "failed"} : GiveUp(i, outcome)
  BY DEF FetchHalted, FetchFailed, WriteRaises, Fetching, At
<1>2. DOMAIN files[i] \subseteq ToSet(runs[i].asked)
  BY OneRow DEF WrittenSoFar
<1> QED BY <1>1, <1>2, OneRow, GivesUp

\* A series file written beside the others.
LEMMA SeriesFiled ==
  ASSUME IngestInv, NEW i \in RunIds, runs[i].step \in Fetching,
         NEW bars \in Seq(Bar), NEW f, f = Filed(i, bars)
  PROVE  /\ f \in Catalogue /\ DOMAIN f \subseteq ToSet(runs[i].asked)
         /\ Asking(i) \in DOMAIN f /\ f[Asking(i)] = bars
         /\ \A s \in DOMAIN files[i] : s \in DOMAIN f /\ (s # Asking(i) => f[s] = files[i][s])
         /\ \A s \in DOMAIN f : s # Asking(i) => s \in DOMAIN files[i]
<1>1. Asking(i) \in ToSet(runs[i].asked)
  <2>1. runs[i].pos \in Nat \ {0} /\ runs[i].pos <= Len(runs[i].asked)
    BY OneRow DEF WrittenSoFar, RunRow
  <2> QED BY <2>1, OneRow DEF Asking, ToSet
<1>2. PICK symbols \in SUBSET AskedSymbols : files[i] \in [symbols -> Seq(Bar)]
  BY OneRow DEF Catalogue
<1>3. f = [s \in DOMAIN files[i] \cup {Asking(i)} |->
             IF s = Asking(i) THEN bars ELSE files[i][s]]
  BY DEF Filed
<1>4. DOMAIN files[i] \subseteq ToSet(runs[i].asked) /\ ToSet(runs[i].asked) \subseteq AskedSymbols
  BY OneRow DEF WrittenSoFar
<1> HIDE DEF Bar
<1>5. f \in [DOMAIN files[i] \cup {Asking(i)} -> Seq(Bar)]
  BY <1>2, <1>3
<1>6. f \in Catalogue
  BY <1>1, <1>4, <1>5 DEF Catalogue
<1> QED BY <1>1, <1>3, <1>4, <1>6

LEMMA WriteOhlcvTornStep ==
  ASSUME IngestInv, NEW i \in RunIds, WriteOhlcvTorn(i)
  PROVE  IngestInv'
<1>1. PICK n \in 0..Len(runs[i].bars) :
        files' = [files EXCEPT ![i] = Filed(i, SubSeq(runs[i].bars, 1, n))]
  BY DEF WriteOhlcvTorn
<1>2. runs[i].step = "ohlcv" /\ GiveUp(i, "failed") /\ snapshots' = snapshots
  BY DEF WriteOhlcvTorn, At
<1> DEFINE written == SubSeq(runs[i].bars, 1, n)
           f == Filed(i, written)
<1>3. written \in Seq(Bar)
  <2>1. runs[i].bars \in Seq(Bar)
    BY OneRow DEF RunRow
  <2> HIDE DEF Bar
  <2> QED BY <2>1
<1>4. files' = [files EXCEPT ![i] = f]
  BY <1>1
<1> HIDE DEF written
<1>5. f \in Catalogue /\ DOMAIN f \subseteq ToSet(runs[i].asked)
  <2>1. runs[i].step \in Fetching
    BY <1>2 DEF Fetching
  <2> QED BY <1>3, <2>1, SeriesFiled, Zenon
<1> HIDE DEF f
<1> QED BY <1>2, <1>4, <1>5, GivesUp DEF Fetching

\* The series of a symbol, written.
LEMMA LengthsAreNaturals ==
  ASSUME IngestInv, NEW i \in RunIds
  PROVE  /\ DOMAIN Lengths(i) = 1..Len(runs[i].asked)
         /\ \A k \in 1..Len(runs[i].asked) : Lengths(i)[k] \in Nat
<1>1. PICK symbols \in SUBSET AskedSymbols : files[i] \in [symbols -> Seq(Bar)]
  BY OneRow DEF Catalogue
<1>2. \A s : Len(GetOhlcv(i, s)) \in Nat
  <2> HIDE DEF Bar
  <2> SUFFICES ASSUME NEW s PROVE GetOhlcv(i, s) \in Seq(Bar)
    OBVIOUS
  <2>1. <<>> \in Seq(Bar)
    OBVIOUS
  <2>2. s \in DOMAIN files[i] => files[i][s] \in Seq(Bar)
    BY <1>1
  <2> QED BY <2>1, <2>2 DEF GetOhlcv
<1> QED BY <1>2, OneRow DEF Lengths

LEMMA WriteOhlcvStep ==
  ASSUME IngestInv, NEW i \in RunIds, WriteOhlcv(i)
  PROVE  IngestInv'
<1> DEFINE r == [runs[i] EXCEPT !.step = "actions"]
           f == Filed(i, runs[i].bars)
<1>1. /\ runs[i].step = "ohlcv" /\ files' = [files EXCEPT ![i] = f] /\ snapshots' = snapshots
      /\ runs' = [runs EXCEPT ![i].step = "actions"]
  BY DEF WriteOhlcv, At, Goto
<1>2. runs' = [runs EXCEPT ![i] = r]
  BY <1>1, IngestTypeFacts DEF IngestInv
<1>3. /\ r \in RunRow /\ r.asked = runs[i].asked /\ r.force = runs[i].force
      /\ r.created = runs[i].created /\ r.pos = runs[i].pos /\ r.rows = runs[i].rows
      /\ r.step = "actions" /\ r.bars = runs[i].bars /\ r.outcome = runs[i].outcome
      /\ r.status = runs[i].status
  <2>1. runs[i] \in RunRow
    BY OneRow
  <2> QED BY <2>1 DEF RunRow, Fetching
<1> HIDE DEF r
<1>4. /\ f \in Catalogue /\ DOMAIN f \subseteq ToSet(runs[i].asked)
      /\ Asking(i) \in DOMAIN f /\ f[Asking(i)] = runs[i].bars
      /\ \A s \in DOMAIN files[i] : s \in DOMAIN f /\ (s # Asking(i) => f[s] = files[i][s])
      /\ \A s \in DOMAIN f : s # Asking(i) => s \in DOMAIN files[i]
  <2>1. runs[i].step \in Fetching /\ runs[i].bars \in Seq(Bar)
    BY <1>1, OneRow DEF Fetching, RunRow
  <2>2. f = Filed(i, runs[i].bars)
    OBVIOUS
  <2> HIDE DEF f
  <2> QED BY <2>1, <2>2, SeriesFiled
<1> HIDE DEF f
<1>5. runs'[i] = r /\ files'[i] = f /\ Registered' = Registered
  BY <1>1, <1>2, RowChanged
<1>6. WrittenSoFar(i) /\ ToldRight(i) /\ i \notin Registered
  BY OneRow, <1>1 DEF WrittenSoFar, Fetching
<1>7. runs[i].pos \in Nat \ {0} /\ runs[i].pos <= Len(runs[i].asked)
  BY <1>1, OneRow DEF WrittenSoFar, Fetching, RunRow
<1>8. \A k \in 1..(runs[i].pos - 1) : runs[i].asked[k] # Asking(i)
  BY <1>7, OneRow DEF Asking, IsInjective
<1>9. \A k \in 1..(runs[i].pos - 1) : StoredFit(i, runs[i].asked[k])'
  <2> SUFFICES ASSUME NEW k \in 1..(runs[i].pos - 1) PROVE StoredFit(i, runs[i].asked[k])'
    OBVIOUS
  <2>1. StoredFit(i, runs[i].asked[k])
    BY <1>1, <1>6 DEF WrittenSoFar, Fetching
  <2> QED BY <2>1, <1>3, <1>4, <1>5, <1>8 DEF StoredFit, Admitted
<1>10. SumOver(Lengths(i)', 1..(runs[i].pos - 1)) = SumOver(Lengths(i), 1..(runs[i].pos - 1))
  <2>1. \A k \in 1..(runs[i].pos - 1) : Lengths(i)'[k] = Lengths(i)[k] /\ Lengths(i)[k] \in Int
    <3> SUFFICES ASSUME NEW k \in 1..(runs[i].pos - 1)
                 PROVE  Lengths(i)'[k] = Lengths(i)[k] /\ Lengths(i)[k] \in Int
      OBVIOUS
    <3>1. k \in 1..Len(runs[i].asked)
      BY <1>7, OneRow
    <3>2. Lengths(i)[k] \in Int
      BY <3>1, LengthsAreNaturals
    <3>3. GetOhlcv(i, runs[i].asked[k])' = GetOhlcv(i, runs[i].asked[k])
      BY <1>4, <1>5, <1>8, <1>3 DEF GetOhlcv
    <3>4. Lengths(i)'[k] = Lengths(i)[k]
      BY <3>1, <3>3, <1>3, <1>5, OneRow DEF Lengths
    <3> QED BY <3>2, <3>4
  <2>2. IsFiniteSet(1..(runs[i].pos - 1))
    BY <1>7, FS_Interval
  <2> QED BY <2>1, <2>2, SumOverSame
<1>11. WrittenSoFar(i)'
  <2>1. Asking(i)' = Asking(i)
    BY <1>3, <1>5 DEF Asking
  <2> QED BY <1>1, <1>3, <1>4, <1>5, <1>6, <1>9, <1>10, <2>1
          DEF WrittenSoFar, Admitted, Fetching
<1>12. ToldRight(i)'
  BY <1>1, <1>3, <1>5, <1>6 DEF ToldRight
<1> QED BY <1>1, <1>2, <1>3, <1>4, <1>5, <1>6, <1>11, <1>12, UnnumberedMove

LEMMA FinishStep ==
  ASSUME IngestInv, NEW i \in RunIds, FinishRun(i) \/ FinishRaises(i)
  PROVE  IngestInv'
<1>1. PICK step \in {"finish", "over"}, outcome \in {runs[i].outcome, "failed"},
           status \in {runs[i].status, runs[i].outcome} :
        /\ runs' = [runs EXCEPT ![i].step = step, ![i].outcome = outcome, ![i].status = status]
        /\ outcome # "failed" => status = outcome /\ step = "over"
        /\ status # runs[i].status => status = outcome /\ step = "over"
  <2> DEFINE moved(step, outcome, status) ==
        [runs EXCEPT ![i].step = step, ![i].outcome = outcome, ![i].status = status]
  <2>1. CASE FinishRun(i)
    <3>1. runs' = moved("over", runs[i].outcome, runs[i].outcome)
      <4>1. runs' = [runs EXCEPT ![i].step = "over", ![i].status = runs[i].outcome]
        BY <2>1 DEF FinishRun
      <4>2. runs[i] \in RunRow /\ DOMAIN runs = RunIds
        BY OneRow, IngestTypeFacts DEF IngestInv
      <4> QED BY <4>1, <4>2 DEF RunRow
    <3> QED BY <3>1
  <2>2. CASE FinishRaises(i)
    <3> DEFINE step == IF runs[i].outcome = "succeeded" THEN "finish" ELSE "over"
    <3>1. runs' = moved(step, "failed", runs[i].status)
      <4>1. runs' = [runs EXCEPT ![i].outcome = "failed", ![i].step = step]
        BY <2>2 DEF FinishRaises
      <4>2. runs[i] \in RunRow /\ DOMAIN runs = RunIds
        BY OneRow, IngestTypeFacts DEF IngestInv
      <4> QED BY <4>1, <4>2 DEF RunRow
    <3> QED BY <3>1
  <2> QED BY <2>1, <2>2
<1> DEFINE r == [runs[i] EXCEPT !.step = step, !.outcome = outcome, !.status = status]
<1>2. runs[i].step = "finish" /\ files' = files /\ snapshots' = snapshots
  BY DEF FinishRun, FinishRaises, At
<1>3. runs' = [runs EXCEPT ![i] = r]
  BY <1>1, IngestTypeFacts DEF IngestInv
<1>4. /\ r \in RunRow /\ r.asked = runs[i].asked /\ r.force = runs[i].force
      /\ r.created = runs[i].created
      /\ r.step = step /\ r.outcome = outcome /\ r.status = status
  <2>1. runs[i] \in RunRow
    BY OneRow
  <2> QED BY <2>1, <1>1 DEF RunRow
<1> HIDE DEF r
<1>5. /\ runs'[i] = r /\ files'[i] = files[i] /\ Registered' = Registered
      /\ files' = [files EXCEPT ![i] = files[i]]
  BY <1>2, <1>3, OneRow, RowChanged
<1>6. WrittenSoFar(i) /\ ToldRight(i)
  BY OneRow
<1>7. WrittenSoFar(i)'
  BY <1>4, <1>5, <1>6 DEF WrittenSoFar, Fetching
<1>8. ToldRight(i)'
  BY <1>1, <1>2, <1>4, <1>5, <1>6 DEF ToldRight
<1> QED BY <1>2, <1>3, <1>4, <1>5, <1>7, <1>8, OneRow, UnnumberedMove

\* Stored is half of a symbol's turn: its corporate actions follow, and after
\* the last symbol's the registration.
LEMMA WriteActionsStep ==
  ASSUME IngestInv, NEW i \in RunIds, WriteActions(i)
  PROVE  IngestInv'
<1> DEFINE last == LastSymbol(i)
           rows == runs[i].rows + Len(runs[i].bars)
           number == IF last THEN Created + 1 ELSE 0
           step == IF last THEN "register" ELSE "fetch"
           r == [runs[i] EXCEPT !.pos = runs[i].pos + 1, !.rows = rows, !.bars = <<>>,
                                !.created = number, !.step = step]
<1>1. /\ runs[i].step = "actions" /\ files' = files /\ snapshots' = snapshots
      /\ runs' = [runs EXCEPT ![i].pos = @ + 1, ![i].rows = @ + Len(runs[i].bars),
                              ![i].bars = <<>>, ![i].created = number, ![i].step = step]
  BY DEF WriteActions, At
<1>2. /\ runs[i] \in RunRow /\ WrittenSoFar(i) /\ ToldRight(i) /\ i \notin Registered
      /\ runs[i].created = 0
  BY OneRow, <1>1 DEF WrittenSoFar, Fetching
<1>3. /\ runs[i].pos \in Nat \ {0} /\ runs[i].pos <= Len(runs[i].asked)
      /\ runs[i].bars \in Seq(Bar) /\ runs[i].rows \in Nat /\ Len(runs[i].bars) \in Nat
  <2>1. /\ runs[i].pos \in Nat \ {0} /\ runs[i].pos <= Len(runs[i].asked)
        /\ runs[i].bars \in Seq(Bar) /\ runs[i].rows \in Nat
    BY <1>1, <1>2 DEF WrittenSoFar, Fetching, RunRow
  <2> HIDE DEF Bar
  <2> QED BY <2>1
<1>4. /\ IsFiniteSet({j \in RunIds : runs[j].created > 0}) /\ Created \in Nat
      /\ \A j \in RunIds : runs[j].created \in Nat
  <2>1. IsFiniteSet(RunIds)
    BY IngestTypeFacts, FS_Interval DEF IngestInv
  <2>2. IsFiniteSet({j \in RunIds : runs[j].created > 0})
    BY <2>1, FS_Subset
  <2>3. \A j \in RunIds : runs[j].created \in Nat
    BY OneRow DEF RunRow
  <2> QED BY <2>2, <2>3, FS_CardinalityType DEF Created
<1>5. runs' = [runs EXCEPT ![i] = r]
  BY <1>1, IngestTypeFacts DEF IngestInv
<1>6. /\ r \in RunRow /\ r.asked = runs[i].asked /\ r.force = runs[i].force
      /\ r.created = number /\ r.pos = runs[i].pos + 1 /\ r.rows = rows
      /\ r.step = step /\ r.outcome = runs[i].outcome /\ r.status = runs[i].status
  <2>1. /\ number \in Nat /\ step \in {"fetch", "register"} /\ <<>> \in Seq(Bar)
        /\ rows \in Nat /\ runs[i].pos + 1 \in Nat \ {0}
    <3>1. number \in Nat
      BY <1>4
    <3>2. step \in {"fetch", "register"} /\ <<>> \in Seq(Bar)
      OBVIOUS
    <3>3. rows \in Nat
      BY <1>3
    <3>4. runs[i].pos + 1 \in Nat \ {0}
      BY <1>3
    <3> QED BY <3>1, <3>2, <3>3, <3>4
  <2> HIDE DEF number, step, rows
  <2> QED BY <2>1, <1>2 DEF RunRow, Fetching
<1> HIDE DEF r
<1>7. /\ runs'[i] = r /\ files'[i] = files[i] /\ Registered' = Registered
      /\ files' = [files EXCEPT ![i] = files[i]]
  <2>1. files = [files EXCEPT ![i] = files[i]]
    BY OneRow
  <2>2. files' = [files EXCEPT ![i] = files[i]] /\ snapshots' = snapshots
    BY <1>1, <2>1
  <2>3. runs'[i] = r /\ files'[i] = files[i] /\ Registered' = Registered
    BY <1>5, <2>2, RowChanged
  <2> QED BY <2>2, <2>3
<1>8. Lengths(i)' = Lengths(i)
  BY <1>6, <1>7 DEF Lengths, GetOhlcv
<1>9. rows = SumOver(Lengths(i), 1..runs[i].pos)
  <2> DEFINE k == runs[i].pos - 1
             before == SumOver(Lengths(i), 1..k)
             upto == SumOver(Lengths(i), 1..(k + 1))
  <2>1. k \in Nat /\ k + 1 = runs[i].pos
    BY <1>3
  <2>2. \A j \in 1..(k + 1) : Lengths(i)[j] \in Int
    BY <1>3, <2>1, LengthsAreNaturals
  <2>3. Lengths(i)[k + 1] = Len(runs[i].bars)
    <3>1. runs[i].asked[k + 1] = Asking(i)
      BY <2>1 DEF Asking
    <3>2. Asking(i) \in DOMAIN files[i] /\ files[i][Asking(i)] = runs[i].bars
      BY <1>1, <1>2 DEF WrittenSoFar
    <3>3. k + 1 \in DOMAIN runs[i].asked
      BY <1>3, <2>1, OneRow
    <3> HIDE DEF k
    <3> QED BY <3>1, <3>2, <3>3 DEF Lengths, GetOhlcv
  <2>4. runs[i].rows = before
    BY <1>1, <1>2 DEF WrittenSoFar, Fetching
  <2>5. upto = before + Lengths(i)[k + 1]
    <3> HIDE DEF k
    <3> QED BY <2>1, <2>2, SumUpTo
  <2>6. SumOver(Lengths(i), 1..runs[i].pos) = upto
    BY <2>1
  <2> HIDE DEF before, upto
  <2> QED BY <2>3, <2>4, <2>5, <2>6
<1> HIDE DEF rows
<1>10. \A k \in 1..runs[i].pos : StoredFit(i, runs[i].asked[k])
  <2> SUFFICES ASSUME NEW k \in 1..runs[i].pos PROVE StoredFit(i, runs[i].asked[k])
    OBVIOUS
  <2>1. CASE k = runs[i].pos
    BY <1>1, <1>2, <2>1 DEF WrittenSoFar, StoredFit, Asking
  <2>2. CASE k # runs[i].pos
    <3>1. k \in 1..(runs[i].pos - 1)
      BY <1>3, <2>2
    <3> QED BY <1>1, <1>2, <3>1 DEF WrittenSoFar, Fetching
  <2> QED BY <2>1, <2>2
<1>11. \A k \in 1..(r.pos - 1) : StoredFit(i, runs[i].asked[k])'
  <2>1. r.pos - 1 = runs[i].pos
    BY <1>3, <1>6
  <2> QED BY <2>1, <1>6, <1>7, <1>10 DEF StoredFit, Admitted
<1>12. r.rows = SumOver(Lengths(i), 1..(r.pos - 1))
  <2>1. r.pos - 1 = runs[i].pos
    BY <1>3, <1>6
  <2> QED BY <2>1, <1>6, <1>9
<1>13. /\ last => r.pos = Len(runs[i].asked) + 1 /\ r.created > 0
       /\ ~last => r.pos <= Len(runs[i].asked) /\ r.created = 0
  BY <1>3, <1>4, <1>6, OneRow DEF LastSymbol
<1>14. WrittenSoFar(i)'
  <2>1. /\ step = "register" => last
        /\ step = "fetch" => ~last
        /\ step \in {"fetch", "register"}
    OBVIOUS
  <2>2. /\ DOMAIN files[i] \subseteq ToSet(runs[i].asked) /\ runs[i].outcome = "succeeded"
    BY <1>1, <1>2 DEF WrittenSoFar, Fetching
  <2> HIDE DEF step, last
  <2> QED BY <1>2, <1>6, <1>7, <1>8, <1>11, <1>12, <1>13, <2>1, <2>2 DEF WrittenSoFar, Fetching
<1>15. ToldRight(i)'
  <2>1. step \in {"fetch", "register"}
    OBVIOUS
  <2>2. runs[i].outcome = "succeeded"
    BY <1>1, <1>2 DEF WrittenSoFar, Fetching
  <2> HIDE DEF step
  <2> QED BY <1>1, <1>2, <1>6, <1>7, <2>1, <2>2 DEF ToldRight
<1>16. Numbered'
  <2>1. RunIds' = RunIds /\ \A j \in RunIds : j # i => runs'[j] = runs[j]
    <3> HIDE DEF RunRow
    <3>1. runs \in Seq(RunRow)
      BY DEF IngestInv, IngestType
    <3> QED BY <1>5, <1>6, <3>1 DEF RunIds
  <2>2. Numbered
    BY DEF IngestInv
  <2>3. CASE ~last
    <3>1. \A j \in RunIds : runs'[j].created = runs[j].created
      BY <1>2, <1>6, <1>7, <2>1, <2>3
    <3> QED BY <2>1, <3>1, NumbersKept
  <2>4. CASE last
    <3> DEFINE numbered == {j \in RunIds : runs[j].created > 0}
    <3>1. number = Created + 1 /\ number > 0
      BY <2>4, <1>4
    <3> HIDE DEF number
    <3>2. {j \in RunIds : runs[j].created > 0}' = numbered \cup {i}
      BY <1>6, <1>7, <2>1, <3>1
    <3>3. i \notin numbered
      BY <1>2
    <3>4. Cardinality(numbered \cup {i}) = Cardinality(numbered) + 1
      BY <1>4, <3>3, FS_AddElement
    <3>5. Created' = Created + 1
      BY <3>2, <3>4 DEF Created
    <3>6. \A j \in RunIds : j # i => runs'[j].created = runs[j].created /\ runs[j].created <= Created
      BY <2>1, <2>2 DEF Numbered
    <3>7. runs'[i].created = Created + 1
      BY <1>6, <1>7, <3>1
    <3>8. \A j \in RunIds : runs'[j].created <= Created + 1
      BY <1>4, <3>6, <3>7
    <3>9. ASSUME NEW j \in RunIds, NEW k \in RunIds,
                 runs'[j].created > 0, runs'[j].created = runs'[k].created
          PROVE  j = k
      <4>1. CASE j = i \/ k = i
        BY <1>4, <3>6, <3>7, <3>9, <4>1
      <4>2. CASE j # i /\ k # i
        BY <2>2, <3>6, <3>9, <4>2 DEF Numbered
      <4> QED BY <4>1, <4>2
    <3> QED BY <2>1, <3>5, <3>8, <3>9 DEF Numbered
  <2> QED BY <2>3, <2>4
<1>17. snapshots' = snapshots /\ files[i] \in Catalogue
  BY <1>1, OneRow
<1>18. r \in RunRow /\ r.asked = runs[i].asked /\ r.force = runs[i].force
  BY <1>6
<1> QED BY <1>2, <1>5, <1>7, <1>14, <1>15, <1>16, <1>17, <1>18, OneRunMoves

LEMMA RegisterStep ==
  ASSUME IngestInv, NEW i \in RunIds, Register(i)
  PROVE  IngestInv'
<1> DEFINE r == [runs[i] EXCEPT !.step = "finish"]
           row == [run |-> i, rows |-> runs[i].rows]
<1>0. PICK new : new = Len(snapshots) + 1
  OBVIOUS
<1>1. /\ runs[i].step = "register" /\ files' = files /\ snapshots' = Append(snapshots, row)
      /\ runs' = [runs EXCEPT ![i].step = "finish"]
  BY DEF Register, At, Goto
<1>2. /\ runs[i] \in RunRow /\ WrittenSoFar(i) /\ ToldRight(i) /\ i \notin Registered
      /\ runs[i].outcome = "succeeded"
  BY OneRow, <1>1 DEF WrittenSoFar, Fetching
<1>3. runs' = [runs EXCEPT ![i] = r]
  BY <1>1, IngestTypeFacts DEF IngestInv
<1>4. /\ r \in RunRow /\ r.asked = runs[i].asked /\ r.force = runs[i].force
      /\ r.created = runs[i].created /\ r.step = "finish" /\ r.outcome = "succeeded"
      /\ r.status = runs[i].status
  BY <1>2 DEF RunRow
<1> HIDE DEF r
<1>5. /\ runs' \in Seq(RunRow) /\ Len(runs') = Len(runs) /\ RunIds' = RunIds /\ runs'[i] = r
      /\ \A j \in RunIds : j # i => runs'[j] = runs[j]
  <2> HIDE DEF RunRow
  <2>1. runs \in Seq(RunRow)
    BY DEF IngestInv, IngestType
  <2> QED BY <1>3, <1>4, <2>1 DEF RunIds
<1>6. row \in SnapshotRow /\ row.run = i /\ row.rows = runs[i].rows
  <2>1. runs[i].rows \in Nat /\ i \in Nat
    <3>1. runs[i].rows \in Nat
      BY <1>2 DEF RunRow
    <3>2. RunIds \subseteq Nat
      BY IngestTypeFacts DEF IngestInv
    <3> QED BY <3>1, <3>2
  <2> QED BY <2>1 DEF SnapshotRow
<1> HIDE DEF row
<1>7. /\ snapshots' \in Seq(SnapshotRow) /\ DOMAIN snapshots' = DOMAIN snapshots \cup {new}
      /\ snapshots'[new] = row /\ new \notin DOMAIN snapshots
      /\ \A n \in DOMAIN snapshots : snapshots'[n] = snapshots[n]
  <2> HIDE DEF SnapshotRow
  <2>1. snapshots \in Seq(SnapshotRow)
    BY DEF IngestInv, IngestType
  <2> QED BY <1>0, <1>1, <1>6, <2>1
<1>8. Registered' = Registered \cup {i}
  BY <1>6, <1>7 DEF Registered
<1>9. IngestType'
  <2>1. \A n \in DOMAIN snapshots' : snapshots'[n].run \in RunIds
    BY <1>6, <1>7 DEF IngestInv, IngestType
  <2>2. \A j \in RunIds : IsInjective(runs[j].asked) /\ runs'[j].asked = runs[j].asked
    BY <1>4, <1>5 DEF IngestInv, IngestType
  <2>3. files' \in Seq(Catalogue) /\ Len(files') = Len(runs')
    BY <1>1, <1>5 DEF IngestInv, IngestType
  <2> QED BY <2>1, <2>2, <2>3, <1>5, <1>7 DEF IngestType
<1>10. WrittenSoFar(i)' /\ ToldRight(i)'
  <2>1. WrittenSoFar(i)'
    BY <1>1, <1>2, <1>4, <1>5 DEF WrittenSoFar, Fetching
  <2>2. ToldRight(i)'
    BY <1>1, <1>2, <1>4, <1>5, <1>8 DEF ToldRight
  <2> QED BY <2>1, <2>2
<1>11. ASSUME NEW j \in RunIds' PROVE WrittenSoFar(j)' /\ ToldRight(j)'
  BY <1>1, <1>5, <1>8, <1>10, RunUntouched
<1>12. CompleteSnapshot(new)'
  <2>1. \A k \in 1..Len(runs[i].asked) : StoredFit(i, runs[i].asked[k])
    <3>1. runs[i].pos = Len(runs[i].asked) + 1
      BY <1>1, <1>2 DEF WrittenSoFar
    <3>2. runs[i].pos - 1 = Len(runs[i].asked)
      BY <3>1, OneRow
    <3> QED BY <1>1, <1>2, <3>2 DEF WrittenSoFar
  <2>2. \A s \in ToSet(runs[i].asked) : StoredFit(i, s)
    BY <2>1, OneRow DEF ToSet
  <2>3. \A s \in ToSet(runs[i].asked) : StoredFit(i, s)'
    BY <2>2, <1>1, <1>4, <1>5 DEF StoredFit, Admitted
  <2>4. runs[i].rows = StoredRows(i)
    <3>1. runs[i].pos = Len(runs[i].asked) + 1
      BY <1>1, <1>2 DEF WrittenSoFar
    <3>2. runs[i].pos - 1 = Len(runs[i].asked)
      BY <3>1, OneRow
    <3>3. runs[i].rows = SumOver(Lengths(i), 1..Len(runs[i].asked))
      BY <1>1, <1>2, <3>2 DEF WrittenSoFar
    <3>4. StoredRows(i) = SumOf(Lengths(i))
      BY DEF StoredRows, Total, Lengths
    <3> QED BY <3>3, <3>4, LengthsAreNaturals DEF SumOf
  <2>5. StoredRows(i)' = StoredRows(i)
    BY <1>1, <1>4, <1>5 DEF StoredRows, Total, GetOhlcv
  <2>6. runs[i].created > 0
    BY <1>1, <1>2 DEF WrittenSoFar
  <2>7. snapshots'[new].run = i /\ snapshots'[new].rows = StoredRows(i)'
    BY <1>6, <1>7, <2>4, <2>5
  <2>8. /\ runs'[i].step = "finish" /\ runs'[i].created > 0
        /\ \A s \in ToSet(runs'[i].asked) : StoredFit(i, s)'
    BY <1>4, <1>5, <2>3, <2>6
  <2> QED BY <2>7, <2>8 DEF CompleteSnapshot
<1>13. ASSUME NEW n \in DOMAIN snapshots PROVE CompleteSnapshot(n)'
  <2> DEFINE j == snapshots[n].run
  <2>1. CompleteSnapshot(n) /\ j \in RunIds /\ j \in Registered
    BY DEF IngestInv, IngestType, Registered
  <2>2. runs'[j] = runs[j] /\ runs[j].step \in {"finish", "over"}
    BY <1>2, <1>5, <2>1, RegisteredRuns
  <2> HIDE DEF j
  <2> QED BY <1>1, <1>7, <2>1, <2>2, SnapshotKept DEF j
<1>14. Numbered'
  BY <1>4, <1>5, NumbersKept
<1>15. \A n \in DOMAIN snapshots' : CompleteSnapshot(n)'
  BY <1>7, <1>12, <1>13
<1> QED BY <1>9, <1>11, <1>14, <1>15 DEF IngestInv

\* Runs start beside runs, and a process may die between any two steps.
LEMMA StartRunStep ==
  ASSUME IngestInv, NEW call \in Calls, StartRun(call)
  PROVE  IngestInv'
<1> DEFINE r == [asked |-> call.asked, force |-> call.force, pos |-> 1, step |-> "fetch",
                 bars |-> <<>>, rows |-> 0, created |-> 0,
                 outcome |-> "succeeded", status |-> "running"]
<1>0. PICK new : new = Len(runs) + 1
  OBVIOUS
<1>1. /\ runs' = Append(runs, r) /\ files' = Append(files, <<>>) /\ snapshots' = snapshots
  BY DEF StartRun
<1>2. /\ r \in RunRow /\ r.asked = call.asked /\ r.pos = 1 /\ r.step = "fetch" /\ r.rows = 0
      /\ r.created = 0 /\ r.outcome = "succeeded" /\ r.status = "running"
      /\ IsInjective(call.asked) /\ call.asked \in Seq(AskedSymbols) /\ call.asked # <<>>
  <2>1. /\ call.asked \in Seq(AskedSymbols) /\ call.asked # <<>>
        /\ call.force \in {"no", "no reason", "reason"} /\ IsInjective(call.asked)
    BY CallsAssumption
  <2>2. <<>> \in Seq(Bar)
    OBVIOUS
  <2>3. /\ r.asked = call.asked /\ r.pos = 1 /\ r.step = "fetch" /\ r.rows = 0
        /\ r.created = 0 /\ r.outcome = "succeeded" /\ r.status = "running"
    OBVIOUS
  <2> DEFINE asked == call.asked
             force == call.force
             fresh == <<>>
  <2>4. /\ asked \in Seq(AskedSymbols) /\ force \in {"no", "no reason", "reason"}
        /\ fresh \in Seq(Bar)
        /\ r = [asked |-> asked, force |-> force, pos |-> 1, step |-> "fetch",
                bars |-> fresh, rows |-> 0, created |-> 0,
                outcome |-> "succeeded", status |-> "running"]
    BY <2>1, <2>2
  <2> HIDE DEF asked, force, fresh, r
  <2>5. r \in RunRow
    <3>1. /\ 1 \in Nat \ {0} /\ 0 \in Nat
          /\ "fetch" \in Fetching \cup {"register", "finish", "over"}
          /\ "succeeded" \in {"succeeded", "halted_critical", "failed"}
          /\ "running" \in {"running", "succeeded", "halted_critical", "failed"}
      BY DEF Fetching
    <3> QED BY <2>4, <3>1, Zenon DEF RunRow
  <2> QED BY <2>1, <2>3, <2>5
<1> HIDE DEF r
<1>3. <<>> \in Catalogue /\ DOMAIN <<>> = {}
  <2>1. <<>> \in [{} -> Seq(Bar)] /\ {} \in SUBSET AskedSymbols
    OBVIOUS
  <2> QED BY <2>1 DEF Catalogue
<1>4. /\ runs' \in Seq(RunRow) /\ Len(runs') = new /\ runs'[new] = r
      /\ RunIds' = RunIds \cup {new} /\ new \notin RunIds
      /\ \A j \in RunIds : runs'[j] = runs[j]
  <2> HIDE DEF RunRow
  <2>1. runs \in Seq(RunRow)
    BY DEF IngestInv, IngestType
  <2> QED BY <1>0, <1>1, <1>2, <2>1 DEF RunIds
<1>5. /\ files' \in Seq(Catalogue) /\ Len(files') = new /\ files'[new] = <<>>
      /\ \A j \in RunIds : files'[j] = files[j]
  <2> HIDE DEF Catalogue
  <2>1. files \in Seq(Catalogue) /\ Len(files) = Len(runs)
    BY DEF IngestInv, IngestType
  <2> QED BY <1>0, <1>1, <1>3, <2>1 DEF RunIds
<1>6. Registered' = Registered /\ new \notin Registered
  BY <1>1, <1>4, RegisteredRuns DEF Registered
<1>7. IngestType'
  <2>1. snapshots' \in Seq(SnapshotRow) /\ \A n \in DOMAIN snapshots' : snapshots'[n].run \in RunIds'
    BY <1>1, <1>4 DEF IngestInv, IngestType
  <2>2. \A j \in RunIds' : IsInjective(runs'[j].asked)
    BY <1>2, <1>4 DEF IngestInv, IngestType
  <2> QED BY <1>4, <1>5, <2>1, <2>2 DEF IngestType
<1>8. WrittenSoFar(new)' /\ ToldRight(new)'
  <2>1. r.pos - 1 = 0 /\ 1..0 = {}
    BY <1>2
  <2>2. SumOver(Lengths(new)', 1..(r.pos - 1)) = 0
    BY <2>1, SumOverEmpty
  <2>3. r.pos <= Len(r.asked)
    BY <1>2
  <2>4. WrittenSoFar(new)'
    BY <1>2, <1>3, <1>4, <1>5, <1>6, <2>1, <2>2, <2>3 DEF WrittenSoFar, Fetching
  <2>5. ToldRight(new)'
    BY <1>2, <1>4 DEF ToldRight
  <2> QED BY <2>4, <2>5
<1>9. \A j \in RunIds : WrittenSoFar(j)' /\ ToldRight(j)'
  BY <1>4, <1>5, <1>6, RunUntouched
<1>10. ASSUME NEW n \in DOMAIN snapshots' PROVE CompleteSnapshot(n)'
  <2> DEFINE j == snapshots[n].run
  <2>1. CompleteSnapshot(n) /\ j \in RunIds /\ j \in Registered /\ snapshots'[n] = snapshots[n]
    BY <1>1 DEF IngestInv, IngestType, Registered
  <2>2. runs'[j] = runs[j] /\ files'[j] = files[j] /\ runs[j].step \in {"finish", "over"}
    BY <1>4, <1>5, <2>1, RegisteredRuns
  <2> HIDE DEF j
  <2> QED BY <2>1, <2>2, SnapshotKept DEF j
<1>11. Numbered'
  <2>1. {j \in RunIds : runs[j].created > 0}' = {j \in RunIds : runs[j].created > 0}
    BY <1>2, <1>4
  <2>2. Created' = Created /\ Numbered
    BY <2>1 DEF Created, IngestInv
  <2>3. Created >= 0
    <3>1. IsFiniteSet(RunIds)
      BY IngestTypeFacts, FS_Interval DEF IngestInv
    <3> QED BY <3>1, FS_Subset, FS_CardinalityType DEF Created
  <2> QED BY <1>2, <1>4, <2>2, <2>3 DEF Numbered
<1>12. \A j \in RunIds' : WrittenSoFar(j)' /\ ToldRight(j)'
  BY <1>4, <1>8, <1>9
<1> QED BY <1>7, <1>10, <1>11, <1>12 DEF IngestInv

LEMMA DieStep ==
  ASSUME IngestInv, Die
  PROVE  IngestInv'
<1>1. /\ runs' = [i \in RunIds |-> [runs[i] EXCEPT !.step = "over", !.bars = <<>>]]
      /\ files' = files /\ snapshots' = snapshots
  BY DEF Die
<1>2. \A i \in RunIds : /\ runs'[i] \in RunRow /\ runs'[i].step = "over"
                        /\ runs'[i].asked = runs[i].asked /\ runs'[i].force = runs[i].force
                        /\ runs'[i].created = runs[i].created
                        /\ runs'[i].outcome = runs[i].outcome
                        /\ runs'[i].status = runs[i].status
  <2> SUFFICES ASSUME NEW i \in RunIds
               PROVE  /\ runs'[i] \in RunRow /\ runs'[i].step = "over"
                      /\ runs'[i].asked = runs[i].asked /\ runs'[i].force = runs[i].force
                      /\ runs'[i].created = runs[i].created
                      /\ runs'[i].outcome = runs[i].outcome
                      /\ runs'[i].status = runs[i].status
    OBVIOUS
  <2>1. runs[i] \in RunRow /\ <<>> \in Seq(Bar)
    BY OneRow
  <2>2. runs'[i] = [runs[i] EXCEPT !.step = "over", !.bars = <<>>]
    BY <1>1
  <2> QED BY <2>1, <2>2 DEF RunRow
<1>3. runs' \in Seq(RunRow) /\ Len(runs') = Len(runs) /\ RunIds' = RunIds
  <2> HIDE DEF RunRow
  <2>1. Len(runs) \in Nat /\ RunIds = 1..Len(runs) /\ DOMAIN runs' = RunIds
    BY <1>1, IngestTypeFacts DEF IngestInv
  <2>2. runs' \in [1..Len(runs) -> RunRow]
    BY <1>1, <1>2, <2>1
  <2>3. runs' \in Seq(RunRow) /\ Len(runs') = Len(runs)
    BY <2>1, <2>2
  <2> QED BY <2>3 DEF RunIds
<1>4. Registered' = Registered
  BY <1>1 DEF Registered
<1>5. IngestType'
  <2>1. \A j \in RunIds : IsInjective(runs[j].asked)
    BY DEF IngestInv, IngestType
  <2> QED BY <1>1, <1>2, <1>3, <2>1 DEF IngestInv, IngestType
<1>6. ASSUME NEW i \in RunIds' PROVE WrittenSoFar(i)' /\ ToldRight(i)'
  <2>1. WrittenSoFar(i) /\ ToldRight(i) /\ i \in RunIds
    BY <1>3, OneRow
  <2>2. WrittenSoFar(i)'
    BY <1>1, <1>2, <2>1 DEF WrittenSoFar, Fetching
  <2>3. ToldRight(i)'
    BY <1>1, <1>2, <1>4, <2>1 DEF ToldRight
  <2> QED BY <2>2, <2>3
<1>7. ASSUME NEW n \in DOMAIN snapshots' PROVE CompleteSnapshot(n)'
  <2> DEFINE j == snapshots[n].run
  <2>1. CompleteSnapshot(n) /\ j \in RunIds /\ snapshots'[n] = snapshots[n]
    BY <1>1 DEF IngestInv, IngestType
  <2>2. /\ files'[j] = files[j] /\ runs'[j].asked = runs[j].asked
        /\ runs'[j].force = runs[j].force /\ runs'[j].created = runs[j].created
        /\ runs'[j].step \in {"finish", "over"}
    BY <1>1, <1>2, <2>1
  <2> HIDE DEF j
  <2> QED BY <2>1, <2>2, SnapshotKept DEF j
<1>8. Numbered'
  BY <1>2, <1>3, NumbersKept
<1> QED BY <1>5, <1>6, <1>7, <1>8 DEF IngestInv

LEMMA IngestInitial == IngestInit => IngestInv
<1> SUFFICES ASSUME IngestInit PROVE IngestInv
  OBVIOUS
<1>1. runs = <<>> /\ files = <<>> /\ snapshots = <<>>
  BY DEF IngestInit
<1>2. RunIds = {} /\ DOMAIN snapshots = {}
  BY <1>1 DEF RunIds
<1>3. IngestType
  <2> HIDE DEF RunRow, Catalogue, SnapshotRow
  <2> QED BY <1>1, <1>2 DEF IngestType
<1> QED BY <1>2, <1>3 DEF IngestInv, Numbered

LEMMA IngestMoves == IngestInv /\ IngestNext => IngestInv'
<1> SUFFICES ASSUME IngestInv, IngestNext PROVE IngestInv'
  OBVIOUS
<1>1. ASSUME NEW call \in Calls, StartRun(call) PROVE IngestInv'
  BY <1>1, StartRunStep
<1>2. ASSUME NEW i \in RunIds, IngestStep(i) PROVE IngestInv'
  BY <1>2, FetchAcceptedStep, FetchEnds, WriteOhlcvStep, WriteOhlcvTornStep, WriteActionsStep,
     RegisterStep, FinishStep DEF IngestStep
<1>3. CASE Die
  BY <1>3, DieStep
<1> QED BY <1>1, <1>2, <1>3 DEF IngestNext

LEMMA IngestStill == IngestInv /\ UNCHANGED ingestVars => IngestInv'
<1> SUFFICES ASSUME IngestInv, UNCHANGED ingestVars PROVE IngestInv'
  OBVIOUS
<1>1. runs' = runs /\ files' = files /\ snapshots' = snapshots
  BY DEF ingestVars
<1>2. RunIds' = RunIds /\ Registered' = Registered
  BY <1>1 DEF RunIds, Registered
<1>3. IngestType' /\ Numbered'
  BY <1>1, <1>2, NumbersKept DEF IngestInv, IngestType
<1>4. \A i \in RunIds : WrittenSoFar(i)' /\ ToldRight(i)'
  BY <1>1, <1>2, RunUntouched
<1>5. ASSUME NEW n \in DOMAIN snapshots' PROVE CompleteSnapshot(n)'
  <2> DEFINE j == snapshots[n].run
  <2>1. CompleteSnapshot(n) /\ j \in RunIds /\ runs[j].step \in {"finish", "over"}
    BY <1>1 DEF IngestInv, IngestType, CompleteSnapshot
  <2> HIDE DEF j
  <2> QED BY <1>1, <2>1, SnapshotKept DEF j
<1> QED BY <1>2, <1>3, <1>4, <1>5 DEF IngestInv

LEMMA IngestInvariant == Spec => []IngestInv
<1>1. Init => IngestInv
  BY IngestInitial DEF Init, ResearchInit
<1>2. IngestInv /\ [Next]_vars => IngestInv'
  <2> SUFFICES ASSUME IngestInv, [Next]_vars PROVE IngestInv'
    OBVIOUS
  <2>1. IngestNext \/ UNCHANGED ingestVars
    BY ResearchMove DEF ResearchNext, researchVars, ScreenUniverse, ScoreUniverse, TestHoldings, Reading
  <2> QED BY <2>1, IngestMoves, IngestStill
<1> QED BY <1>1, <1>2, PTL DEF Spec

\* However ingestions overlap, halt, fail or die between two writes, a snapshot
\* readers can be given holds a series of every symbol asked for, let through by
\* the gate or forced with a reason, and the rows it was registered with; and the
\* audit row tells whether the run's snapshot can be read.
THEOREM ServedData == Spec => []ServedDataIsSound
<1>1. IngestInv => ServedDataIsSound
  <2> SUFFICES ASSUME IngestInv PROVE ServedDataIsSound
    OBVIOUS
  <2>1. ASSUME NEW n \in DOMAIN snapshots
        PROVE  LET i == snapshots[n].run IN
                 /\ \A s \in ToSet(runs[i].asked) :
                      /\ s \in DOMAIN files[i]
                      /\ SoundSeries(files[i][s]) \/ runs[i].force = "reason"
                 /\ snapshots[n].rows = StoredRows(i)
    BY DEF IngestInv, CompleteSnapshot, StoredFit, Admitted
  <2>2. ASSUME NEW i \in RunIds
        PROVE  /\ runs[i].status = "succeeded" => i \in Registered
               /\ runs[i].status = "halted_critical" => i \notin Registered
    BY DEF IngestInv, ToldRight
  <2> QED BY <2>1, <2>2 DEF ServedDataIsSound
<1> QED BY <1>1, IngestInvariant, PTL

-----------------------------------------------------------------------------
(* The research.  What a registered snapshot holds no longer changes, so   *)
(* what was true of a snapshot when it was read is still true of it.       *)

Passing(i, s) == s \in Universe /\ Screen(s, GetOhlcv(i, s)) = "pass"
EnoughCommon(i, s, t) ==
  Cardinality(CommonDays(GetOhlcv(i, s), GetOhlcv(i, t))) > MinObservations
ReadsMade == [idle |-> 0, screened |-> 1, scored |-> 2, done |-> 3]

\* One evidenced replacement.
Evidenced(h, candidate) ==
  /\ h \in report.passed /\ candidate \in report.passed
  /\ AssetClass(h) = AssetClass(candidate) /\ AssetClass(h) # Unknown
  /\ EnoughCommon(report.reads[3], h, candidate)
  /\ report.reads[1] # report.reads[3] => Len(snapshots) > report.begun

ReportRow ==
  [step : {"idle", "screened", "scored", "done"}, reads : Seq(Nat), passed : SUBSET Universe,
   ranking : Seq(Universe), replacements : SUBSET (Universe \X Universe),
   insufficient : SUBSET Holdings, begun : Nat]

ResearchInv ==
  /\ report \in ReportRow
  /\ Len(report.reads) = ReadsMade[report.step]
  /\ \A k \in 1..Len(report.reads) : report.reads[k] \in Registered
  /\ report.begun <= Len(snapshots)
  /\ report.step # "idle" =>
       /\ \A s \in report.passed : Passing(report.reads[1], s)
       /\ report.begun = Len(snapshots) => report.reads[1] = LatestSnapshot
  /\ report.step \in {"idle", "screened"} => report.ranking = <<>>
  /\ ToSet(report.ranking) \subseteq report.passed
  /\ report.replacements # {} => report.step = "done"
  /\ \A pair \in report.replacements : Evidenced(pair[1], pair[2])

\* The snapshot served is the one registered run created last.
LEMMA LatestIs ==
  ASSUME IngestInv, Registered # {}
  PROVE  /\ LatestSnapshot \in Registered
         /\ \A j \in Registered : runs[j].created <= runs[LatestSnapshot].created
<1>1. /\ \A i \in RunIds : runs[i].created \in Nat /\ runs[i].created <= Created
      /\ Created \in Nat
  <2>1. IsFiniteSet(RunIds)
    BY IngestTypeFacts, FS_Interval DEF IngestInv
  <2>2. Created \in Nat
    BY <2>1, FS_Subset, FS_CardinalityType DEF Created
  <2>3. \A i \in RunIds : runs[i].created \in Nat
    BY OneRow DEF RunRow
  <2> QED BY <2>2, <2>3 DEF IngestInv, Numbered
<1> DEFINE numbers == {runs[i].created : i \in Registered}
<1>2. numbers \subseteq 0..Created /\ numbers # {}
  BY <1>1, RegisteredRuns
<1>3. Max(numbers) \in numbers /\ \A y \in numbers : Max(numbers) >= y
  BY <1>1, <1>2, LargestOf
<1>4. PICK i \in Registered : runs[i].created = Max(numbers)
  BY <1>3
<1>5. \A j \in Registered : runs[j].created <= runs[i].created
  <2> SUFFICES ASSUME NEW j \in Registered PROVE runs[j].created <= runs[i].created
    OBVIOUS
  <2>1. runs[j].created \in numbers
    OBVIOUS
  <2>2. runs[j].created \in Nat /\ runs[i].created \in Nat
    BY <1>1, RegisteredRuns
  <2> HIDE DEF numbers
  <2> QED BY <1>3, <1>4, <2>1, <2>2
<1> QED BY <1>5, Zenon DEF LatestSnapshot

\* What an ingestion leaves of registered snapshots.
LEMMA RegisteredStay ==
  ASSUME IngestInv, IngestNext
  PROVE  /\ Len(snapshots) \in Nat /\ Len(snapshots') \in Nat
         /\ Len(snapshots) <= Len(snapshots')
         /\ Len(snapshots') = Len(snapshots) => snapshots' = snapshots
         /\ Registered \subseteq Registered'
         /\ \A i \in Registered : files'[i] = files[i] /\ runs'[i].created = runs[i].created
                                  /\ runs'[i].force = runs[i].force
<1> DEFINE Kept(i) == files'[i] = files[i] /\ runs'[i].created = runs[i].created
                      /\ runs'[i].force = runs[i].force
<1>1. /\ snapshots \in Seq(SnapshotRow) /\ Len(snapshots) \in Nat
      /\ Registered \subseteq RunIds /\ DOMAIN runs = RunIds /\ DOMAIN files = RunIds
      /\ \A i \in Registered : runs[i].step \in {"finish", "over"}
      /\ \A i \in RunIds : runs[i] \in RunRow
  BY IngestTypeFacts, RegisteredRuns DEF IngestInv, IngestType
<1>2. ASSUME NEW call \in Calls, StartRun(call)
      PROVE  snapshots' = snapshots /\ \A i \in Registered : Kept(i)
  <2>1. /\ runs \in Seq(RunRow) /\ files \in Seq(Catalogue) /\ Len(files) = Len(runs)
    BY DEF IngestInv, IngestType
  <2>2. PICK r : runs' = Append(runs, r) /\ files' = Append(files, <<>>) /\ snapshots' = snapshots
    BY <1>2 DEF StartRun
  <2> HIDE DEF RunRow, Catalogue
  <2>3. \A i \in RunIds : runs'[i] = runs[i] /\ files'[i] = files[i]
    BY <2>1, <2>2 DEF RunIds
  <2> QED BY <1>1, <2>2, <2>3
<1>3. ASSUME NEW i \in RunIds, IngestStep(i)
      PROVE  /\ \A j \in Registered : Kept(j)
             /\ \/ snapshots' = snapshots
                \/ \E row \in SnapshotRow : snapshots' = Append(snapshots, row)
  <2>1. CASE FetchAccepted(i) \/ FetchHalted(i) \/ FetchFailed(i) \/ FinishRun(i) \/ FinishRaises(i)
    <3>1. files' = files /\ snapshots' = snapshots
      BY <2>1 DEF FetchAccepted, FetchHalted, FetchFailed, FinishRun, FinishRaises
    <3>2. \A j \in RunIds : j # i => runs'[j] = runs[j]
      BY <2>1, <1>1 DEF FetchAccepted, FetchHalted, FetchFailed, FinishRun, FinishRaises, GiveUp
    <3>3. runs'[i].created = runs[i].created /\ runs'[i].force = runs[i].force
      <4>1. runs[i] \in RunRow /\ i \in DOMAIN runs
        BY <1>1
      <4>2. CASE FetchAccepted(i)
        <5>1. PICK bars : runs' = [runs EXCEPT ![i].step = "ohlcv", ![i].bars = bars]
          BY <4>2, Zenon DEF FetchAccepted
        <5>2. runs'[i] = [runs[i] EXCEPT !.step = "ohlcv", !.bars = bars]
          BY <4>1, <5>1
        <5> QED BY <4>1, <5>2 DEF RunRow
      <4>3. CASE FetchHalted(i) \/ FetchFailed(i)
        <5>1. PICK outcome : GiveUp(i, outcome)
          <6>1. CASE FetchHalted(i)
            BY <6>1 DEF FetchHalted
          <6>2. CASE FetchFailed(i)
            BY <6>2 DEF FetchFailed
          <6> QED BY <4>3, <6>1, <6>2
        <5>2. runs'[i] = [runs[i] EXCEPT !.step = "finish", !.outcome = outcome, !.bars = <<>>]
          BY <4>1, <5>1 DEF GiveUp
        <5> QED BY <4>1, <5>2 DEF RunRow
      <4>4. CASE FinishRun(i)
        BY <4>1, <4>4 DEF FinishRun, RunRow
      <4>5. CASE FinishRaises(i)
        BY <4>1, <4>5 DEF FinishRaises, RunRow
      <4> QED BY <2>1, <4>2, <4>3, <4>4, <4>5
    <3> QED BY <1>1, <3>1, <3>2, <3>3
  <2>2. CASE WriteOhlcv(i) \/ WriteOhlcvTorn(i) \/ WriteActions(i) \/ WriteRaises(i) \/ Register(i)
    <3>1. i \notin Registered
      BY <2>2, <1>1 DEF WriteOhlcv, WriteOhlcvTorn, WriteActions, WriteRaises, Register, At
    <3>2. \A j \in RunIds : j # i => runs'[j] = runs[j]
      BY <2>2, <1>1 DEF WriteOhlcv, WriteOhlcvTorn, WriteActions, WriteRaises, Register, Goto, GiveUp
    <3>3. \A j \in RunIds : j # i => files'[j] = files[j]
      BY <2>2, <1>1 DEF WriteOhlcv, WriteOhlcvTorn, WriteActions, WriteRaises, Register
    <3>4. \A j \in Registered : Kept(j)
      BY <1>1, <3>1, <3>2, <3>3
    <3>5. CASE Register(i)
      <4>1. snapshots' = Append(snapshots, [run |-> i, rows |-> runs[i].rows])
        BY <3>5 DEF Register
      <4>2. [run |-> i, rows |-> runs[i].rows] \in SnapshotRow
        <5>1. runs[i].rows \in Nat
          BY <1>1 DEF RunRow
        <5>2. RunIds \subseteq Nat
          BY IngestTypeFacts DEF IngestInv
        <5> QED BY <5>1, <5>2 DEF SnapshotRow
      <4> QED BY <3>4, <4>1, <4>2
    <3>6. CASE ~Register(i)
      BY <2>2, <3>4, <3>6 DEF WriteOhlcv, WriteOhlcvTorn, WriteActions, WriteRaises
    <3> QED BY <3>5, <3>6
  <2> QED BY <1>3, <2>1, <2>2 DEF IngestStep
<1>4. ASSUME Die PROVE snapshots' = snapshots /\ \A i \in Registered : Kept(i)
  <2>1. \A i \in RunIds : runs'[i] = [runs[i] EXCEPT !.step = "over", !.bars = <<>>]
    BY <1>4 DEF Die
  <2>2. \A i \in RunIds : runs'[i].created = runs[i].created /\ runs'[i].force = runs[i].force
    <3> SUFFICES ASSUME NEW i \in RunIds
                 PROVE  runs'[i].created = runs[i].created /\ runs'[i].force = runs[i].force
      OBVIOUS
    <3>1. runs[i] \in RunRow /\ runs'[i] = [runs[i] EXCEPT !.step = "over", !.bars = <<>>]
      BY <1>1, <2>1
    <3> QED BY <3>1 DEF RunRow
  <2> QED BY <1>1, <1>4, <2>2 DEF Die
<1>5. /\ \A j \in Registered : Kept(j)
      /\ \/ snapshots' = snapshots
         \/ \E row \in SnapshotRow : snapshots' = Append(snapshots, row)
  BY <1>2, <1>3, <1>4 DEF IngestNext
<1>6. CASE snapshots' = snapshots
  BY <1>1, <1>5, <1>6 DEF Registered
<1>7. CASE \E row \in SnapshotRow : snapshots' = Append(snapshots, row)
  <2>1. PICK row \in SnapshotRow : snapshots' = Append(snapshots, row)
    BY <1>7
  <2> HIDE DEF SnapshotRow
  <2>2. /\ Len(snapshots') = Len(snapshots) + 1 /\ DOMAIN snapshots \subseteq DOMAIN snapshots'
        /\ \A n \in DOMAIN snapshots : snapshots'[n] = snapshots[n]
    BY <1>1, <2>1
  <2>3. Registered \subseteq Registered'
    BY <2>2 DEF Registered
  <2> QED BY <1>1, <1>5, <2>2, <2>3
<1> QED BY <1>5, <1>6, <1>7

LEMMA LatestStays ==
  ASSUME IngestInv, IngestInv', snapshots' = snapshots, Registered # {},
         \A i \in Registered : runs'[i].created = runs[i].created
  PROVE  LatestSnapshot' = LatestSnapshot
<1> DEFINE i == LatestSnapshot
           j == LatestSnapshot'
<1>1. Registered' = Registered
  BY DEF Registered
<1>2. i \in Registered /\ \A k \in Registered : runs[k].created <= runs[i].created
  BY LatestIs
<1>3. j \in Registered /\ \A k \in Registered : runs[k].created <= runs[j].created
  <2>1. \E k \in Registered : \A l \in Registered : runs'[l].created <= runs'[k].created
    BY <1>2
  <2>2. j = CHOOSE k \in Registered : \A l \in Registered : runs'[l].created <= runs'[k].created
    BY <1>1 DEF LatestSnapshot
  <2> HIDE DEF j
  <2> QED BY <2>1, <2>2
<1> HIDE DEF i, j
<1>4. /\ runs[i].created \in Nat /\ runs[j].created \in Nat /\ i \in RunIds /\ j \in RunIds
      /\ runs[i].created > 0
  BY <1>2, <1>3, RegisteredRuns, OneRow DEF RunRow
<1>5. runs[i].created = runs[j].created
  BY <1>2, <1>3, <1>4
<1>6. i = j
  BY <1>4, <1>5 DEF IngestInv, Numbered
<1> QED BY <1>6 DEF i, j

LEMMA ResearchFacts ==
  ASSUME ResearchInv
  PROVE  /\ report.step \in {"idle", "screened", "scored", "done"}
         /\ report.reads \in Seq(Nat) /\ Len(report.reads) = ReadsMade[report.step]
         /\ report.passed \subseteq Universe /\ report.ranking \in Seq(Universe)
         /\ report.replacements \subseteq Universe \X Universe
         /\ report.begun \in Nat
BY DEF ResearchInv, ReportRow

\* A pass of the screening and a common history hold what is stored.
LEMMA EvidenceStored ==
  ASSUME NEW i, NEW s
  PROVE  /\ Passing(i, s) => /\ Len(GetOhlcv(i, s)) >= MinHistory
                             /\ Aum(s) # Unknown /\ Aum(s) >= MinAum
         /\ Len(GetOhlcv(i, s)) >= MinHistory => s \in DOMAIN files[i]
         /\ \A t : EnoughCommon(i, s, t) => s \in DOMAIN files[i] /\ t \in DOMAIN files[i]
<1>1. Unknown \notin {"pass", "fail"} /\ MinHistory \in Nat \ {0} /\ MinObservations \in Nat
  BY ResearchAssumption
<1>2. ASSUME Passing(i, s)
      PROVE  Len(GetOhlcv(i, s)) >= MinHistory /\ Aum(s) # Unknown /\ Aum(s) >= MinAum
  <2> DEFINE history == CheckHistory(GetOhlcv(i, s))
             assets == CheckMinimum(Aum(s), MinAum)
  <2>1. OverallStatus({history, assets}) = "pass"
    BY <1>2 DEF Passing, Screen
  <2>2. "fail" \notin {history, assets} /\ Unknown \notin {history, assets}
    <3> HIDE DEF history, assets
    <3> QED BY <1>1, <2>1 DEF OverallStatus
  <2>3. history # "fail" /\ assets # "fail" /\ assets # Unknown
    BY <2>2
  <2> QED BY <2>3 DEF CheckHistory, CheckMinimum
<1>3. ASSUME s \notin DOMAIN files[i] PROVE ~(Len(GetOhlcv(i, s)) >= MinHistory)
  BY <1>1, <1>3 DEF GetOhlcv
<1>4. ASSUME NEW t, EnoughCommon(i, s, t)
      PROVE  s \in DOMAIN files[i] /\ t \in DOMAIN files[i]
  <2>1. Cardinality(CommonDays(GetOhlcv(i, s), GetOhlcv(i, t))) # 0
    BY <1>1, <1>4 DEF EnoughCommon
  <2>2. CommonDays(GetOhlcv(i, s), GetOhlcv(i, t)) # {}
    BY <2>1, FS_EmptySet
  <2>3. GetOhlcv(i, s) # <<>> /\ GetOhlcv(i, t) # <<>>
    <3>1. DOMAIN <<>> = {}
      OBVIOUS
    <3> QED BY <2>2, <3>1 DEF CommonDays
  <2> QED BY <2>3 DEF GetOhlcv
<1> QED BY <1>2, <1>3, <1>4

LEMMA ResearchInitial == ResearchInit => ResearchInv
<1> SUFFICES ASSUME ResearchInit PROVE ResearchInv
  OBVIOUS
<1>1. /\ report.step = "idle" /\ report.reads = <<>> /\ report.passed = {} /\ report.ranking = <<>>
      /\ report.replacements = {} /\ report.begun = 0 /\ snapshots = <<>>
  BY DEF ResearchInit, IngestInit, NoReport
<1>2. report \in ReportRow
  <2>1. <<>> \in Seq(Nat) /\ <<>> \in Seq(Universe)
    OBVIOUS
  <2> QED BY <2>1 DEF ResearchInit, NoReport, ReportRow
<1>3. ToSet(<<>>) = {}
  BY DEF ToSet
<1> QED BY <1>1, <1>2, <1>3 DEF ResearchInv, ReadsMade

\* An ingestion takes nothing from the report.
LEMMA ReportStays ==
  ASSUME IngestInv, IngestInv', ResearchInv, IngestNext \/ UNCHANGED ingestVars, report' = report
  PROVE  ResearchInv'
<1>1. /\ Len(snapshots) \in Nat /\ Len(snapshots') \in Nat
      /\ Len(snapshots) <= Len(snapshots')
      /\ Len(snapshots') = Len(snapshots) => snapshots' = snapshots
      /\ Registered \subseteq Registered'
      /\ \A i \in Registered : files'[i] = files[i] /\ runs'[i].created = runs[i].created
  <2>1. CASE IngestNext
    BY <2>1, RegisteredStay
  <2>2. CASE UNCHANGED ingestVars
    BY <2>2, IngestTypeFacts DEF ingestVars, Registered, IngestInv
  <2> QED BY <2>1, <2>2
<1>2. /\ report.begun \in Nat /\ report.begun <= Len(snapshots)
      /\ Len(report.reads) = ReadsMade[report.step]
      /\ \A k \in 1..Len(report.reads) : report.reads[k] \in Registered
  BY ResearchFacts DEF ResearchInv
<1>3. ASSUME report.step # "idle"
      PROVE  /\ \A s \in report.passed : Passing(report.reads[1], s)'
             /\ report.begun = Len(snapshots') => report.reads[1] = LatestSnapshot'
  <2>1. report.reads[1] \in Registered
    BY <1>2, <1>3, ResearchFacts DEF ReadsMade
  <2>2. files'[report.reads[1]] = files[report.reads[1]]
    BY <1>1, <2>1
  <2>3. \A s \in report.passed : Passing(report.reads[1], s)'
    BY <1>3, <2>2 DEF ResearchInv, Passing, GetOhlcv
  <2>4. ASSUME report.begun = Len(snapshots') PROVE report.reads[1] = LatestSnapshot'
    <3>1. Len(snapshots') = Len(snapshots) /\ report.begun = Len(snapshots)
      BY <1>1, <1>2, <2>4
    <3>2. LatestSnapshot' = LatestSnapshot
      BY <1>1, <2>1, <3>1, LatestStays
    <3> QED BY <1>3, <3>1, <3>2 DEF ResearchInv
  <2> QED BY <2>3, <2>4
<1>4. ASSUME NEW pair \in report.replacements
      PROVE  Evidenced(pair[1], pair[2])'
  <2>1. Evidenced(pair[1], pair[2]) /\ report.step = "done"
    BY DEF ResearchInv
  <2>2. report.reads[3] \in Registered
    BY <1>2, <2>1 DEF ReadsMade
  <2>3. files'[report.reads[3]] = files[report.reads[3]]
    BY <1>1, <2>2
  <2>4. EnoughCommon(report.reads[3], pair[1], pair[2])' = EnoughCommon(report.reads[3], pair[1], pair[2])
    BY <2>3 DEF EnoughCommon, GetOhlcv
  <2>5. Len(snapshots) > report.begun => Len(snapshots') > report.begun
    BY <1>1, <1>2
  <2> QED BY <2>1, <2>4, <2>5 DEF Evidenced
<1>5. \A k \in 1..Len(report.reads) : report.reads[k] \in Registered'
  BY <1>1, <1>2
<1>6. report.begun <= Len(snapshots')
  BY <1>1, <1>2
<1> QED BY <1>3, <1>4, <1>5, <1>6 DEF ResearchInv

\* What reading adds to the report.
LEMMA ReadingIs ==
  ASSUME IngestInv, ResearchInv, NEW step \in {"idle", "screened", "scored"}, Reading(step),
         NEW next \in {"screened", "scored", "done"}, ReadsMade[next] = ReadsMade[step] + 1
  PROVE  /\ LatestSnapshot \in Registered
         /\ runs' = runs /\ files' = files /\ snapshots' = snapshots
         /\ Registered' = Registered /\ LatestSnapshot' = LatestSnapshot
         /\ Read(next) \in ReportRow /\ Read(next).step = next
         /\ Read(next).reads \in Seq(Nat) /\ Len(Read(next).reads) = ReadsMade[next]
         /\ \A k \in 1..Len(report.reads) : Read(next).reads[k] = report.reads[k]
         /\ Read(next).reads[ReadsMade[next]] = LatestSnapshot
         /\ \A k \in 1..Len(Read(next).reads) : Read(next).reads[k] \in Registered
         /\ Read(next).passed = report.passed /\ Read(next).ranking = report.ranking
         /\ Read(next).begun = report.begun /\ Read(next).replacements = report.replacements
<1>1. Registered # {} /\ UNCHANGED ingestVars /\ report.step = step
  BY DEF Reading, LatestSnapshot
<1>2. LatestSnapshot \in Registered /\ LatestSnapshot \in Nat
  BY <1>1, LatestIs, RegisteredRuns, IngestTypeFacts DEF IngestInv
<1>3. /\ runs' = runs /\ files' = files /\ snapshots' = snapshots
      /\ Registered' = Registered /\ LatestSnapshot' = LatestSnapshot
  BY <1>1 DEF ingestVars, Registered, LatestSnapshot
<1> DEFINE made == Append(report.reads, LatestSnapshot)
<1>4. /\ made \in Seq(Nat) /\ Len(made) = Len(report.reads) + 1 /\ Len(report.reads) \in Nat
      /\ \A k \in 1..Len(report.reads) : made[k] = report.reads[k]
      /\ made[Len(report.reads) + 1] = LatestSnapshot
  <2>1. report.reads \in Seq(Nat)
    BY ResearchFacts
  <2> QED BY <1>2, <2>1
<1>5. Read(next) = [report EXCEPT !.step = next, !.reads = made]
  BY DEF Read
<1> HIDE DEF made
<1>6. /\ Read(next) \in ReportRow /\ Read(next).step = next /\ Read(next).reads = made
      /\ Read(next).passed = report.passed /\ Read(next).ranking = report.ranking
      /\ Read(next).begun = report.begun /\ Read(next).replacements = report.replacements
  <2>1. report \in ReportRow
    BY DEF ResearchInv
  <2> QED BY <1>4, <1>5, <2>1 DEF ReportRow
<1>7. ReadsMade[next] = Len(report.reads) + 1 /\ Len(made) = ReadsMade[next]
  BY <1>1, <1>4, ResearchFacts
<1>8. \A k \in 1..Len(made) : made[k] \in Registered
  <2> SUFFICES ASSUME NEW k \in 1..Len(made) PROVE made[k] \in Registered
    OBVIOUS
  <2>1. CASE k = Len(report.reads) + 1
    BY <1>2, <1>4, <2>1
  <2>2. CASE k # Len(report.reads) + 1
    <3>1. k \in 1..Len(report.reads) /\ made[k] = report.reads[k]
      BY <1>4, <2>2
    <3> QED BY <3>1 DEF ResearchInv
  <2> QED BY <2>1, <2>2
<1> QED BY <1>2, <1>3, <1>4, <1>6, <1>7, <1>8

\* The three readings of the snapshot that is the latest.
LEMMA FirstReading ==
  ASSUME IngestInv, ResearchInv, Reading("idle")
  PROVE  /\ LatestSnapshot \in Registered
         /\ runs' = runs /\ files' = files /\ snapshots' = snapshots
         /\ Registered' = Registered /\ LatestSnapshot' = LatestSnapshot
         /\ Read("screened") \in ReportRow /\ Read("screened").step = "screened"
         /\ Len(Read("screened").reads) = 1
         /\ \A k \in 1..Len(report.reads) : Read("screened").reads[k] = report.reads[k]
         /\ Read("screened").reads[1] = LatestSnapshot
         /\ \A k \in 1..Len(Read("screened").reads) : Read("screened").reads[k] \in Registered
         /\ Read("screened").passed = report.passed /\ Read("screened").ranking = report.ranking
         /\ Read("screened").begun = report.begun /\ Read("screened").replacements = report.replacements
<1>1. ReadsMade["screened"] = 1 /\ ReadsMade["screened"] = ReadsMade["idle"] + 1
  BY DEF ReadsMade
<1>2. "idle" \in {"idle", "screened", "scored"} /\ "screened" \in {"screened", "scored", "done"}
  OBVIOUS
<1> HIDE DEF ReadsMade
<1> QED BY <1>1, <1>2, ReadingIs, Zenon

LEMMA SecondReading ==
  ASSUME IngestInv, ResearchInv, Reading("screened")
  PROVE  /\ LatestSnapshot \in Registered
         /\ runs' = runs /\ files' = files /\ snapshots' = snapshots
         /\ Registered' = Registered /\ LatestSnapshot' = LatestSnapshot
         /\ Read("scored") \in ReportRow /\ Read("scored").step = "scored"
         /\ Len(Read("scored").reads) = 2
         /\ \A k \in 1..Len(report.reads) : Read("scored").reads[k] = report.reads[k]
         /\ Read("scored").reads[2] = LatestSnapshot
         /\ \A k \in 1..Len(Read("scored").reads) : Read("scored").reads[k] \in Registered
         /\ Read("scored").passed = report.passed /\ Read("scored").ranking = report.ranking
         /\ Read("scored").begun = report.begun /\ Read("scored").replacements = report.replacements
<1>1. ReadsMade["scored"] = 2 /\ ReadsMade["scored"] = ReadsMade["screened"] + 1
  BY DEF ReadsMade
<1>2. "screened" \in {"idle", "screened", "scored"} /\ "scored" \in {"screened", "scored", "done"}
  OBVIOUS
<1> HIDE DEF ReadsMade
<1> QED BY <1>1, <1>2, ReadingIs, Zenon

LEMMA LastReading ==
  ASSUME IngestInv, ResearchInv, Reading("scored")
  PROVE  /\ LatestSnapshot \in Registered
         /\ runs' = runs /\ files' = files /\ snapshots' = snapshots
         /\ Registered' = Registered /\ LatestSnapshot' = LatestSnapshot
         /\ Read("done") \in ReportRow /\ Read("done").step = "done"
         /\ Len(Read("done").reads) = 3
         /\ \A k \in 1..Len(report.reads) : Read("done").reads[k] = report.reads[k]
         /\ Read("done").reads[3] = LatestSnapshot
         /\ \A k \in 1..Len(Read("done").reads) : Read("done").reads[k] \in Registered
         /\ Read("done").passed = report.passed /\ Read("done").ranking = report.ranking
         /\ Read("done").begun = report.begun /\ Read("done").replacements = report.replacements
<1>1. ReadsMade["done"] = 3 /\ ReadsMade["done"] = ReadsMade["scored"] + 1
  BY DEF ReadsMade
<1>2. "scored" \in {"idle", "screened", "scored"} /\ "done" \in {"screened", "scored", "done"}
  OBVIOUS
<1> HIDE DEF ReadsMade
<1> QED BY <1>1, <1>2, ReadingIs, Zenon

LEMMA ScreenUniverseStep ==
  ASSUME IngestInv, ResearchInv, ScreenUniverse
  PROVE  ResearchInv'
<1> DEFINE row == Read("screened")
           passed == {s \in Universe : Screen(s, GetOhlcv(LatestSnapshot, s)) = "pass"}
<1>1. Reading("idle") /\ report' = [row EXCEPT !.begun = Len(snapshots), !.passed = passed]
  BY DEF ScreenUniverse
<1>2. ReadsMade["screened"] = 1 /\ ReadsMade["idle"] = 0
  BY DEF ReadsMade
<1>3. /\ LatestSnapshot \in Registered
      /\ runs' = runs /\ files' = files /\ snapshots' = snapshots
      /\ Registered' = Registered /\ LatestSnapshot' = LatestSnapshot
      /\ row \in ReportRow /\ row.step = "screened" /\ Len(row.reads) = 1
      /\ row.reads[1] = LatestSnapshot
      /\ \A k \in 1..Len(row.reads) : row.reads[k] \in Registered
      /\ row.ranking = report.ranking /\ row.replacements = report.replacements
  BY <1>1, FirstReading, Zenon
<1>4. report.step = "idle" /\ report.ranking = <<>> /\ report.replacements = {}
  BY <1>1 DEF Reading, ResearchInv
<1> HIDE DEF row
<1>5. Len(snapshots) \in Nat
  BY IngestTypeFacts DEF IngestInv
<1>6. passed \subseteq Universe /\ \A s \in passed : Passing(LatestSnapshot, s)
  BY DEF Passing
<1> HIDE DEF passed
<1>7. /\ report' \in ReportRow /\ report'.step = "screened" /\ report'.reads = row.reads
      /\ report'.passed = passed /\ report'.ranking = <<>> /\ report'.replacements = {}
      /\ report'.begun = Len(snapshots)
  BY <1>1, <1>3, <1>4, <1>5, <1>6 DEF ReportRow
<1>8. ToSet(<<>>) = {}
  BY DEF ToSet
<1>9. (\A s \in report.passed : Passing(report.reads[1], s))'
  BY <1>3, <1>6, <1>7 DEF Passing, GetOhlcv
<1>10. report'.begun = Len(snapshots') => report'.reads[1] = LatestSnapshot'
  BY <1>3, <1>7
<1>11. /\ \A k \in 1..Len(report'.reads) : report'.reads[k] \in Registered'
       /\ Len(report'.reads) = ReadsMade[report'.step] /\ report'.begun <= Len(snapshots')
       /\ ToSet(report'.ranking) \subseteq report'.passed
  <2>1. Len(report'.reads) = 1 /\ ReadsMade[report'.step] = 1
    BY <1>2, <1>3, <1>7
  <2>2. \A k \in 1..Len(report'.reads) : report'.reads[k] \in Registered'
    BY <1>3, <1>7
  <2>3. report'.begun <= Len(snapshots')
    BY <1>3, <1>5, <1>7
  <2>4. ToSet(report'.ranking) \subseteq report'.passed
    BY <1>7, <1>8
  <2> QED BY <2>1, <2>2, <2>3, <2>4
<1>12. \A pair \in report'.replacements : Evidenced(pair[1], pair[2])'
  BY <1>7
<1> QED BY <1>7, <1>9, <1>10, <1>11, <1>12 DEF ResearchInv

LEMMA ScoreUniverseStep ==
  ASSUME IngestInv, ResearchInv, ScoreUniverse
  PROVE  ResearchInv'
<1> DEFINE row == Read("scored")
<1>1. PICK ranking \in Rankings(report.passed) : report' = [row EXCEPT !.ranking = ranking]
  BY DEF ScoreUniverse
<1>2. Reading("screened") /\ ReadsMade["scored"] = 2 /\ ReadsMade["screened"] = 1
  BY DEF ReadsMade, ScoreUniverse
<1>3. /\ runs' = runs /\ files' = files /\ snapshots' = snapshots
      /\ Registered' = Registered /\ LatestSnapshot' = LatestSnapshot
      /\ row \in ReportRow /\ row.step = "scored" /\ Len(row.reads) = 2
      /\ \A k \in 1..Len(report.reads) : row.reads[k] = report.reads[k]
      /\ \A k \in 1..Len(row.reads) : row.reads[k] \in Registered
      /\ row.passed = report.passed /\ row.begun = report.begun
      /\ row.replacements = report.replacements
  BY <1>2, SecondReading, Zenon
<1>4. report.step = "screened" /\ report.replacements = {}
  BY <1>2 DEF Reading, ResearchInv
<1> HIDE DEF row
<1>5. row.reads[1] = report.reads[1]
  BY <1>2, <1>3, <1>4 DEF ResearchInv
<1>6. ranking \in Seq(Universe) /\ ToSet(ranking) \subseteq report.passed
  <2>1. report.passed \subseteq Universe
    BY ResearchFacts
  <2>2. Cardinality(report.passed) \in Nat
    BY <2>1, ResearchAssumption, FS_Subset, FS_CardinalityType
  <2>3. ranking \in [1..Cardinality(report.passed) -> report.passed]
    BY DEF Rankings, SetToSeqs
  <2>4. ranking \in Seq(report.passed) /\ ranking \in Seq(Universe)
    BY <2>1, <2>2, <2>3
  <2> QED BY <2>3, <2>4 DEF ToSet
<1>7. /\ report' \in ReportRow /\ report'.step = "scored" /\ report'.reads = row.reads
      /\ report'.passed = report.passed /\ report'.ranking = ranking /\ report'.replacements = {}
      /\ report'.begun = report.begun
  BY <1>1, <1>3, <1>4, <1>6 DEF ReportRow
<1>8. (\A s \in report.passed : Passing(report.reads[1], s))'
  BY <1>3, <1>4, <1>5, <1>7 DEF Passing, GetOhlcv, ResearchInv
<1>9. report'.begun = Len(snapshots') => report'.reads[1] = LatestSnapshot'
  BY <1>3, <1>4, <1>5, <1>7 DEF ResearchInv
<1>10. report'.begun <= Len(snapshots')
  BY <1>3, <1>7 DEF ResearchInv
<1> QED BY <1>2, <1>3, <1>6, <1>7, <1>8, <1>9, <1>10 DEF ResearchInv

\* Of the peers that outrank an incumbent there is a best.
LEMMA BestPeerIs ==
  ASSUME ResearchInv, NEW h, Peers(h) # {}
  PROVE  BestPeer(h) \in Peers(h)
<1>1. report.ranking \in Seq(Universe)
  BY ResearchFacts
<1>2. \A s \in ToSet(report.ranking) : RankOf(s) \in Nat
  <2> SUFFICES ASSUME NEW s \in ToSet(report.ranking) PROVE RankOf(s) \in Nat
    OBVIOUS
  <2>1. \E k \in DOMAIN report.ranking : report.ranking[k] = s
    BY DEF ToSet
  <2>2. RankOf(s) \in DOMAIN report.ranking
    BY <2>1 DEF RankOf
  <2> QED BY <1>1, <2>2
<1> DEFINE ranks == {RankOf(s) : s \in Peers(h)}
<1>3. ranks \subseteq Nat /\ ranks # {}
  BY <1>2 DEF Peers
<1>4. PICK least \in ranks : \A r \in ranks : ~(<<r, least>> \in OpToRel(<, Nat))
  BY <1>3, WFMin, NatLessThanWellFounded, Zenon
<1> HIDE DEF ranks
<1>5. \A r \in ranks : least <= r
  <2>1. \A r \in ranks : ~(r < least)
    BY <1>3, <1>4 DEF OpToRel
  <2> QED BY <1>3, <2>1
<1>6. \E s \in Peers(h) : \A t \in Peers(h) : RankOf(s) <= RankOf(t)
  <2>1. PICK s \in Peers(h) : least = RankOf(s)
    BY DEF ranks
  <2>2. \A t \in Peers(h) : RankOf(t) \in ranks
    BY DEF ranks
  <2> QED BY <1>5, <2>1, <2>2
<1> QED BY <1>6, Zenon DEF BestPeer

LEMMA TestHoldingsStep ==
  ASSUME IngestInv, ResearchInv, TestHoldings
  PROVE  ResearchInv'
<1> DEFINE row == Read("done")
           compared == {h \in Holdings : Comparable(h) /\ Peers(h) # {}}
           testable == {h \in compared : Testable(BestPeer(h), h)}
<1>1. PICK favoured \in SUBSET testable :
        report' = [row EXCEPT !.replacements = {<<h, BestPeer(h)>> : h \in favoured},
                              !.insufficient = {h \in Holdings : ~Comparable(h)} \cup (compared \ testable)]
  BY DEF TestHoldings, Favoured
<1>2. Reading("scored") /\ ReadsMade["done"] = 3 /\ ReadsMade["scored"] = 2
  BY DEF ReadsMade, TestHoldings
<1>3. /\ runs' = runs /\ files' = files /\ snapshots' = snapshots
      /\ Registered' = Registered /\ LatestSnapshot' = LatestSnapshot
      /\ row \in ReportRow /\ row.step = "done" /\ Len(row.reads) = 3
      /\ row.reads[3] = LatestSnapshot
      /\ \A k \in 1..Len(report.reads) : row.reads[k] = report.reads[k]
      /\ \A k \in 1..Len(row.reads) : row.reads[k] \in Registered
      /\ row.passed = report.passed /\ row.begun = report.begun /\ row.ranking = report.ranking
  BY <1>2, LastReading, Zenon
<1>4. report.step = "scored"
  BY <1>2 DEF Reading
<1> HIDE DEF row
<1>5. row.reads[1] = report.reads[1]
  BY <1>2, <1>3, <1>4 DEF ResearchInv
<1> DEFINE replacements == {<<h, BestPeer(h)>> : h \in favoured}
           insufficient == {h \in Holdings : ~Comparable(h)} \cup (compared \ testable)
<1>6. ASSUME NEW h \in favoured
      PROVE  /\ h \in report.passed /\ BestPeer(h) \in report.passed
             /\ AssetClass(h) = AssetClass(BestPeer(h)) /\ AssetClass(h) # Unknown
             /\ EnoughCommon(LatestSnapshot, h, BestPeer(h))
  <2>1. Comparable(h) /\ Peers(h) # {} /\ Testable(BestPeer(h), h)
    OBVIOUS
  <2>2. BestPeer(h) \in Peers(h)
    BY <2>1, BestPeerIs
  <2>3. CommonDays(GetOhlcv(LatestSnapshot, BestPeer(h)), GetOhlcv(LatestSnapshot, h)) =
        CommonDays(GetOhlcv(LatestSnapshot, h), GetOhlcv(LatestSnapshot, BestPeer(h)))
    BY DEF CommonDays
  <2> HIDE DEF compared, testable
  <2>4. EnoughCommon(LatestSnapshot, h, BestPeer(h))
    BY <2>1, <2>3 DEF Testable, EnoughCommon
  <2>5. ToSet(report.ranking) \subseteq report.passed
    BY DEF ResearchInv
  <2> QED BY <2>1, <2>2, <2>4, <2>5 DEF Comparable, Peers
<1>7. report.passed \subseteq Universe
  BY ResearchFacts
<1>8. replacements \in SUBSET (Universe \X Universe) /\ insufficient \in SUBSET Holdings
  BY <1>6, <1>7
<1>9. report' = [row EXCEPT !.replacements = replacements, !.insufficient = insufficient]
  BY <1>1
<1>10. \A pair \in replacements : \E h \in favoured : pair[1] = h /\ pair[2] = BestPeer(h)
  OBVIOUS
<1> HIDE DEF replacements, insufficient, compared, testable
<1>11. /\ report' \in ReportRow /\ report'.step = "done" /\ report'.reads = row.reads
       /\ report'.passed = report.passed /\ report'.ranking = report.ranking
       /\ report'.replacements = replacements /\ report'.begun = report.begun
  BY <1>3, <1>8, <1>9 DEF ReportRow
<1>12. (\A s \in report.passed : Passing(report.reads[1], s))'
  BY <1>3, <1>4, <1>5, <1>11 DEF Passing, GetOhlcv, ResearchInv
<1>13. report'.begun = Len(snapshots') => report'.reads[1] = LatestSnapshot'
  BY <1>3, <1>4, <1>5, <1>11 DEF ResearchInv
<1>14. report'.begun <= Len(snapshots')
  BY <1>3, <1>11 DEF ResearchInv
<1>15. ASSUME NEW pair \in report'.replacements
       PROVE  Evidenced(pair[1], pair[2])'
  <2>1. PICK h \in favoured : pair[1] = h /\ pair[2] = BestPeer(h)
    BY <1>10, <1>11
  <2> DEFINE best == pair[2]
  <2>2. /\ h \in report.passed /\ best \in report.passed
        /\ AssetClass(h) = AssetClass(best) /\ AssetClass(h) # Unknown
        /\ EnoughCommon(LatestSnapshot, h, best)
    BY <1>6, <2>1
  <2>3. EnoughCommon(LatestSnapshot, h, best)'
    <3>1. EnoughCommon(row.reads[3], h, best)
      BY <1>3, <2>2
    <3> QED BY <1>3, <2>2 DEF EnoughCommon, GetOhlcv
  <2>4. report'.reads[1] # report'.reads[3] => Len(snapshots') > report'.begun
    <3>1. report.begun <= Len(snapshots) /\ report.begun \in Nat /\ Len(snapshots) \in Nat
      BY ResearchFacts, IngestTypeFacts DEF ResearchInv, IngestInv
    <3>2. report.begun = Len(snapshots) => row.reads[1] = row.reads[3]
      BY <1>3, <1>4, <1>5 DEF ResearchInv
    <3> QED BY <1>3, <1>11, <3>1, <3>2
  <2>5. report'.reads[3] = LatestSnapshot'
    BY <1>3, <1>11
  <2> HIDE DEF best
  <2> QED BY <1>11, <2>1, <2>2, <2>3, <2>4, <2>5 DEF Evidenced, best
<1>16. ToSet(report'.ranking) \subseteq report'.passed
  BY <1>11 DEF ResearchInv
<1>17. \A k \in 1..Len(report'.reads) : report'.reads[k] \in Registered'
  BY <1>3, <1>11
<1> QED BY <1>2, <1>3, <1>11, <1>12, <1>13, <1>14, <1>15, <1>16, <1>17 DEF ResearchInv

\* What was ranked and compared is in the report, over every reading and
\* every ingestion between two readings.
LEMMA ResearchInvariant == Spec => []ResearchInv
<1>1. Init => ResearchInv
  BY ResearchInitial DEF Init
<1>2. IngestInv /\ IngestInv' /\ ResearchInv /\ [Next]_vars => ResearchInv'
  <2> SUFFICES ASSUME IngestInv, IngestInv', ResearchInv, [Next]_vars PROVE ResearchInv'
    OBVIOUS
  <2>1. CASE ResearchNext
    BY <2>1, ReportStays, ScreenUniverseStep, ScoreUniverseStep, TestHoldingsStep DEF ResearchNext
  <2>2. CASE UNCHANGED researchVars
    BY <2>2, ReportStays DEF researchVars
  <2> QED BY <2>1, <2>2, ResearchMove
<1> QED BY <1>1, <1>2, IngestInvariant, PTL DEF Spec

\* What a registered snapshot serves was let through by the gate.
LEMMA ServedAdmitted ==
  ASSUME IngestInv, NEW i \in Registered, NEW s \in DOMAIN files[i]
  PROVE  /\ GetOhlcv(i, s) = files[i][s]
         /\ SoundSeries(files[i][s]) \/ runs[i].force = "reason"
<1>1. i \in RunIds /\ \E n \in DOMAIN snapshots : snapshots[n].run = i /\ CompleteSnapshot(n)
  BY RegisteredRuns
<1>2. DOMAIN files[i] \subseteq ToSet(runs[i].asked)
  BY <1>1 DEF IngestInv, WrittenSoFar
<1> QED BY <1>1, <1>2 DEF CompleteSnapshot, StoredFit, Admitted, GetOhlcv

\* Over every ingestion between its readings, the report recommends a replacement
\* only of the incumbent's known class, with the history and assets asked for in
\* the snapshot ranked and the common days in the snapshot compared.
THEOREM ReplacementsEvidenced == Spec => []ReplacementsRestOnEvidence
<1>1. IngestInv /\ ResearchInv => ReplacementsRestOnEvidence
  <2> SUFFICES ASSUME IngestInv, ResearchInv, NEW pair \in report.replacements
               PROVE  LET h == pair[1]
                          candidate == pair[2]
                          ranked == report.reads[1]
                          compared == report.reads[3]
                      IN  /\ AssetClass(h) = AssetClass(candidate) /\ AssetClass(h) # Unknown
                          /\ \A i \in {ranked, compared} :
                               /\ i \in Registered
                               /\ \A s \in {h, candidate} :
                                    SoundSeries(files[i][s]) \/ runs[i].force = "reason"
                          /\ Len(files[ranked][candidate]) >= MinHistory
                          /\ Aum(candidate) # Unknown /\ Aum(candidate) >= MinAum
                          /\ Cardinality(CommonDays(files[compared][h], files[compared][candidate]))
                               > MinObservations
                          /\ ranked # compared => Len(snapshots) > report.begun
    BY Zenon DEF ReplacementsRestOnEvidence
  <2> DEFINE h == pair[1]
             candidate == pair[2]
             ranked == report.reads[1]
             compared == report.reads[3]
  <2>1. Evidenced(h, candidate) /\ report.step = "done"
    BY DEF ResearchInv
  <2>2. ranked \in Registered /\ compared \in Registered
    <3>1. Len(report.reads) = 3
      BY <2>1 DEF ResearchInv, ReadsMade
    <3> QED BY <3>1 DEF ResearchInv
  <2>3. Passing(ranked, h) /\ Passing(ranked, candidate)
    BY <2>1 DEF ResearchInv, Evidenced
  <2>4. EnoughCommon(compared, h, candidate)
    BY <2>1 DEF Evidenced
  <2> HIDE DEF h, candidate, ranked, compared
  <2>5. /\ h \in DOMAIN files[ranked] /\ candidate \in DOMAIN files[ranked]
        /\ h \in DOMAIN files[compared] /\ candidate \in DOMAIN files[compared]
    BY <2>3, <2>4, EvidenceStored
  <2>6. /\ Len(GetOhlcv(ranked, candidate)) >= MinHistory
        /\ Aum(candidate) # Unknown /\ Aum(candidate) >= MinAum
    BY <2>3, EvidenceStored
  <2>7. \A i \in {ranked, compared} :
          /\ i \in Registered
          /\ \A s \in {h, candidate} :
               /\ GetOhlcv(i, s) = files[i][s]
               /\ SoundSeries(files[i][s]) \/ runs[i].force = "reason"
    BY <2>2, <2>5, ServedAdmitted
  <2>8. Cardinality(CommonDays(files[compared][h], files[compared][candidate])) > MinObservations
    BY <2>4, <2>7 DEF EnoughCommon
  <2>9. /\ AssetClass(h) = AssetClass(candidate) /\ AssetClass(h) # Unknown
        /\ ranked # compared => Len(snapshots) > report.begun
    BY <2>1 DEF Evidenced, ranked, compared
  <2> QED BY <2>6, <2>7, <2>8, <2>9 DEF h, candidate, ranked, compared
<1> QED BY <1>1, IngestInvariant, ResearchInvariant, PTL
=============================================================================
