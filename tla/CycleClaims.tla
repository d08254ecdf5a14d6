----------------------------- MODULE CycleClaims -----------------------------
(***************************************************************************)
(* The cycle_claims table of ExecutionStateStore: invocations of separate  *)
(* processes that claim one cycle, work on it and release it.  A claim is  *)
(* taken in a transaction that begins as a reader and becomes a writer at  *)
(* its first statement that writes: SQLite refuses that statement when     *)
(* another transaction has committed since.  Nothing in the repository     *)
(* calls claim_cycle yet; the invocations are used as its tests use it.    *)
(***************************************************************************)
EXTENDS Naturals

CONSTANTS
  Invocations,
  Nobody,
  MaxClaimAge,       \* max_claim_age_seconds
  LastTime           \* bound: the time explored

VARIABLES
  clock,
  claim,             \* the row of the cycle: who claimed it, and at what time
  invocation,        \* invocation -> what it does, and the time it took for now
  superseded,        \* invocations whose transaction reads an old table
  outlived           \* some invocation worked under a claim gone stale (history)

claimVars == <<clock, claim, invocation, superseded, outlived>>

NoClaim == [by |-> Nobody, at |-> 0]
Resting == [at |-> "resting", now |-> 0]

Init ==
  /\ clock = 0
  /\ claim = NoClaim
  /\ invocation = [i \in Invocations |-> Resting]
  /\ superseded = {}
  /\ outlived = FALSE

Is(i, place) == invocation[i].at = place
GoTo(i, place) == invocation' = [invocation EXCEPT ![i].at = place]
Rest(i) == invocation' = [invocation EXCEPT ![i] = Resting]

(* A commit that changes the table leaves every open transaction behind.   *)
Commit(i, row) ==
  /\ claim' = row
  /\ superseded' = {j \in Invocations : j # i /\ Is(j, "claiming")}

Holding(i) == Is(i, "working")
Outlives(i) == Holding(i) /\ clock >= invocation[i].now + MaxClaimAge
Observe == outlived' = (outlived \/ \E i \in Invocations : Outlives(i)')
Fresh(row, now) == row # NoClaim /\ now < row.at + MaxClaimAge

-----------------------------------------------------------------------------
(* claim_cycle.  now is taken before the transaction begins.               *)

CallClaim(i) ==
  /\ Is(i, "resting")
  /\ invocation' = [invocation EXCEPT ![i] = [at |-> "calling", now |-> clock]]
  /\ UNCHANGED <<clock, claim, superseded, outlived>>

ReadClaim(i) ==
  /\ Is(i, "calling")
  /\ ~Fresh(claim, invocation[i].now)
  /\ GoTo(i, "claiming")
  /\ UNCHANGED <<clock, claim, superseded, outlived>>

ClaimRefused(i) ==
  /\ Is(i, "calling")
  /\ Fresh(claim, invocation[i].now)
  /\ Rest(i)
  /\ UNCHANGED <<clock, claim, superseded, outlived>>

(* As if the row were replaced whatever was committed since it was read.   *)
WriteClaimAnyway(i) ==
  /\ Is(i, "claiming")
  /\ Commit(i, [by |-> i, at |-> invocation[i].now])
  /\ GoTo(i, "working")
  /\ UNCHANGED clock
  /\ Observe

WriteClaim(i) ==
  /\ Is(i, "claiming")
  /\ i \notin superseded
  /\ Commit(i, [by |-> i, at |-> invocation[i].now])
  /\ GoTo(i, "working")
  /\ UNCHANGED clock
  /\ Observe

WriteRefused(i) ==
  /\ Is(i, "claiming")
  /\ i \in superseded
  /\ superseded' = superseded \ {i}
  /\ Rest(i)
  /\ UNCHANGED <<clock, claim, outlived>>

(* release_cycle deletes the row of the cycle, whoever it names.           *)
Release(i) ==
  /\ Holding(i)
  /\ Commit(i, NoClaim)
  /\ Rest(i)
  /\ UNCHANGED <<clock, outlived>>

(* A process that dies leaves its claim behind.                            *)
Die(i) ==
  /\ ~Is(i, "resting")
  /\ superseded' = superseded \ {i}
  /\ Rest(i)
  /\ UNCHANGED <<clock, claim, outlived>>

Tick ==
  /\ clock < LastTime
  /\ clock' = clock + 1
  /\ UNCHANGED <<claim, invocation, superseded>>
  /\ Observe

Next ==
  \/ Tick
  \/ \E i \in Invocations :
       \/ CallClaim(i) \/ ReadClaim(i) \/ ClaimRefused(i)
       \/ WriteClaim(i) \/ WriteRefused(i) \/ Release(i) \/ Die(i)

Spec == Init /\ [][Next]_claimVars

-----------------------------------------------------------------------------
(* However calls, reads, writes and deaths interleave, two invocations     *)
(* work on the cycle together only after one of them was at work with a    *)
(* claim no longer honoured (its age counts from the call, waiting for the *)
(* database included); until then the row names the one that works.        *)
OneWorksAtATime ==
  ~outlived =>
    /\ \A i, j \in Invocations : Holding(i) /\ Holding(j) => i = j
    /\ \A i \in Invocations : Holding(i) => claim.by = i
=============================================================================
