---------------------------- MODULE SymbolTokens ----------------------------
(***************************************************************************)
(* SymbolResolver: the instrument token of each symbol, taken from Kite's  *)
(* instrument dump, kept in memory and in a cache file, and compared with  *)
(* the dump at every refresh.  Beside it a user that fetches a symbol's    *)
(* series by its token and asks again only when a refresh reports a change *)
(* of that symbol.                                                         *)
(***************************************************************************)
EXTENDS Naturals

CONSTANTS
  Traded,        \* trading symbols
  Tokens,
  NoToken,
  MaxChanges,    \* bound: changes of the dump
  MaxSpills      \* bound: saves cut off

VARIABLES
  dump,          \* symbol -> the tokens of its rows: NSE, BSE, both or none
  mapping,       \* _mapping
  cache,         \* what _load_cache would return
  used,          \* symbol -> the token the user works with
  spilled,       \* a save was cut off (history)
  changes, spills

tokenVars == <<dump, mapping, cache, used, spilled, changes, spills>>

Unmapped == [s \in Traded |-> NoToken]

Init ==
  /\ dump = [s \in Traded |-> {}]
  /\ mapping = Unmapped /\ cache = Unmapped /\ used = Unmapped
  /\ spilled = FALSE /\ changes = 0 /\ spills = 0

(* Listings, delistings, relistings, at either exchange.                   *)
DumpChanges(s, listed) ==
  /\ changes < MaxChanges
  /\ changes' = changes + 1
  /\ listed # dump[s]
  /\ dump' = [dump EXCEPT ![s] = listed]
  /\ UNCHANGED <<mapping, cache, used, spilled, spills>>

(* One token per symbol: of the rows of two exchanges, the last read.      *)
NewMappings ==
  {m \in [Traded -> Tokens \cup {NoToken}] :
     \A s \in Traded : IF dump[s] = {} THEN m[s] = NoToken ELSE m[s] \in dump[s]}

(* As if a symbol gone from the dump were no change.                       *)
ChangedIfStillThere(m) ==
  {s \in Traded : mapping[s] # NoToken /\ m[s] \notin {mapping[s], NoToken}}

(* refresh's events: the token changed, or the symbol is gone.             *)
Changed(m) == {s \in Traded : mapping[s] # NoToken /\ m[s] # mapping[s]}

Refresh ==
  \E m \in NewMappings :
    /\ mapping' = m /\ cache' = m
    /\ used' = [s \in Traded |-> IF s \in Changed(m) THEN NoToken ELSE used[s]]
    /\ UNCHANGED <<dump, spilled, changes, spills>>

(* The new mapping is in place when the save raises, and the events are    *)
(* never returned.  The file is emptied before it is written, and a file   *)
(* that does not parse reads as no mapping.                                *)
RefreshRaises ==
  /\ spills < MaxSpills
  /\ spills' = spills + 1
  /\ mapping' \in NewMappings
  /\ cache' \in {cache, Unmapped}
  /\ spilled' = TRUE
  /\ UNCHANGED <<dump, used, changes>>

(* resolve, for a fetch of the symbol's series.                            *)
Resolve(s) ==
  /\ used[s] = NoToken /\ mapping[s] # NoToken
  /\ used' = [used EXCEPT ![s] = mapping[s]]
  /\ UNCHANGED <<dump, mapping, cache, spilled, changes, spills>>

(* A new process reads the cache, and goes by it until its first refresh.  *)
Restart ==
  /\ mapping' = cache
  /\ UNCHANGED <<dump, cache, used, spilled, changes, spills>>

Next ==
  \/ \E s \in Traded : Resolve(s) \/ \E listed \in SUBSET Tokens : DumpChanges(s, listed)
  \/ Refresh \/ RefreshRaises \/ Restart

Spec == Init /\ [][Next]_tokenVars

-----------------------------------------------------------------------------
(* A user that heeds the events never works with a token the resolver      *)
(* would no longer give for the symbol, over delistings, relistings,       *)
(* symbols on two exchanges and restarts, unless a save was cut off.       *)
TokensInUseAreCurrent ==
  ~spilled => \A s \in Traded : used[s] # NoToken => used[s] = mapping[s]
=============================================================================
