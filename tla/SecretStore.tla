----------------------------- MODULE SecretStore -----------------------------
(***************************************************************************)
(* LocalEncryptedFileProvider, one encrypted file that holds every secret: *)
(* processes that store a secret (load the file, change one name, write    *)
(* the whole file again), and a ProductionRunner that reads what it needs  *)
(* when it starts.                                                         *)
(***************************************************************************)
EXTENDS Naturals, Sequences

CONSTANTS
  Writers,
  Names,
  Values,
  NoValue,
  Required,          \* the names the runner reads, in its order
  MaxSets,           \* bound: calls of set_secret
  MaxBreaks          \* bound: deaths and failed writes

VARIABLES
  file,              \* its condition, and the secrets it holds when whole
  writer,            \* writer -> the secret it stores, and its copy of the file
  runner,            \* what it does, and the values it has read
  stored,            \* name -> the value last stored by a finished call (history)
  spoilt,            \* two calls overlapped, or one was cut off while writing (history)
  sets, breaks

secretVars == <<file, writer, runner, stored, spoilt, sets, breaks>>

NoSecrets == [n \in Names |-> NoValue]
Away == [at |-> "away", name |-> NoValue, value |-> NoValue, copy |-> NoSecrets]
Down == [at |-> "down", read |-> <<>>]

Init ==
  /\ file = [is |-> "empty", secrets |-> NoSecrets]
  /\ writer = [w \in Writers |-> Away]
  /\ runner = Down
  /\ stored = NoSecrets
  /\ spoilt = FALSE
  /\ sets = 0
  /\ breaks = 0

Break ==
  /\ breaks < MaxBreaks
  /\ breaks' = breaks + 1

(* _load_store: an absent or empty file holds no secrets, one that does    *)
(* not decrypt raises.                                                     *)
Readable == file.is # "torn"
LoadStore == IF file.is = "whole" THEN file.secrets ELSE NoSecrets

Busy(w) == writer[w].at # "away"

-----------------------------------------------------------------------------
(* set_secret                                                              *)

SetSecret(w, name, value) ==
  /\ ~Busy(w)
  /\ sets < MaxSets
  /\ Readable
  /\ writer' = [writer EXCEPT ![w] =
       [at |-> "loaded", name |-> name, value |-> value,
        copy |-> [LoadStore EXCEPT ![name] = value]]]
  /\ sets' = sets + 1
  /\ spoilt' = (spoilt \/ \E other \in Writers : Busy(other))
  /\ UNCHANGED <<file, runner, stored, breaks>>

(* write_bytes empties the file when it opens it.                          *)
Truncate(w) ==
  /\ writer[w].at = "loaded"
  /\ file' = [is |-> "empty", secrets |-> NoSecrets]
  /\ writer' = [writer EXCEPT ![w].at = "writing"]
  /\ UNCHANGED <<runner, stored, spoilt, sets, breaks>>

Finish(w) ==
  /\ stored' = [stored EXCEPT ![writer[w].name] = writer[w].value]
  /\ writer' = [writer EXCEPT ![w] = Away]

(* As if the file were given the new secret only.                          *)
SaveOnlyTheNew(w) ==
  /\ writer[w].at = "writing"
  /\ file' = [is |-> "whole", secrets |-> [NoSecrets EXCEPT ![writer[w].name] = writer[w].value]]
  /\ Finish(w)
  /\ UNCHANGED <<runner, spoilt, sets, breaks>>

SaveStore(w) ==
  /\ writer[w].at = "writing"
  /\ file' = [is |-> "whole", secrets |-> writer[w].copy]
  /\ Finish(w)
  /\ UNCHANGED <<runner, spoilt, sets, breaks>>

(* A full disk, or a death while writing.                                  *)
SaveTorn(w) ==
  /\ writer[w].at = "writing"
  /\ Break
  /\ file' \in {[is |-> condition, secrets |-> NoSecrets] : condition \in {"torn", "empty"}}
  /\ spoilt' = TRUE
  /\ writer' = [writer EXCEPT ![w] = Away]
  /\ UNCHANGED <<runner, stored, sets>>

(* A death before the file is opened changes nothing.                      *)
WriterDies(w) ==
  /\ writer[w].at = "loaded"
  /\ Break
  /\ writer' = [writer EXCEPT ![w] = Away]
  /\ UNCHANGED <<file, runner, stored, spoilt, sets>>

-----------------------------------------------------------------------------
(* ProductionRunner.startup, _build_notifier and load_kite_auth_manager:   *)
(* each secret is read from the file anew, and the start is refused at the *)
(* first that is missing or cannot be read.                                *)

Start ==
  /\ runner.at = "down"
  /\ runner' = [at |-> "starting", read |-> <<>>]
  /\ UNCHANGED <<file, writer, stored, spoilt, sets, breaks>>

NextName == Required[Len(runner.read) + 1]
NextValue == LoadStore[NextName]
Missing == Readable /\ NextValue = NoValue

GetSecret ==
  /\ runner.at = "starting"
  /\ Len(runner.read) < Len(Required)
  /\ Readable /\ ~Missing
  /\ runner' = [runner EXCEPT !.read = Append(@, NextValue)]
  /\ UNCHANGED <<file, writer, stored, spoilt, sets, breaks>>

Refused ==
  /\ runner.at = "starting"
  /\ Len(runner.read) < Len(Required)
  /\ ~Readable \/ Missing

RefuseStart ==
  /\ Refused
  /\ runner' = Down
  /\ UNCHANGED <<file, writer, stored, spoilt, sets, breaks>>

Started ==
  /\ runner.at = "starting"
  /\ Len(runner.read) = Len(Required)
  /\ runner' = [runner EXCEPT !.at = "up"]
  /\ UNCHANGED <<file, writer, stored, spoilt, sets, breaks>>

Stop ==
  /\ runner.at = "up"
  /\ runner' = Down
  /\ UNCHANGED <<file, writer, stored, spoilt, sets, breaks>>

Next ==
  \/ \E w \in Writers :
       \/ \E name \in Names : \E value \in Values : SetSecret(w, name, value)
       \/ Truncate(w) \/ SaveStore(w) \/ SaveTorn(w) \/ WriterDies(w)
  \/ Start \/ GetSecret \/ RefuseStart \/ Started \/ Stop

Spec == Init /\ [][Next]_secretVars

-----------------------------------------------------------------------------
(* Unless two calls overlapped or one was cut off while writing, a secret  *)
(* that a finished set_secret stored is in the file, or in the hands of    *)
(* the one writer that has emptied the file to write it again; and the     *)
(* runner is refused its start for that secret in no other moment.         *)
Rewriting(w) == writer[w].at = "writing"
HeldBy(w, name) == writer[w].name = name \/ writer[w].copy[name] = stored[name]

StoredSecretsSurvive ==
  ~spoilt =>
    /\ \A name \in Names : stored[name] # NoValue =>
         \/ LoadStore[name] = stored[name]
         \/ \E w \in Writers : Rewriting(w) /\ HeldBy(w, name)
    /\ Refused => stored[NextName] = NoValue \/ \E w \in Writers : Rewriting(w)
=============================================================================
