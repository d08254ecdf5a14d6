------------------------ MODULE SubmissionContract ------------------------
(***************************************************************************)
(* What DDR-001 promises of every order, whatever the crashes and failed   *)
(* calls: the broker is asked only after the intent is durable, takes at   *)
(* most one order per record, is asked nothing while the outcome is in     *)
(* doubt, and doubt is lifted into a new attempt only when no order was    *)
(* taken.                                                                  *)
(***************************************************************************)
CONSTANTS Record, OrderId

VARIABLES stage, placed

contract == <<stage, placed>>

\* planned: nothing asked; intended: the broker may be asked;
\* doubtful: only an operator may act; closed: nothing more will happen.
Stage == {"planned", "intended", "doubtful", "closed"}

Init ==
  /\ stage = [r \in Record |-> "planned"]
  /\ placed = [r \in Record |-> {}]

Move(r, from, to) ==
  /\ stage[r] \in from
  /\ stage' = [stage EXCEPT ![r] = to]

\* The intent to submit becomes durable.
Intend(r) == Move(r, {"planned"}, "intended") /\ UNCHANGED placed

\* The broker takes the only order the record will ever have.
Take(r, o) ==
  /\ stage[r] = "intended" /\ placed[r] = {}
  /\ \A q \in Record : o \notin placed[q]
  /\ placed' = [placed EXCEPT ![r] = {o}]
  /\ UNCHANGED stage

\* The outcome cannot be established.
Doubt(r) == Move(r, {"intended"}, "doubtful") /\ UNCHANGED placed

\* The operator confirms the order, or rules it out and releases the record.
Confirm(r) == placed[r] # {} /\ Move(r, {"doubtful"}, "intended") /\ UNCHANGED placed
Release(r) == placed[r] = {} /\ Move(r, {"doubtful"}, "planned") /\ UNCHANGED placed

Close(r) == Move(r, {"planned", "intended", "doubtful"}, "closed") /\ UNCHANGED placed

Next ==
  \E r \in Record :
    \/ Intend(r) \/ Doubt(r) \/ Confirm(r) \/ Release(r) \/ Close(r)
    \/ \E o \in OrderId : Take(r, o)

Spec == Init /\ [][Next]_contract
=============================================================================
