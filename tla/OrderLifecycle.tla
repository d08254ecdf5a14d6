-------------------------- MODULE OrderLifecycle --------------------------
(***************************************************************************)
(* The canonical states of one execution record and the table of legal     *)
(* transitions between them (execution_manager/models.py).  No state       *)
(* machine of its own: the modules that move records around extend it.     *)
(***************************************************************************)

Status == {"PROPOSAL", "VERIFIED", "SUBMITTED", "PENDING", "PARTIALLY_FILLED",
           "FILLED", "CANCELLED", "FAILED", "RECONCILED", "AMBIGUOUS"}

\* ORDER_LIFECYCLE_TRANSITIONS: the targets validate_transition accepts.
Transitions ==
  [s \in Status |->
     CASE s = "PROPOSAL"         -> {"VERIFIED", "FAILED"}
       [] s = "VERIFIED"         -> {"SUBMITTED", "FAILED"}
       [] s = "SUBMITTED"        -> {"PENDING", "FAILED", "VERIFIED", "AMBIGUOUS"}
       [] s = "PENDING"          -> {"PARTIALLY_FILLED", "FILLED", "CANCELLED", "PENDING"}
       [] s = "PARTIALLY_FILLED" -> {"PARTIALLY_FILLED", "FILLED", "CANCELLED"}
       [] s = "AMBIGUOUS"        -> {"VERIFIED", "PENDING", "PARTIALLY_FILLED", "FILLED",
                                     "CANCELLED", "FAILED", "RECONCILED"}
       [] s = "RECONCILED"       -> {}
       [] OTHER                  -> {"RECONCILED"}]

\* The states in which nothing has been asked of the broker yet; reconcile()
\* leaves records in them alone.
Unsent == {"PROPOSAL", "VERIFIED"}

\* _reconcile_one's _TERMINAL: states the broker will not leave.
Terminal == {"FILLED", "CANCELLED", "FAILED"}

\* The states _do_poll follows at the broker.
Live == {"PENDING", "PARTIALLY_FILLED"}

\* What a broker can report of an order it took.
BrokerStatus == Live \cup Terminal
=============================================================================
