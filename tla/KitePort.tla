------------------------------ MODULE KitePort ------------------------------
(***************************************************************************)
(* KiteBrokerPort and what it keeps: the file that maps order tags back to *)
(* client references, read when the ProductionRunner starts and appended   *)
(* to before each order.  Kite knows an order by its tag only: an open     *)
(* order whose tag the port cannot resolve is one no reconciliation can    *)
(* adopt.                                                                  *)
(***************************************************************************)
EXTENDS Naturals, Sequences, FiniteSets

CONSTANTS
  References,
  NoReference,
  TagOf,             \* encode_tag: reference -> its tag
  OrderSize,         \* of every order
  PostAttempts,      \* max_attempts of the port
  MaxOrders,         \* bound: orders Kite takes
  MaxSlips           \* bound: lost answers, failed or cut appends, deaths

VARIABLES
  mapped,            \* the references with a line of their own in the file
  ending,            \* how the file ends, and whether all its lines parse
  port,              \* whether it is up, and the references in its cache
  posting,           \* the reference submit_order is called for, and its attempts
  book,              \* Kite's orders of the day, in the order it took them
  slips

kiteVars == <<mapped, ending, port, posting, book, slips>>

NotPosting == [reference |-> NoReference, at |-> "none", attempts |-> 0]
PortDown == [up |-> FALSE, cache |-> {}]

Init ==
  /\ mapped = {}
  /\ ending = "clean"
  /\ port = PortDown
  /\ posting = NotPosting
  /\ book = <<>>
  /\ slips = 0

Slip ==
  /\ slips < MaxSlips
  /\ slips' = slips + 1

-----------------------------------------------------------------------------
(* map_kite_status                                                         *)

(* The statuses of the table, one of each kind, and one it does not know.  *)
Statuses == {"OPEN PENDING", "OPEN", "MODIFIED", "COMPLETE", "CANCELLED", "REJECTED", "UNLISTED"}
Unrecognized(order) == order.status = "UNLISTED"

MapKiteStatus(order) ==
  CASE order.status \in {"OPEN PENDING", "MODIFIED"} -> "PENDING"
    [] order.status = "OPEN" ->
         IF order.filled = 0 THEN "PENDING"
         ELSE IF order.filled < OrderSize THEN "PARTIALLY_FILLED" ELSE "FILLED"
    [] order.status = "COMPLETE" -> "FILLED"
    [] order.status = "CANCELLED" -> "CANCELLED"
    [] order.status = "REJECTED" -> "FAILED"

(* _to_order_view and get_open_orders: one row that does not map fails the *)
(* query.                                                                  *)
Resolve(tag) ==
  IF \E r \in port.cache : TagOf[r] = tag
  THEN CHOOSE r \in port.cache : TagOf[r] = tag ELSE NoReference
View(o) == [id |-> o, state |-> MapKiteStatus(book[o]), reference |-> Resolve(book[o].tag)]
CanList == port.up /\ \A o \in DOMAIN book : ~Unrecognized(book[o])
OpenOrders == {v \in {View(o) : o \in DOMAIN book} : v.state \notin {"FILLED", "CANCELLED"}}

-----------------------------------------------------------------------------
(* ProductionRunner.startup and shutdown                                   *)

Start ==
  /\ ~port.up
  /\ ending # "broken"
  /\ port' = [up |-> TRUE, cache |-> mapped]
  /\ UNCHANGED <<mapped, ending, posting, book, slips>>

Stop ==
  /\ port.up /\ posting = NotPosting
  /\ port' = PortDown
  /\ UNCHANGED <<mapped, ending, posting, book, slips>>

Die ==
  /\ port.up
  /\ Slip
  /\ port' = PortDown
  /\ posting' = NotPosting
  /\ UNCHANGED <<mapped, ending, book>>

-----------------------------------------------------------------------------
(* submit_order, first TagMappingStore.record.  An append to a file whose  *)
(* last line has no end joins the two lines to one that does not parse.    *)

Known(r) == \E s \in port.cache : TagOf[s] = TagOf[r]
Cached(r) == port' = [port EXCEPT !.cache = @ \cup {r}]

AppendLine(r) ==
  IF ending = "clean" THEN mapped' = mapped \cup {r} /\ UNCHANGED ending
  ELSE ending' = "broken" /\ UNCHANGED mapped

Submit(r) ==
  /\ port.up /\ posting = NotPosting
  /\ posting' = [reference |-> r, at |-> "recording", attempts |-> 0]
  /\ UNCHANGED <<mapped, ending, port, book, slips>>

Recorded ==
  /\ posting.at = "recording"
  /\ posting' = [posting EXCEPT !.at = "posting"]
  /\ IF Known(posting.reference) THEN UNCHANGED <<mapped, ending, port>>
     ELSE AppendLine(posting.reference) /\ Cached(posting.reference)
  /\ UNCHANGED <<book, slips>>

(* What a write that fails leaves: nothing, a part of the line, or all of  *)
(* it but its end; the exception passes through submit_order.              *)
TornLine(r) ==
  \/ UNCHANGED <<mapped, ending>>
  \/ ending' = "broken" /\ UNCHANGED mapped
  \/ ending = "clean" /\ ending' = "unended" /\ mapped' = mapped \cup {r}

RecordFailsCached ==
  /\ posting.at = "recording"
  /\ ~Known(posting.reference)
  /\ Slip
  /\ TornLine(posting.reference)
  /\ Cached(posting.reference)
  /\ posting' = NotPosting
  /\ UNCHANGED book

RecordFails ==
  /\ posting.at = "recording"
  /\ ~Known(posting.reference)
  /\ Slip
  /\ TornLine(posting.reference)
  /\ posting' = NotPosting
  /\ UNCHANGED <<port, book>>

(* A death in the middle of the write leaves the same.                     *)
RecordDies ==
  /\ posting.at = "recording"
  /\ ~Known(posting.reference)
  /\ Slip
  /\ TornLine(posting.reference)
  /\ port' = PortDown
  /\ posting' = NotPosting
  /\ UNCHANGED book

-----------------------------------------------------------------------------
(* then _call and its attempts                                             *)

Take == book' = Append(book, [tag |-> TagOf[posting.reference], status |-> "OPEN PENDING", filled |-> 0])
CanTake == Len(book) < MaxOrders

PostAnswered ==
  /\ posting.at = "posting" /\ CanTake
  /\ Take
  /\ posting' = NotPosting
  /\ UNCHANGED <<mapped, ending, port, slips>>

(* An error Kite answers, refused for its margin, its input or its session. *)
PostRefused ==
  /\ posting.at = "posting"
  /\ posting' = NotPosting
  /\ UNCHANGED <<mapped, ending, port, book, slips>>

(* No answer, or one worth another attempt: Kite may have taken the order. *)
PostUnanswered ==
  /\ posting.at = "posting"
  /\ Slip
  /\ (CanTake /\ Take) \/ UNCHANGED book
  /\ posting' = IF posting.attempts + 1 < PostAttempts
                THEN [posting EXCEPT !.attempts = @ + 1] ELSE NotPosting
  /\ UNCHANGED <<mapped, ending, port>>

-----------------------------------------------------------------------------
(* Kite's side.                                                            *)

Over(order) == order.status \in {"COMPLETE", "CANCELLED", "REJECTED"}

KiteMoves(o) ==
  /\ ~Over(book[o])
  /\ \E status \in Statuses : \E filled \in book[o].filled..OrderSize :
       /\ status = "COMPLETE" => filled = OrderSize
       /\ status = "REJECTED" => filled = 0
       /\ status = "CANCELLED" => filled < OrderSize
       /\ [book[o] EXCEPT !.status = status, !.filled = filled] # book[o]
       /\ book' = [book EXCEPT ![o].status = status, ![o].filled = filled]
  /\ UNCHANGED <<mapped, ending, port, posting, slips>>

Next ==
  \/ Start \/ Stop \/ Die
  \/ \E r \in References : Submit(r)
  \/ Recorded \/ RecordFails \/ RecordDies
  \/ PostAnswered \/ PostRefused \/ PostUnanswered
  \/ \E o \in DOMAIN book : KiteMoves(o)

Spec == Init /\ [][Next]_kiteVars

-----------------------------------------------------------------------------
(* Whatever died, was cut or lost before: while Kite's statuses are known, *)
(* every order that is neither filled nor cancelled there, a rejected one  *)
(* included, is among the open orders of a running port, and what is       *)
(* listed carries the reference it was placed for.                         *)
Outstanding(order) == order.status \notin {"COMPLETE", "CANCELLED"} /\ order.filled < OrderSize

OpenOrdersAreOurs ==
  CanList => \A o \in DOMAIN book :
    LET listed == {v \in OpenOrders : v.id = o}
    IN  /\ Outstanding(book[o]) => listed # {}
        /\ \A v \in listed : v.reference # NoReference /\ TagOf[v.reference] = book[o].tag
=============================================================================
