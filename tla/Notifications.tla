---------------------------- MODULE Notifications ----------------------------
(***************************************************************************)
(* TelegramNotificationPort.send with its retries and its file of failed   *)
(* messages, and retry_queued.  Nothing in the repository calls the        *)
(* latter: it is run as a job of its own, beside the session that sends.   *)
(***************************************************************************)
EXTENDS Naturals, Sequences, SequencesExt

CONSTANTS
  Messages,
  NoMessage,
  MaxAttempts,       \* attempts of retry_with_backoff
  MaxJobs,           \* bound: runs of retry_queued
  MaxLapses          \* bound: failed requests and writes, and deaths

VARIABLES
  sending,     \* the message the session is sending, and the attempts made
  accepted,    \* the messages send was called with
  queue,       \* the rows of the retry file
  job,         \* the rows retry_queued read and has not tried, those that failed again
  received,    \* message -> how often it reached the chat
  unsafe,      \* messages enqueued under an open job, or lost by a failed write (history)
  jobs, lapses

noticeVars == <<sending, accepted, queue, job, received, unsafe, jobs, lapses>>

NoSend == [message |-> NoMessage, attempts |-> 0]
NoJob == [open |-> FALSE, rows |-> <<>>, failed |-> <<>>, attempts |-> 0]

Init ==
  /\ sending = NoSend
  /\ accepted = {}
  /\ queue = <<>>
  /\ job = NoJob
  /\ received = [m \in Messages |-> 0]
  /\ unsafe = {}
  /\ jobs = 0
  /\ lapses = 0

Lapse ==
  /\ lapses < MaxLapses
  /\ lapses' = lapses + 1

(* A request that fails may have delivered the message all the same.       *)
Delivered(m) == received' = [received EXCEPT ![m] = @ + 1]
MaybeDelivered(m) == UNCHANGED received \/ Delivered(m)

-----------------------------------------------------------------------------
(* send                                                                    *)

Sending == sending.message # NoMessage
Exhausted == sending.attempts = MaxAttempts

Send(m) ==
  /\ ~Sending
  /\ m \notin accepted
  /\ accepted' = accepted \cup {m}
  /\ sending' = [message |-> m, attempts |-> 0]
  /\ UNCHANGED <<queue, job, received, unsafe, jobs, lapses>>

RequestAnswered ==
  /\ Sending /\ ~Exhausted
  /\ Delivered(sending.message)
  /\ sending' = NoSend
  /\ UNCHANGED <<accepted, queue, job, unsafe, jobs, lapses>>

RequestFails ==
  /\ Sending /\ ~Exhausted
  /\ Lapse
  /\ MaybeDelivered(sending.message)
  /\ sending' = [sending EXCEPT !.attempts = @ + 1]
  /\ UNCHANGED <<accepted, queue, job, unsafe, jobs>>

Enqueue ==
  /\ Exhausted
  /\ queue' = Append(queue, sending.message)
  /\ unsafe' = IF job.open THEN unsafe \cup {sending.message} ELSE unsafe
  /\ sending' = NoSend
  /\ UNCHANGED <<accepted, job, received, jobs, lapses>>

(* The file cannot be written (send raises), or the session dies.          *)
SendAbandoned ==
  /\ Sending
  /\ Lapse
  /\ unsafe' = unsafe \cup {sending.message}
  /\ sending' = NoSend
  /\ UNCHANGED <<accepted, queue, job, received, jobs>>

-----------------------------------------------------------------------------
(* retry_queued                                                            *)

(* As if the file were emptied as soon as it is read.                      *)
TakeQueue ==
  /\ ~job.open
  /\ jobs < MaxJobs
  /\ queue # <<>>
  /\ job' = [NoJob EXCEPT !.open = TRUE, !.rows = queue]
  /\ queue' = <<>>
  /\ jobs' = jobs + 1
  /\ UNCHANGED <<sending, accepted, received, unsafe, lapses>>

ReadQueue ==
  /\ ~job.open
  /\ jobs < MaxJobs
  /\ queue # <<>>
  /\ job' = [NoJob EXCEPT !.open = TRUE, !.rows = queue]
  /\ jobs' = jobs + 1
  /\ UNCHANGED <<sending, accepted, queue, received, unsafe, lapses>>

Trying == job.open /\ job.rows # <<>>

RowSent ==
  /\ Trying
  /\ Delivered(Head(job.rows))
  /\ job' = [job EXCEPT !.rows = Tail(@), !.attempts = 0]
  /\ UNCHANGED <<sending, accepted, queue, unsafe, jobs, lapses>>

RowFails ==
  /\ Trying
  /\ Lapse
  /\ MaybeDelivered(Head(job.rows))
  /\ job' = IF job.attempts + 1 < MaxAttempts
            THEN [job EXCEPT !.attempts = @ + 1]
            ELSE [job EXCEPT !.rows = Tail(@), !.attempts = 0,
                             !.failed = Append(@, Head(job.rows))]
  /\ UNCHANGED <<sending, accepted, queue, unsafe, jobs>>

(* The file is replaced by the rows that failed again, whatever it holds.  *)
Rewrite ==
  /\ job.open /\ job.rows = <<>>
  /\ queue' = job.failed
  /\ job' = NoJob
  /\ UNCHANGED <<sending, accepted, received, unsafe, jobs, lapses>>

(* The file is truncated before it is written: a full disk or a death      *)
(* leaves the rows written so far.                                         *)
RewriteTorn ==
  /\ job.open /\ job.rows = <<>>
  /\ Lapse
  /\ \E n \in 0..Len(job.failed) : queue' = SubSeq(job.failed, 1, n)
  /\ unsafe' = unsafe \cup ToSet(job.failed)
  /\ job' = NoJob
  /\ UNCHANGED <<sending, accepted, received, jobs>>

(* A job that dies earlier leaves the file as it was.                      *)
JobDies ==
  /\ job.open
  /\ Lapse
  /\ job' = NoJob
  /\ UNCHANGED <<sending, accepted, queue, received, unsafe, jobs>>

Next ==
  \/ \E m \in Messages : Send(m)
  \/ RequestAnswered \/ RequestFails \/ Enqueue \/ SendAbandoned
  \/ ReadQueue \/ RowSent \/ RowFails \/ Rewrite \/ RewriteTorn \/ JobDies

Spec == Init /\ [][Next]_noticeVars

-----------------------------------------------------------------------------
(* Whatever is sent, retried, rewritten or killed in between, a message    *)
(* given to send has reached the chat, is being sent or waits in the file; *)
(* it can be missing from all three only if its own write failed, its      *)
(* process died, or it was enqueued while the retry job held an older copy *)
(* of the file.                                                            *)
NoticesAccountedFor ==
  \A m \in accepted :
    received[m] > 0 \/ m = sending.message \/ m \in ToSet(queue) \/ m \in unsafe
=============================================================================
