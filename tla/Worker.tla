-------------------------------- MODULE Worker --------------------------------
(***************************************************************************)
(* The worker's daily summary (worker.py): a task delivered at least once       *)
(* (task_acks_late), tried again after a failure, that reads the day's trades   *)
(* and writes one notification for the day unless there is one.               *)
(***************************************************************************)
EXTENDS Naturals, FiniteSets

CONSTANTS
    SummaryDays,        \* the days summarised
    Workers,            \* the processes that take tasks
    MaxRetries,         \* max_retries of the task
    MaxFaults           \* bound on failures of the database, deaths and re-runs

VARIABLES
    beaten,     \* the days the schedule has asked for
    queue,      \* per day, the messages waiting: the tries already made of each
    running,    \* what a worker is doing
    notified,   \* per day, the notifications written
    faults,
    given_up    \* days with a message given up after all its tries

wkVars == <<beaten, queue, running, notified, faults, given_up>>
Free == [at |-> "free"]

WkInit ==
    /\ beaten = {} /\ queue = [d \in SummaryDays |-> {}] /\ running = [w \in Workers |-> Free]
    /\ notified = [d \in SummaryDays |-> 0] /\ faults = 0 /\ given_up = {}

(* beat_schedule: every day's summary is asked for once.                       *)
Beat(d) ==
    /\ d \notin beaten
    /\ beaten' = beaten \cup {d} /\ queue' = [queue EXCEPT ![d] = @ \cup {0}]
    /\ UNCHANGED <<running, notified, faults, given_up>>

(* A message is delivered; it stays in the queue until it is acknowledged, but     *)
(* is not delivered to another worker while this one holds it.                *)
Take(w) ==
    /\ running[w] = Free
    /\ \E d \in SummaryDays, tries \in 0..MaxRetries :
         /\ tries \in queue[d]
         /\ queue' = [queue EXCEPT ![d] = @ \ {tries}]
         /\ running' = [running EXCEPT ![w] = [at |-> "reading", day |-> d, tries |-> tries]]
    /\ UNCHANGED <<beaten, notified, faults, given_up>>

(* Slip: the recap is written whether or not the day has one.                  *)
ReadAnyway(w) ==
    /\ running[w].at = "reading"
    /\ running' = [running EXCEPT ![w] = [@ EXCEPT !.at = "writing"]]
    /\ UNCHANGED <<beaten, queue, notified, faults, given_up>>

(* The trades and the existing notification are read in one transaction; two       *)
(* notifications raise (scalar_one_or_none), and the task is tried again.      *)
Read(w) ==
    /\ running[w].at = "reading"
    /\ LET d == running[w].day IN
       running' = [running EXCEPT ![w] =
                     CASE notified[d] = 0 -> [@ EXCEPT !.at = "writing"]
                       [] notified[d] = 1 -> [@ EXCEPT !.at = "acknowledging"]
                       [] OTHER           -> [@ EXCEPT !.at = "failed"]]
    /\ UNCHANGED <<beaten, queue, notified, faults, given_up>>

Write(w) ==
    /\ running[w].at = "writing"
    /\ notified' = [notified EXCEPT ![running[w].day] = @ + 1]
    /\ running' = [running EXCEPT ![w] = [@ EXCEPT !.at = "acknowledging"]]
    /\ UNCHANGED <<beaten, queue, faults, given_up>>

Acknowledge(w) ==
    /\ running[w].at = "acknowledging"
    /\ running' = [running EXCEPT ![w] = Free]
    /\ UNCHANGED <<beaten, queue, notified, faults, given_up>>

(* autoretry_for: the task is queued again, up to its number of tries.           *)
Retry(w) ==
    /\ running[w].at = "failed"
    /\ LET d == running[w].day  tries == running[w].tries + 1 IN
       IF tries <= MaxRetries
       THEN queue' = [queue EXCEPT ![d] = @ \cup {tries}] /\ UNCHANGED given_up
       ELSE given_up' = given_up \cup {d} /\ UNCHANGED queue
    /\ running' = [running EXCEPT ![w] = Free]
    /\ UNCHANGED <<beaten, notified, faults>>

(* The database fails a read or a write.                                     *)
DatabaseFails(w) ==
    /\ running[w].at \in {"reading", "writing"} /\ faults < MaxFaults
    /\ faults' = faults + 1
    /\ running' = [running EXCEPT ![w] = [@ EXCEPT !.at = "failed"]]
    /\ UNCHANGED <<beaten, queue, notified, given_up>>

(* A worker dies; what it had not acknowledged is delivered again.              *)
Die(w) ==
    /\ running[w] # Free /\ faults < MaxFaults
    /\ faults' = faults + 1
    /\ queue' = [queue EXCEPT ![running[w].day] = @ \cup {running[w].tries}]
    /\ running' = [running EXCEPT ![w] = Free]
    /\ UNCHANGED <<beaten, notified, given_up>>

(* Somebody runs the summary of a day again.                                 *)
RunAgain(d) ==
    /\ faults < MaxFaults /\ d \in beaten /\ 0 \notin queue[d]
    /\ faults' = faults + 1
    /\ queue' = [queue EXCEPT ![d] = @ \cup {0}]
    /\ UNCHANGED <<beaten, running, notified, given_up>>

WorkOn(w) == Take(w) \/ Read(w) \/ Write(w) \/ Acknowledge(w) \/ Retry(w)
WkNext ==
    \/ \E w \in Workers : WorkOn(w) \/ DatabaseFails(w) \/ Die(w)
    \/ \E d \in SummaryDays : Beat(d) \/ RunAgain(d)
WkFairness == \A w \in Workers : WF_wkVars(WorkOn(w))

-----------------------------------------------------------------------------
(* Properties                                                               *)

(* Every day gets its recap, and one of them: with one worker, however often a      *)
(* task is delivered again after a death, retried or run by hand.              *)
OneSummaryADay ==
    \A d \in SummaryDays : [](notified[d] <= 1) /\ (d \in beaten ~> notified[d] = 1)
=============================================================================
