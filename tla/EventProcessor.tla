--------------------------- MODULE EventProcessor ---------------------------
(***************************************************************************)
(* The processors of the event queue (codes/server/src/monitoring/         *)
(* processor.rs): each takes an event out, asks the trigger filter, posts  *)
(* an alert to Discord if the event is one of the monitoring's, and        *)
(* completes the event or has it retried.  Where alerts are disabled       *)
(* nothing is posted and the event is completed all the same.              *)
(*                                                                         *)
(* The filter's rate limiter (event/trigger.rs) is reduced to the number   *)
(* of its slots that are in use: taking one and its leaving the window.    *)
(* What Discord did with a request whose answer was lost is unknown.       *)
(***************************************************************************)
EXTENDS FileEventQueue

CONSTANTS
    Monitoring,  \* events of type monitoring.error_detected
    Wanted,      \* events that pass the filter's lists and severity
    Limit,       \* slots of the rate limiter
    MaxOutages   \* bound: alerts that Discord does not confirm

ASSUME ProcessorAssumption ==
    /\ Monitoring \subseteq Events /\ Wanted \subseteq Events
    /\ Limit \in Nat /\ MaxOutages \in Nat

VARIABLES
    enabled,   \* whether the server was started with alerts (DiscordAlert.enabled)
    slots,     \* slots of the rate limiter in use
    sending,   \* workers whose event passed the filter
    tried,     \* how often an alert for an event was attempted (history)
    posted,    \* how often Discord posted it (history)
    confirmed, \* events whose alert was confirmed (history)
    limited,   \* events only the rate limiter refused (history)
    silenced,  \* events completed without an alert, there being none (history)
    outages    \* alerts not confirmed so far

history == <<tried, posted, confirmed, limited, silenced>>
processorVars == <<enabled, slots, sending, history, outages>>
allVars == <<vars, processorVars>>

ProcessorTypeOK ==
    /\ TypeOK
    /\ enabled \in BOOLEAN
    /\ slots \in 0..Limit
    /\ sending \subseteq Workers
    /\ tried \in [Events -> Nat] /\ posted \in [Events -> Nat]
    /\ confirmed \subseteq Events /\ limited \subseteq Events /\ silenced \subseteq Events
    /\ outages \in 0..MaxOutages

ProcessorInit ==
    /\ Init
    /\ enabled \in BOOLEAN
    /\ slots = 0
    /\ sending = {}
    /\ tried = [e \in Events |-> 0]
    /\ posted = [e \in Events |-> 0]
    /\ confirmed = {} /\ limited = {} /\ silenced = {}
    /\ outages = 0

-----------------------------------------------------------------------------

Considering(w) == work[w].step = "dispatch" /\ w \notin sending

\* should_trigger, but for the slot it takes.
Accepts(e) == e \in Wanted /\ slots < Limit

\* The filter lets the event pass and takes a slot for it.
FilterPasses(w) ==
    /\ Considering(w)
    /\ Accepts(work[w].event)
    /\ slots' = slots + 1
    /\ sending' = sending \union {w}
    /\ UNCHANGED <<vars, enabled, history, outages>>

\* The filter refuses it: the event is completed all the same.
FilterRefuses(w) ==
    /\ Considering(w)
    /\ ~Accepts(work[w].event)
    /\ Decide(w, "complete")
    /\ limited' = limited \union ({work[w].event} \intersect Wanted)
    /\ UNCHANGED <<enabled, slots, sending, tried, posted, confirmed, silenced, outages>>

\* dispatch_event of any other event only logs.
DispatchOther(w) ==
    /\ w \in sending
    /\ work[w].event \notin Monitoring
    /\ Decide(w, "complete")
    /\ sending' = sending \ {w}
    /\ UNCHANGED <<enabled, slots, history, outages>>

\* handle_monitoring_event has sent its request to Discord and awaits the answer.
AwaitsDiscord(w) == w \in sending /\ work[w].event \in Monitoring /\ enabled

\* handle_monitoring_event: alerts are disabled, and send_error_alert returns at
\* once, as if it had posted one.
AlertSkipped(w) ==
    /\ w \in sending
    /\ work[w].event \in Monitoring
    /\ ~enabled
    /\ Decide(w, "complete")
    /\ sending' = sending \ {w}
    /\ silenced' = silenced \union {work[w].event}
    /\ UNCHANGED <<enabled, slots, tried, posted, confirmed, limited, outages>>

\* Discord takes the alert and says so.
AlertConfirmed(w) ==
    LET e == work[w].event
    IN  /\ AwaitsDiscord(w)
        /\ Decide(w, "complete")
        /\ sending' = sending \ {w}
        /\ tried' = [tried EXCEPT ![e] = tried[e] + 1]
        /\ posted' = [posted EXCEPT ![e] = posted[e] + 1]
        /\ confirmed' = confirmed \union {e}
        /\ UNCHANGED <<enabled, slots, limited, silenced, outages>>

\* Mutant: an error of the alert is logged and forgotten.
AfterFailedAlert_Forgets == "complete"

AfterFailedAlert == "fail"

\* Discord refuses the alert or cannot be reached, or its answer is lost.
AlertFails(w) ==
    LET e == work[w].event
    IN  /\ AwaitsDiscord(w)
        /\ outages < MaxOutages
        /\ outages' = outages + 1
        /\ Decide(w, AfterFailedAlert)
        /\ sending' = sending \ {w}
        /\ tried' = [tried EXCEPT ![e] = tried[e] + 1]
        /\ \E arrived \in {0, 1} : posted' = [posted EXCEPT ![e] = posted[e] + arrived]
        /\ UNCHANGED <<enabled, slots, confirmed, limited, silenced>>

\* A timestamp leaves the limiter's window.
SlotExpires ==
    /\ slots > 0
    /\ slots' = slots - 1
    /\ UNCHANGED <<vars, enabled, sending, history, outages>>

\* The limiter is in memory, and so is what the workers were doing.  The server
\* starts again with whatever its configuration says by then.
ServerStops ==
    /\ Crash
    /\ slots' = 0
    /\ sending' = {}
    /\ enabled' \in BOOLEAN
    /\ UNCHANGED <<history, outages>>

\* The steps of the queue that leave the processor's own state alone.
QueueStep ==
    /\ \/ \E e \in Events : Push(e) \/ ScanFails(e) \/ AgeOut(e)
       \/ Continue
       \/ \E w \in Workers : Enter(w) \/ CompleteFails(w) \/ FailFails(w)
       \/ PushFails \/ PopReadFails \/ PopWriteFails
    /\ UNCHANGED processorVars

\* What a worker does with no help from outside.
ProcessAlone(w) ==
    \/ FilterPasses(w) \/ FilterRefuses(w)
    \/ DispatchOther(w) \/ AlertSkipped(w)

Process(w) == ProcessAlone(w) \/ AlertConfirmed(w) \/ AlertFails(w)

ProcessorNext ==
    \/ QueueStep
    \/ \E w \in Workers : Process(w)
    \/ SlotExpires
    \/ ServerStops

ProcessorSpec == ProcessorInit /\ [][ProcessorNext]_allVars

\* A task that has the queue's lock is polled; the lock is handed out in the
\* order it was asked for (tokio's RwLock), so a worker that keeps asking gets
\* it.  Nothing makes Discord answer: the HTTP client has no timeout.
FairProcessorSpec ==
    /\ ProcessorSpec
    /\ WF_allVars(Continue /\ UNCHANGED processorVars)
    /\ \A w \in Workers :
         /\ SF_allVars(Enter(w) /\ UNCHANGED processorVars)
         /\ WF_allVars(ProcessAlone(w))

-----------------------------------------------------------------------------
(***************************************************************************)
(* Properties                                                              *)
(***************************************************************************)

\* Discord posts the alert of one event at most once per attempt the queue
\* allows, although an answer may be lost and the server may stop after the
\* alert and before the completion (process_once, fail).
PostsBounded == \A e \in Events : posted[e] <= MaxRetries + 1

\* An event is a dead letter only after all its attempts failed: its alert was
\* tried at each of them and never confirmed.
DeadAfterAllAttempts ==
    \A e \in Readable("dlq") :
        disk["dlq"][e].status = "failed" =>
            tried[e] = MaxRetries + 1 /\ e \notin confirmed

\* What the queue's documentation calls completed: an error that passes the
\* filter's lists is in completed only once Discord has confirmed its alert;
\* but for what the limiter refused, as an event or as a retry of one, and what
\* was taken out by a server that was started without alerts.
CompletedSucceeded ==
    \A e \in Readable("completed") \intersect Monitoring \intersect Wanted :
        e \in confirmed \union limited \union silenced

\* Where the processor leaves an event for good: a dead letter, or completed,
\* and an error that passes the filter's lists only for one of the reasons above.
Settled(e) ==
    \/ e \in Readable("dlq")
    \/ /\ e \in Readable("completed")
       /\ e \in Monitoring \intersect Wanted => e \in confirmed \union limited \union silenced

\* Discord has not answered the worker that has the event, or none at all.
HeldUp(e) ==
    \/ \E w \in Workers : AwaitsDiscord(w) /\ work[w].event = e
    \/ \A w \in Workers : AwaitsDiscord(w)

\* As long as nothing fails on the server, every accepted event leaves the
\* queue, and each error that passes the filter is told to Discord or ends as a
\* dead letter that says it was not, unless Discord leaves the request about the
\* event itself without an answer for ever, or one of every worker.  One request
\* that hangs holds up no other event while another worker is left (process_once,
\* run_loop).  Finitely many events are pushed: an unending supply of urgent ones
\* would keep the others waiting.
EveryErrorReported ==
    \A e \in Events : pushed[e] = "accepted" ~> Settled(e) \/ faults > 0 \/ []HeldUp(e)

(***************************************************************************)
(* The inductive invariant                                                 *)
(***************************************************************************)

\* Each attempt had the alert of e tried once and none of them was confirmed.
Attempted(e, n) == tried[e] = n /\ e \notin confirmed

\* The file that still waits for an attempt, or is being taken out for one,
\* counts the attempts made; so does what an operation has read of it.
CountedOnDisk(e) ==
    /\ e \in Readable("pending") => Attempted(e, disk["pending"][e].retries)
    /\ InOp(e, {"popRead"}) /\ e \in Readable("processing") =>
          Attempted(e, disk["processing"][e].retries)
    /\ InOp(e, {"popWrite"}) => Attempted(e, op.retries)

\* So does the worker that has the event; one that completes it has done so
\* for a reason.
CountedInWork(e) ==
    \A w \in Workers : work[w].event = e =>
        /\ work[w].step = "dispatch" => Attempted(e, work[w].retries)
        /\ work[w].step = "fail" => Attempted(e, work[w].retries + 1)
        /\ work[w].step = "complete" /\ e \in Monitoring \intersect Wanted =>
              e \in confirmed \union limited \union silenced

\* Only what was accepted was tried, and posted no more often than tried.
TriedWithin(e) ==
    /\ posted[e] <= tried[e] /\ tried[e] <= MaxRetries + 1
    /\ pushed[e] # "accepted" => Attempted(e, 0)

\* What passed the filter's lists is being dispatched.
SendingWanted ==
    \A w \in sending : work[w].step = "dispatch" /\ work[w].event \in Wanted

ProcessorIInv ==
    /\ ProcessorTypeOK
    /\ SendingWanted
    /\ \A e \in Events : TriedWithin(e) /\ CountedOnDisk(e) /\ CountedInWork(e)
    /\ DeadAfterAllAttempts
    /\ CompletedSucceeded

=============================================================================
