----------------------------- MODULE EventQueue -----------------------------
(***************************************************************************)
(* What an event queue promises to those that push events and to those     *)
(* that process them (the trait EventQueue, codes/server/src/event/        *)
(* queue.rs): an accepted event waits, is handed out by priority, and      *)
(* comes back completed, to be retried, or dead; an event is refused while *)
(* another one with its fingerprint is in the queue or has just been       *)
(* completed.                                                              *)
(*                                                                         *)
(* The trait is silent about failures.  The steps Reject, AcceptUnseen,    *)
(* RefuseStale, PutBack, BuryUnread and Lose are what the file             *)
(* implementation adds when a file operation fails or the server stops in  *)
(* the middle of one: FileEventQueue is shown to do no worse than this.    *)
(***************************************************************************)
EXTENDS Naturals

CONSTANTS
    Events,       \* events that may be pushed
    MaxRetries,   \* retries before an event is dead (QueueConfig.max_retries)
    PriorityOf,   \* priority of an event, 0 is the most urgent
    FingerprintOf \* fingerprint of an event

VARIABLES
    place,   \* where an event is
    tries,   \* retries an event has had (retry_count)
    recent,  \* events completed less than dedup_window_secs ago
    unseen   \* events accepted although one with their fingerprint was there

queueVars == <<place, tries, recent, unseen>>

Places == {"new", "refused", "rejected", "pending", "processing", "completed",
           "dead", "unread", "lost"}

QueueTypeOK ==
    /\ place \in [Events -> Places]
    /\ tries \in [Events -> 0..MaxRetries]
    /\ recent \subseteq Events
    /\ unseen \subseteq Events

QueueInit ==
    /\ place = [e \in Events |-> "new"]
    /\ tries = [e \in Events |-> 0]
    /\ recent = {}
    /\ unseen = {}

\* Events that keep one with the same fingerprint out.
Unsettled == {e \in Events : place[e] \in {"pending", "processing"}}
Blocking == Unsettled \union recent

Move(e, from, to) ==
    /\ place[e] = from
    /\ place' = [place EXCEPT ![e] = to]

Duplicate(e) == \E f \in Blocking : FingerprintOf[f] = FingerprintOf[e]

Accept(e) ==
    /\ ~Duplicate(e)
    /\ Move(e, "new", "pending")
    /\ UNCHANGED <<tries, recent, unseen>>

Refuse(e) ==
    /\ Duplicate(e)
    /\ Move(e, "new", "refused")
    /\ UNCHANGED <<tries, recent, unseen>>

\* The search for duplicates passed one over; it may be settled by now.
AcceptUnseen(e) ==
    /\ Move(e, "new", "pending")
    /\ unseen' = unseen \union {e}
    /\ UNCHANGED <<tries, recent>>

\* An event completed long ago was taken for a recent one.
RefuseStale(e) ==
    /\ \E f \in Events : place[f] = "completed" /\ FingerprintOf[f] = FingerprintOf[e]
    /\ Move(e, "new", "refused")
    /\ UNCHANGED <<tries, recent, unseen>>

\* The event could not be written, and its sender was told so.
Reject(e) ==
    /\ Move(e, "new", "rejected")
    /\ UNCHANGED <<tries, recent, unseen>>

HandOut(e) ==
    /\ \A f \in Events : place[f] = "pending" => PriorityOf[e] <= PriorityOf[f]
    /\ Move(e, "pending", "processing")
    /\ UNCHANGED <<tries, recent, unseen>>

Finish(e) ==
    /\ Move(e, "processing", "completed")
    /\ recent' = recent \union {e}
    /\ UNCHANGED <<tries, unseen>>

Retry(e) ==
    /\ tries[e] < MaxRetries
    /\ Move(e, "processing", "pending")
    /\ tries' = [tries EXCEPT ![e] = tries[e] + 1]
    /\ UNCHANGED <<recent, unseen>>

Bury(e) ==
    /\ tries[e] = MaxRetries
    /\ Move(e, "processing", "dead")
    /\ UNCHANGED <<tries, recent, unseen>>

\* The event could not be read when it was to be handed out.
BuryUnread(e) ==
    /\ Move(e, "processing", "unread")
    /\ UNCHANGED <<tries, recent, unseen>>

\* Only an event that is being handed out, or was, can be lost; its retries
\* are forgotten with it.
Lose(e) ==
    /\ Move(e, "processing", "lost")
    /\ tries' = [tries EXCEPT ![e] = 0]
    /\ UNCHANGED <<recent, unseen>>

\* The hand-out failed: the event waits again, with the retries it had.
PutBack(e) ==
    /\ Move(e, "processing", "pending")
    /\ UNCHANGED <<tries, recent, unseen>>

Forget(e) ==
    /\ e \in recent
    /\ recent' = recent \ {e}
    /\ UNCHANGED <<place, tries, unseen>>

QueueNext ==
    \E e \in Events :
        \/ Accept(e) \/ AcceptUnseen(e)
        \/ Refuse(e) \/ RefuseStale(e) \/ Reject(e)
        \/ HandOut(e) \/ Finish(e)
        \/ Retry(e) \/ Bury(e) \/ BuryUnread(e) \/ Lose(e)
        \/ PutBack(e) \/ Forget(e)

QueueSpec == QueueInit /\ [][QueueNext]_queueVars

=============================================================================
