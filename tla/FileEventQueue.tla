--------------------------- MODULE FileEventQueue ---------------------------
(***************************************************************************)
(* The file-based event queue (codes/server/src/event/file_queue.rs): an   *)
(* event is a file in one of the directories pending, processing,          *)
(* completed and dlq, under the same name everywhere.                      *)
(*                                                                         *)
(* Every operation holds the write lock from its first step to its last,   *)
(* so one operation runs at a time; but it is made of several file         *)
(* operations, each of which may fail, and the server may stop between     *)
(* two of them.  One action is one such step.  fs::write is two: the file  *)
(* is truncated, then written, and what is left in between cannot be       *)
(* parsed (Torn).  A rename is atomic.                                     *)
(*                                                                         *)
(* Workers are the processors that take events out (EventProcessor says    *)
(* how one decides between complete and fail; here it may do either).      *)
(***************************************************************************)
EXTENDS Naturals, FiniteSets

CONSTANTS
    Events,         \* events that may be pushed, each with its own id
    Workers,        \* concurrent callers of process_once
    MaxRetries,     \* QueueConfig.max_retries
    PriorityOf,     \* priority of an event, in its file's name
    FingerprintOf,  \* EventMetadata.fingerprint
    MaxFaults,      \* bound: failed file operations and crashes
    Absent,         \* no file
    Torn,           \* a file that cannot be parsed
    None            \* no event, no worker

VARIABLES
    disk,     \* the file of each event in each directory
    fresh,    \* events whose completed file is within the dedup window
    op,       \* the operation that holds the lock, and its next step
    pushed,   \* what became of the push of each event
    work,     \* what each worker does
    missed,   \* history: events pushed although a duplicate was there, unread
    faults    \* failures so far

vars == <<disk, fresh, op, pushed, work, missed, faults>>

Dirs == {"pending", "processing", "completed", "dlq"}
Contents == [retries : 0..MaxRetries,
             status : {"pending", "processing", "retrying", "completed", "failed"}]

ASSUME FileQueueAssumption ==
    /\ MaxRetries \in Nat /\ MaxFaults \in Nat
    /\ PriorityOf \in [Events -> 0..3]
    /\ None \notin Events \union Workers
    /\ Absent # Torn /\ {Absent, Torn} \intersect Contents = {}

FreeOp == [step |-> "free", event |-> None, retries |-> 0, by |-> None]
IdleWork == [step |-> "idle", event |-> None, retries |-> 0]

TypeOK ==
    /\ disk \in [Dirs -> [Events -> Contents \union {Absent, Torn}]]
    /\ fresh \subseteq Events
    /\ op \in [step : {"free", "pushWrite", "popRead", "popWrite", "completeWrite",
                       "completeRemove", "failOpen", "failWrite"},
               event : Events \union {None}, retries : 0..MaxRetries,
               by : Workers \union {None}]
    /\ pushed \in [Events -> {"new", "accepted", "refused", "rejected"}]
    /\ work \in [Workers -> [step : {"idle", "dispatch", "complete", "fail"},
                             event : Events \union {None}, retries : 0..MaxRetries]]
    /\ missed \subseteq Events
    /\ faults \in 0..MaxFaults

Init ==
    /\ disk = [d \in Dirs |-> [e \in Events |-> Absent]]
    /\ fresh = {}
    /\ op = FreeOp
    /\ pushed = [e \in Events |-> "new"]
    /\ work = [w \in Workers |-> IdleWork]
    /\ missed = {}
    /\ faults = 0

-----------------------------------------------------------------------------
(***************************************************************************)
(* Files                                                                   *)
(***************************************************************************)

Write(d, e, content) == disk' = [disk EXCEPT ![d][e] = content]

Rename(from, to, e) ==
    disk' = [disk EXCEPT ![from][e] = Absent, ![to][e] = disk[from][e]]

Readable(d) == {e \in Events : disk[d][e] \notin {Absent, Torn}}

\* Mutant: events that are being processed are not looked at.
ContainsFingerprint_NotProcessing(f) ==
    \E e \in Readable("pending") \union (Readable("completed") \intersect fresh) :
        FingerprintOf[e] = f

\* contains_fingerprint_unlocked; the dead letters are not searched.
ContainsFingerprint(f) ==
    \E e \in Readable("pending") \union Readable("processing")
             \union (Readable("completed") \intersect fresh) :
        FingerprintOf[e] = f

\* Mutant: the loop over the priorities stops before the last one.
Candidates_OneShort ==
    {e \in Events : /\ disk["pending"][e] # Absent
                    /\ PriorityOf[e] < 3
                    /\ \A f \in Events : disk["pending"][f] # Absent => PriorityOf[e] <= PriorityOf[f]}

\* Mutant: the directory is read once, for any priority.
Candidates_AnyPriority == {e \in Events : disk["pending"][e] # Absent}

\* The files pop may take: any of the most urgent ones.
Candidates ==
    {e \in Events : /\ disk["pending"][e] # Absent
                    /\ \A f \in Events : disk["pending"][f] # Absent => PriorityOf[e] <= PriorityOf[f]}

-----------------------------------------------------------------------------
(***************************************************************************)
(* The lock                                                                *)
(***************************************************************************)

Locked(step) == op.step = step

Take(step, e, n, w) ==
    /\ op.step = "free"
    /\ op' = [step |-> step, event |-> e, retries |-> n, by |-> w]

Proceed(step) == op' = [op EXCEPT !.step = step]

Release == op' = FreeOp

\* The worker's call returns and it is back at the top of its loop.
Return(w) == work' = [work EXCEPT ![w] = IdleWork]

(***************************************************************************)
(* push                                                                    *)
(***************************************************************************)

\* The call returns to its sender: with nothing done, or with an error.
Answer(e, outcome) ==
    /\ pushed' = [pushed EXCEPT ![e] = outcome]
    /\ UNCHANGED <<disk, op>>

\* write_event_file opens the file.
PushOpen(e) ==
    /\ Write("pending", e, Torn)
    /\ Take("pushWrite", e, 0, None)
    /\ UNCHANGED pushed

Push(e) ==
    /\ Locked("free")
    /\ pushed[e] = "new"
    /\ IF ContainsFingerprint(FingerprintOf[e]) THEN Answer(e, "refused") ELSE PushOpen(e)
    /\ UNCHANGED <<fresh, work, missed, faults>>

PushWrite ==
    /\ Locked("pushWrite")
    /\ Write("pending", op.event, [retries |-> 0, status |-> "pending"])
    /\ pushed' = [pushed EXCEPT ![op.event] = "accepted"]
    /\ Release
    /\ UNCHANGED <<fresh, work, missed, faults>>

(***************************************************************************)
(* pop                                                                     *)
(***************************************************************************)

\* Mutant: the file is copied to processing instead of moved.
PopRename_Copies(w) ==
    /\ work[w].step = "idle"
    /\ \E e \in Candidates :
         /\ Write("processing", e, disk["pending"][e])
         /\ Take("popRead", e, 0, w)
    /\ UNCHANGED <<fresh, pushed, work, missed, faults>>

PopRename(w) ==
    /\ work[w].step = "idle"
    /\ \E e \in Candidates :
         /\ Rename("pending", "processing", e)
         /\ Take("popRead", e, 0, w)
    /\ UNCHANGED <<fresh, pushed, work, missed, faults>>

\* A file that can be parsed is opened to be written again, with status
\* Processing; one that cannot be is a dead letter and pop returns an error.
PopRead ==
    LET content == disk["processing"][op.event]
    IN  /\ Locked("popRead")
        /\ IF content # Torn
           THEN /\ Write("processing", op.event, Torn)
                /\ op' = [op EXCEPT !.step = "popWrite", !.retries = content.retries]
           ELSE /\ Rename("processing", "dlq", op.event)
                /\ Release
        /\ UNCHANGED <<fresh, pushed, work, missed, faults>>

PopWrite ==
    /\ Locked("popWrite")
    /\ Write("processing", op.event, [retries |-> op.retries, status |-> "processing"])
    /\ work' = [work EXCEPT ![op.by] =
                  [step |-> "dispatch", event |-> op.event, retries |-> op.retries]]
    /\ Release
    /\ UNCHANGED <<fresh, pushed, missed, faults>>

\* The worker has the event in memory and no lock.
Decide(w, next) ==
    /\ work[w].step = "dispatch"
    /\ work' = [work EXCEPT ![w].step = next]
    /\ UNCHANGED <<disk, fresh, op, pushed, missed, faults>>

(***************************************************************************)
(* complete                                                                *)
(***************************************************************************)

\* With no file to complete the call returns at once.
CompleteOpen(w) ==
    LET e == work[w].event
    IN  /\ Locked("free")
        /\ work[w].step = "complete"
        /\ IF e \in Readable("processing")
           THEN /\ Write("completed", e, Torn)
                /\ Take("completeWrite", e, disk["processing"][e].retries, w)
                /\ UNCHANGED work
           ELSE /\ Return(w)
                /\ UNCHANGED <<disk, op>>
        /\ UNCHANGED <<fresh, pushed, missed, faults>>

CompleteWrite ==
    /\ Locked("completeWrite")
    /\ Write("completed", op.event, [retries |-> op.retries, status |-> "completed"])
    /\ fresh' = fresh \union {op.event}
    /\ Proceed("completeRemove")
    /\ UNCHANGED <<pushed, work, missed, faults>>

CompleteRemove ==
    /\ Locked("completeRemove")
    /\ Write("processing", op.event, Absent)
    /\ Return(op.by)
    /\ Release
    /\ UNCHANGED <<fresh, pushed, missed, faults>>

(***************************************************************************)
(* fail                                                                    *)
(***************************************************************************)

\* The file leaves processing before it is anywhere else.
FailRemove(w) ==
    LET e == work[w].event
    IN  /\ work[w].step = "fail"
        /\ Write("processing", e, Absent)
        /\ Take("failOpen", e, work[w].retries, w)
        /\ UNCHANGED <<fresh, pushed, work, missed, faults>>

\* Mutant: the bound is checked before the retry is counted.
Exhausted_OneShort == op.retries + 1 >= MaxRetries

Exhausted == op.retries >= MaxRetries

\* Where a failed event goes, and as what.
FailDir == IF Exhausted THEN "dlq" ELSE "pending"

\* Mutant: the retry is not counted.
FailContent_NotCounted ==
    [retries |-> op.retries, status |-> IF Exhausted THEN "failed" ELSE "retrying"]

\* Mutant: an event with no retry left is dropped, not kept as a dead letter.
FailContent_DeadDropped ==
    IF Exhausted THEN Absent ELSE [retries |-> op.retries + 1, status |-> "retrying"]

FailContent ==
    IF Exhausted
    THEN [retries |-> op.retries, status |-> "failed"]
    ELSE [retries |-> op.retries + 1, status |-> "retrying"]

FailOpen ==
    /\ Locked("failOpen")
    /\ Write(FailDir, op.event, Torn)
    /\ Proceed("failWrite")
    /\ UNCHANGED <<fresh, pushed, work, missed, faults>>

FailWrite ==
    /\ Locked("failWrite")
    /\ Write(FailDir, op.event, FailContent)
    /\ Return(op.by)
    /\ Release
    /\ UNCHANGED <<fresh, pushed, missed, faults>>

-----------------------------------------------------------------------------
(***************************************************************************)
(* Failures.  Each is a file operation that returns an error, in the       *)
(* operation that holds the lock; the caller gets the error and forgets    *)
(* the event.                                                              *)
(***************************************************************************)

Fault ==
    /\ faults < MaxFaults
    /\ faults' = faults + 1

\* The search for duplicates fails: a directory cannot be listed, and push
\* returns the error; or the duplicate cannot be read and is passed over; or the
\* age of a completed file cannot be told, and it counts as a recent one.
ScanFails(e) ==
    /\ Fault
    /\ Locked("free")
    /\ pushed[e] = "new"
    /\ \/ Answer(e, "rejected") /\ UNCHANGED missed
       \/ /\ ContainsFingerprint(FingerprintOf[e])
          /\ PushOpen(e)
          /\ missed' = missed \union {e}
       \/ /\ \E f \in Readable("completed") : FingerprintOf[f] = FingerprintOf[e]
          /\ Answer(e, "refused")
          /\ UNCHANGED missed
    /\ UNCHANGED <<fresh, work>>

\* The file of a push cannot be opened, or not be written.
PushFails ==
    /\ Fault
    /\ Locked("pushWrite")
    /\ \E left \in {Absent, Torn} : Write("pending", op.event, left)
    /\ pushed' = [pushed EXCEPT ![op.event] = "rejected"]
    /\ Release
    /\ UNCHANGED <<fresh, work, missed>>

\* The moved file cannot be read: it is taken for corrupted.  If it cannot be
\* moved to dlq it goes back to pending, and stays if that fails as well.
PopReadFails ==
    /\ Fault
    /\ Locked("popRead")
    /\ \/ Rename("processing", "dlq", op.event)
       \/ Rename("processing", "pending", op.event)
       \/ UNCHANGED disk
    /\ Release
    /\ UNCHANGED <<fresh, pushed, work, missed>>

\* The status cannot be written: the file moves back as it is by now, or
\* stays if it cannot be moved.
PopWriteFails ==
    /\ Fault
    /\ \/ Locked("popRead") /\ op.event \in Readable("processing")
       \/ Locked("popWrite")
    /\ Rename("processing", "pending", op.event) \/ UNCHANGED disk
    /\ Release
    /\ UNCHANGED <<fresh, pushed, work, missed>>

\* The file in processing cannot be found or read, or the one in completed
\* not be opened; then that one is not written; then the first not removed.
CompleteFails(w) ==
    /\ Fault
    /\ \/ /\ Locked("free")
          /\ work[w].step = "complete"
          /\ UNCHANGED disk
       \/ /\ Locked("completeWrite") /\ op.by = w
          /\ \E left \in {Absent, Torn} : Write("completed", op.event, left)
       \/ /\ Locked("completeRemove") /\ op.by = w
          /\ UNCHANGED disk
    /\ Return(w)
    /\ Release
    /\ UNCHANGED <<fresh, pushed, missed>>

\* The file in processing cannot be removed; or the new one not be opened;
\* or not be written.
FailFails(w) ==
    /\ Fault
    /\ \/ Locked("free") /\ work[w].step = "fail"
       \/ op.step \in {"failOpen", "failWrite"} /\ op.by = w
    /\ Return(w)
    /\ Release
    /\ UNCHANGED <<disk, fresh, pushed, missed>>

\* The server stops and starts again: what is in memory is gone, and the
\* directories are left as they are (with_config only creates them).
Crash ==
    /\ Fault
    /\ op.step # "free" \/ \E w \in Workers : work[w] # IdleWork
    /\ op' = FreeOp
    /\ work' = [w \in Workers |-> IdleWork]
    /\ pushed' = IF Locked("pushWrite") THEN [pushed EXCEPT ![op.event] = "rejected"] ELSE pushed
    /\ UNCHANGED <<disk, fresh, missed>>

\* dedup_window_secs have passed since the file was written.  No operation
\* takes that long.
AgeOut(e) ==
    /\ e \in fresh
    /\ op.event # e
    /\ fresh' = fresh \ {e}
    /\ UNCHANGED <<disk, op, pushed, work, missed, faults>>

-----------------------------------------------------------------------------

\* The operation that has the lock goes on.
Continue ==
    \/ PushWrite
    \/ PopRead \/ PopWrite
    \/ CompleteWrite \/ CompleteRemove
    \/ FailOpen \/ FailWrite

\* A worker gets the lock for its next operation.
Enter(w) == PopRename(w) \/ CompleteOpen(w) \/ FailRemove(w)

\* What surrounds the queue.
Faults ==
    \/ \E e \in Events : ScanFails(e)
    \/ PushFails \/ PopReadFails \/ PopWriteFails \/ Crash
    \/ \E w \in Workers : CompleteFails(w) \/ FailFails(w)

Next ==
    \/ \E e \in Events : Push(e) \/ AgeOut(e)
    \/ Continue
    \/ \E w \in Workers : Enter(w)
    \/ \E w \in Workers, next \in {"complete", "fail"} : Decide(w, next)
    \/ Faults

Spec == Init /\ [][Next]_vars

-----------------------------------------------------------------------------
(***************************************************************************)
(* Properties                                                              *)
(***************************************************************************)

\* Events that are waiting, being processed, or just completed.
Live == Readable("pending") \union Readable("processing")
            \union (Readable("completed") \intersect fresh)

\* Two events with the same fingerprint are never both in the queue or its
\* dedup window, whatever fails in between, except that a search that could not
\* read a duplicate lets through the one event it was made for; the rule holds
\* again for all that come after (push against pop, complete and fail under one
\* lock; contains_fingerprint).
OneLivePerFingerprint ==
    \A e, f \in Live \ missed : FingerprintOf[e] = FingerprintOf[f] => e = f

\* What a worker has in memory is the file in processing, with the same retry
\* count, and nobody else has it: neither pending again nor with another
\* worker (pop, and complete and fail of other events meanwhile).
HeldExclusively ==
    \A w \in Workers :
        work[w].step # "idle" /\ op.by # w =>
            /\ work[w].event \in Readable("processing")
            /\ disk["processing"][work[w].event].retries = work[w].retries
            /\ disk["pending"][work[w].event] = Absent
            /\ \A v \in Workers \ {w} : work[v].event # work[w].event

\* An accepted event that no directory holds any more in readable form, and
\* that the running operation does not have in memory.
Gone == {e \in Events : /\ pushed[e] = "accepted"
                        /\ \A d \in Dirs : e \notin Readable(d)
                        /\ op.event # e}

\* A failed file operation or a crash costs at most one event, and without
\* one nothing is lost (the order of writes and removals in pop and fail).
LossBounded == Cardinality(Gone) <= faults

(***************************************************************************)
(* The inductive invariant                                                 *)
(***************************************************************************)

\* The operation that holds the lock has the event it is about where its step
\* says, and no other worker has it.
OpInPlace ==
    LET e == op.event  w == op.by
    IN  /\ op.step = "free" => op = FreeOp
        /\ op.step # "free" => e \in Events
        /\ op.step = "pushWrite" =>
              /\ w = None /\ pushed[e] = "new"
              /\ disk["pending"][e] = Torn
              /\ \A d \in Dirs \ {"pending"} : disk[d][e] = Absent
              /\ e \in missed \/ \A f \in Live : FingerprintOf[f] # FingerprintOf[e]
        /\ op.step \in {"popRead", "popWrite"} =>
              /\ w \in Workers /\ work[w].step = "idle"
              /\ disk["pending"][e] = Absent /\ pushed[e] \notin {"new", "refused"}
        /\ op.step = "popRead" => disk["processing"][e] # Absent
        /\ op.step = "popWrite" => disk["processing"][e] = Torn /\ pushed[e] = "accepted"
        /\ op.step \in {"completeWrite", "completeRemove"} =>
              /\ w \in Workers /\ work[w] = [step |-> "complete", event |-> e, retries |-> op.retries]
              /\ disk["pending"][e] = Absent
              /\ e \in Readable("processing") /\ disk["processing"][e].retries = op.retries
        /\ op.step = "completeRemove" =>
              e \in Readable("completed") \intersect fresh /\ disk["completed"][e].retries = op.retries
        /\ op.step \in {"failOpen", "failWrite"} =>
              /\ w \in Workers /\ work[w] = [step |-> "fail", event |-> e, retries |-> op.retries]
              /\ disk["processing"][e] = Absent
              /\ disk["pending"][e] = IF op.step = "failWrite" /\ ~Exhausted THEN Torn ELSE Absent
              /\ pushed[e] = "accepted"
        /\ op.step # "free" => \A v \in Workers \ {w} : work[v].event # e

WorkInPlace ==
    \A w \in Workers :
        /\ work[w].step = "idle" => work[w] = IdleWork
        /\ work[w].step # "idle" => work[w].event \in Events
        /\ \A v \in Workers \ {w} : work[w].step # "idle" => work[v].event # work[w].event

\* No event is waiting and taken out at once; one that was not accepted is
\* nowhere, or torn; one whose status is Failed waits no more.
InPlace(e) ==
    /\ disk["pending"][e] # Absent => disk["processing"][e] = Absent
    /\ pushed[e] \in {"new", "refused"} /\ op.event # e => \A d \in Dirs : disk[d][e] = Absent
    /\ pushed[e] # "accepted" => \A d \in Dirs : e \notin Readable(d)
    /\ \A d \in {"pending", "processing"} : e \in Readable(d) => disk[d][e].status # "failed"

\* It waits, or an operation or a worker has it.
Waiting(e) ==
    \/ disk["pending"][e] # Absent
    \/ op.event = e /\ op.step # "completeRemove"
    \/ op.event # e /\ \E w \in Workers : work[w].event = e

\* What waits is not settled yet.
FilesInPlace ==
    \A e \in Events :
        InPlace(e) /\ (Waiting(e) => e \notin Readable("completed") \union Readable("dlq"))

\* What is live, or will be when the operation is done.
Kept == Live \union {e \in Events : op.event = e
                        /\ op.step \in {"pushWrite", "popWrite", "failOpen", "failWrite"}}

OneKeptPerFingerprint ==
    \A e, f \in Kept \ missed : FingerprintOf[e] = FingerprintOf[f] => e = f

\* An accepted event that neither a directory nor the operation has.
Lost == {e \in Events : /\ pushed[e] = "accepted"
                        /\ \A d \in Dirs : e \notin Readable(d)
                        /\ ~(op.event = e /\ op.step \in {"popWrite", "failOpen", "failWrite"})}

FewLost == IsFiniteSet(Lost) /\ Cardinality(Lost) <= faults

IInv ==
    /\ TypeOK
    /\ OpInPlace
    /\ WorkInPlace
    /\ FilesInPlace
    /\ HeldExclusively
    /\ OneKeptPerFingerprint
    /\ FewLost

(***************************************************************************)
(* The queue as EventQueue promises it: where each event is, and how often *)
(* it has been retried.                                                    *)
(***************************************************************************)

InOp(e, steps) == op.event = e /\ op.step \in steps

PlaceOf(e) ==
    IF pushed[e] = "new" \/ pushed[e] = "refused" \/ pushed[e] = "rejected" THEN pushed[e]
    ELSE IF e \in Readable("pending") THEN "pending"
    ELSE IF e \in Readable("processing") \/ InOp(e, {"popWrite", "failOpen", "failWrite"})
         THEN "processing"
    ELSE IF e \in Readable("completed") THEN "completed"
    ELSE IF e \in Readable("dlq")
         THEN IF disk["dlq"][e].status = "failed" THEN "dead" ELSE "unread"
    ELSE "lost"

TriesOf(e) ==
    IF InOp(e, {"popWrite", "failOpen", "failWrite"}) THEN op.retries
    ELSE IF PlaceOf(e) = "pending" THEN disk["pending"][e].retries
    ELSE IF PlaceOf(e) = "processing" THEN disk["processing"][e].retries
    ELSE IF PlaceOf(e) = "completed" THEN disk["completed"][e].retries
    ELSE IF PlaceOf(e) \in {"dead", "unread"} THEN disk["dlq"][e].retries
    ELSE 0

Promise == INSTANCE EventQueue WITH
    place <- [e \in Events |-> PlaceOf(e)],
    tries <- [e \in Events |-> TriesOf(e)],
    recent <- {e \in fresh : PlaceOf(e) = "completed"},
    unseen <- {e \in missed : pushed[e] = "accepted"}

\* The file queue does what the trait promises: it refuses duplicates only, and
\* accepts none but where its search failed, hands out by priority, counts
\* retries, buries an event only after the last one, and loses one only if it was
\* handed out when something failed.
KeepsPromise == Promise!QueueSpec

=============================================================================
