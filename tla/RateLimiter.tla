----------------------------- MODULE RateLimiter -----------------------------
(***************************************************************************)
(* The sliding-window rate limiter of the trigger filter (RateLimiter,     *)
(* codes/server/src/event/trigger.rs): for each kind of action a queue of  *)
(* the times at which it was allowed, shared by all the clones.            *)
(*                                                                         *)
(* A call reads the clock before it takes the mutex, so the times in the   *)
(* queue need not be in order: another call may read a later time and take *)
(* the mutex first.  The clock is counted in steps; MaxDelay bounds how    *)
(* many pass between the two in one call.                                  *)
(***************************************************************************)
EXTENDS Naturals, Sequences, FiniteSets

CONSTANTS
    Actions,   \* kinds of action (RateLimitAction)
    Limit,     \* how many of each are allowed
    Window,    \* in how long (window_duration)
    Callers,   \* concurrent calls of try_acquire
    MaxDelay,  \* bound on the time a call takes to get the mutex
    MaxTime    \* bound on the clock

ASSUME LimiterAssumption ==
    /\ Limit \in [Actions -> Nat]
    /\ Window \in [Actions -> Nat]
    /\ MaxDelay \in Nat /\ MaxTime \in Nat

VARIABLES
    clock,    \* Instant::now()
    windows,  \* the times of each kind of action, front first
    calls,    \* the calls that have read the clock: {} or the time and action
    granted   \* when each kind was allowed, in real time (history)

vars == <<clock, windows, calls, granted>>

Times == 0..MaxTime

TypeOK ==
    /\ clock \in Times
    /\ windows \in [Actions -> Seq(Times)]
    /\ \A a \in Actions : Len(windows[a]) <= Limit[a]
    /\ calls \in [Callers -> SUBSET [now : Times, action : Actions]]
    /\ \A c \in Callers : Cardinality(calls[c]) <= 1
    /\ granted \in [Actions -> Seq(Times)]

Init ==
    /\ clock = 0
    /\ windows = [a \in Actions |-> <<>>]
    /\ calls = [c \in Callers |-> {}]
    /\ granted = [a \in Actions |-> <<>>]

-----------------------------------------------------------------------------

\* Instant::duration_since saturates at zero.
Elapsed(now, time) == IF now > time THEN now - time ELSE 0

\* Mutant: an entry leaves one step early.
Expired_Early(a, now, time) == Elapsed(now, time) + 1 >= Window[a]

\* Mutant: an entry leaves one step late.
Expired_Late(a, now, time) == Elapsed(now, time) > Window[a]

Expired(a, now, time) == Elapsed(now, time) >= Window[a]

\* What the cleanup leaves: entries are dropped from the front, up to the
\* first that has not expired.
Cleaned(a, now) ==
    LET kept == {i \in DOMAIN windows[a] : ~Expired(a, now, windows[a][i])}
    IN  IF kept = {} THEN <<>>
        ELSE SubSeq(windows[a], CHOOSE i \in kept : \A j \in kept : i <= j, Len(windows[a]))

HasRoom(a, now) == Len(Cleaned(a, now)) < Limit[a]

\* Entries in the window, as check, current_count and remaining count them.
Current(a, now) == Cardinality({i \in DOMAIN windows[a] : ~Expired(a, now, windows[a][i])})

Check(a, now) == Current(a, now) < Limit[a]

-----------------------------------------------------------------------------

\* try_acquire up to the mutex.
ReadClock(c, a) ==
    /\ calls[c] = {}
    /\ calls' = [calls EXCEPT ![c] = {[now |-> clock, action |-> a]}]
    /\ UNCHANGED <<clock, windows, granted>>

\* try_acquire under the mutex.
Acquire(c) ==
    \E call \in calls[c] :
        LET a == call.action
        IN  /\ IF HasRoom(a, call.now)
               THEN /\ windows' = [windows EXCEPT ![a] = Append(Cleaned(a, call.now), call.now)]
                    /\ granted' = [granted EXCEPT ![a] = Append(granted[a], clock)]
               ELSE /\ windows' = [windows EXCEPT ![a] = Cleaned(a, call.now)]
                    /\ UNCHANGED granted
            /\ calls' = [calls EXCEPT ![c] = {}]
            /\ UNCHANGED clock

\* All the counters start again; so does what is counted.
Reset ==
    /\ windows' = [a \in Actions |-> <<>>]
    /\ granted' = [a \in Actions |-> <<>>]
    /\ UNCHANGED <<clock, calls>>

Tick ==
    /\ clock < MaxTime
    /\ \A c \in Callers : \A call \in calls[c] : clock - call.now < MaxDelay
    /\ clock' = clock + 1
    /\ UNCHANGED <<windows, calls, granted>>

Next ==
    \/ \E c \in Callers, a \in Actions : ReadClock(c, a)
    \/ \E c \in Callers : Acquire(c)
    \/ Reset
    \/ Tick

Spec == Init /\ [][Next]_vars

-----------------------------------------------------------------------------
(***************************************************************************)
(* Properties                                                              *)
(***************************************************************************)

\* In any stretch of real time as long as the window, less the time a call may
\* wait for the mutex, an action is allowed at most Limit times: the times
\* out of order in the queue make try_acquire no more generous than that.
LimitHeld ==
    \A a \in Actions : \A start \in Times :
        Cardinality({i \in DOMAIN granted[a] :
                        start <= granted[a][i] /\ granted[a][i] + MaxDelay < start + Window[a]})
            <= Limit[a]

\* A call is refused only when Limit actions are in the window, or left it no
\* longer ago than a call may wait: an entry that has expired behind one that
\* has not is the only room it does not see (the cleanup stops at the first).
RefusedOnlyWhenBusy ==
    \A c \in Callers : \A call \in calls[c] :
        LET a == call.action
        IN  ~HasRoom(a, call.now) =>
                Cardinality({i \in DOMAIN windows[a] :
                                Elapsed(call.now, windows[a][i]) < Window[a] + MaxDelay})
                    >= Limit[a]

InOrder(a) ==
    \A i, j \in DOMAIN windows[a] : i <= j => windows[a][i] <= windows[a][j]

\* check tells what try_acquire would answer at the same time, although the
\* two count differently, as long as the times in the queue are in order.
CheckAgreesInOrder ==
    \A c \in Callers : \A call \in calls[c] :
        InOrder(call.action) => (Check(call.action, call.now) <=> HasRoom(call.action, call.now))

\* The inductive invariant.  No call waits longer than MaxDelay for the mutex,
\* and real time goes forward.
ReadingsRecent ==
    \A c \in Callers : \A call \in calls[c] :
        call.now <= clock /\ clock <= call.now + MaxDelay

GrantedInOrder ==
    \A a \in Actions :
        /\ \A i \in DOMAIN granted[a] : granted[a][i] <= clock
        /\ \A i, j \in DOMAIN granted[a] : i <= j => granted[a][i] <= granted[a][j]

\* How many grants have left the queue.
Dropped(a) == Len(granted[a]) - Len(windows[a])

\* The queue has the last grants, each with a time that was read at most
\* MaxDelay before it; a grant that has left it is nearly a window old.
QueueOfLastGrants ==
    \A a \in Actions :
        /\ Dropped(a) >= 0
        /\ \A i \in DOMAIN windows[a] :
             /\ windows[a][i] <= granted[a][Dropped(a) + i]
             /\ granted[a][Dropped(a) + i] <= windows[a][i] + MaxDelay
        /\ \A k \in 1..Dropped(a) : granted[a][k] + Window[a] <= clock + MaxDelay

\* The grant Limit places further is nearly a window later.
GrantsApart ==
    \A a \in Actions : \A i, j \in DOMAIN granted[a] :
        i + Limit[a] <= j => granted[a][i] + Window[a] <= granted[a][j] + MaxDelay

IInv ==
    /\ TypeOK
    /\ ReadingsRecent
    /\ GrantedInOrder
    /\ QueueOfLastGrants
    /\ GrantsApart

=============================================================================
