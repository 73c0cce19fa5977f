----------------------------- MODULE LogWatcher -----------------------------
(***************************************************************************)
(* The watcher that turns ERROR lines of the server's log into events      *)
(* (codes/server/src/monitoring/log_watcher.rs).                           *)
(*                                                                         *)
(* The log has a file for each day.  The watcher keeps two files of its    *)
(* own for a day: the number of the last line it has parsed, and when it   *)
(* last alerted each fingerprint.  Both are written by truncating them     *)
(* first.  watch() reads everything it needs, writes the position, writes  *)
(* the alerts and only then hands its events to the caller, who pushes     *)
(* them; a write may fail and the process may die anywhere in between.     *)
(* The read of the alerts may fail and is then passed over; after any      *)
(* other read that fails the poll ends where it is.                        *)
(* A line may be read while it is being written: it does not parse yet.    *)
(* Lines are numbered in the order they are written.                       *)
(***************************************************************************)
EXTENDS Integers, Sequences, FiniteSets, FiniteSetsExt

CONSTANTS
    Fingerprints,   \* error code and target of the ERROR lines
    DedupWindow,    \* dedup_window_secs
    MaxLines,       \* bound: lines that are written
    MaxClock,       \* bound: the clock
    MaxDay,         \* bound: days that begin
    MaxFaults,      \* bound: reads and writes that fail, crashes
    MaxRotations,   \* bound: log files that are truncated
    Unset           \* no file, no time, no line

ASSUME WatcherAssumption ==
    /\ DedupWindow \in Nat \ {0}
    /\ {MaxLines, MaxClock, MaxDay, MaxFaults, MaxRotations} \subseteq Nat
    /\ Unset \notin Int \union Fingerprints \union {"info", "noise"} \union [at : Nat, on : Nat, after : Nat]
    /\ {"info", "noise"} \intersect Fingerprints = {}

Lines == 1..MaxLines
Days == 0..MaxDay
Clock == 0..MaxClock

\* A file that was truncated and not written: it is no number.
Torn == -1

VARIABLES
    today,      \* the date in UTC
    now,        \* the clock
    log,        \* the lines of each day's file
    kind,       \* the fingerprint of an ERROR line, "info" or "noise"
    partial,    \* the line that is being written
    position,   \* log-watcher-state of each day
    alerted,    \* log-watcher-dedup of each day
    pc,         \* where watch() is
    day,        \* the day it began on
    upTo,       \* new_line_count
    cache,      \* dedup_cache
    events,     \* the lines it has made events of
    skipped,    \* the ERROR lines it has left out as duplicates
    seen,       \* history: the time and the day of the decision on a line,
                \* and the faults before it
    told,       \* history: lines whose event the caller has
    muted,      \* history: lines left out as duplicates by a watch() that ended
    lost,       \* history: lines decided on by a watch() that a fault ended
    faults,     \* reads and writes that have failed, crashes
    rotations,  \* log files truncated so far
    rotated,    \* history: truncated since the file was last read
    blind       \* history: a truncation that could not be noticed

logVars == <<today, now, log, kind, partial, rotations>>
fileVars == <<position, alerted>>
runVars == <<day, upTo, cache, events, skipped>>
historyVars == <<seen, told, muted, lost, rotated, blind>>
watcherVars == <<logVars, fileVars, pc, runVars, historyVars, faults>>

Stages == {"idle", "writeReset", "read", "openPosition", "writePosition",
           "openAlerts", "writeAlerts", "push"}
AlertTimes == Clock \union {Unset}

WatcherTypeOK ==
    /\ today \in Days /\ now \in Clock
    /\ log \in [Days -> Seq(Lines)]
    /\ kind \in [Lines -> Fingerprints \union {"info", "noise", Unset}]
    /\ partial \in Lines \union {Unset}
    /\ position \in [Days -> 0..MaxLines \union {Torn, Unset}]
    /\ alerted \in [Days -> [Fingerprints -> AlertTimes]]
    /\ pc \in Stages
    /\ day \in Days /\ upTo \in 0..MaxLines
    /\ cache \in [Fingerprints -> AlertTimes]
    /\ events \subseteq Lines /\ skipped \subseteq Lines
    /\ seen \in [Lines -> [at : Clock, on : Days, after : 0..MaxFaults] \union {Unset}]
    /\ told \subseteq Lines /\ muted \subseteq Lines /\ lost \subseteq Lines
    /\ faults \in 0..MaxFaults /\ rotations \in 0..MaxRotations
    /\ rotated \in BOOLEAN /\ blind \in BOOLEAN

Never == [f \in Fingerprints |-> Unset]

WatcherInit ==
    /\ today = 0 /\ now = 0
    /\ log = [d \in Days |-> <<>>]
    /\ kind = [l \in Lines |-> Unset]
    /\ partial = Unset
    /\ position = [d \in Days |-> Unset]
    /\ alerted = [d \in Days |-> Never]
    /\ pc = "idle"
    /\ day = 0 /\ upTo = 0
    /\ cache = Never
    /\ events = {} /\ skipped = {}
    /\ seen = [l \in Lines |-> Unset]
    /\ told = {} /\ muted = {} /\ lost = {}
    /\ faults = 0 /\ rotations = 0
    /\ rotated = FALSE /\ blind = FALSE

-----------------------------------------------------------------------------
(***************************************************************************)
(* The log                                                                 *)
(***************************************************************************)

Written == {l \in Lines : kind[l] # Unset}

\* A line is begun, and finished when the next poll may already have come.
BeginLine(k) ==
    /\ partial = Unset
    /\ Cardinality(Written) < MaxLines
    /\ partial' = Cardinality(Written) + 1
    /\ kind' = [kind EXCEPT ![partial'] = k]
    /\ log' = [log EXCEPT ![today] = Append(@, partial')]
    /\ UNCHANGED <<today, now, rotations, fileVars, pc, runVars, historyVars, faults>>

FinishLine ==
    /\ partial # Unset
    /\ partial' = Unset
    /\ UNCHANGED <<today, now, log, kind, rotations, fileVars, pc, runVars, historyVars, faults>>

Rotate ==
    /\ rotations < MaxRotations
    /\ partial = Unset
    /\ log[today] # <<>>
    /\ rotations' = rotations + 1
    /\ log' = [log EXCEPT ![today] = <<>>]
    /\ rotated' = TRUE
    /\ UNCHANGED <<today, now, kind, partial, fileVars, pc, runVars, seen, told, muted, lost, blind, faults>>

TimePasses ==
    /\ now < MaxClock
    /\ now' = now + 1
    /\ UNCHANGED <<today, log, kind, partial, rotations, fileVars, pc, runVars, historyVars, faults>>

Midnight ==
    /\ today < MaxDay
    /\ partial = Unset
    /\ today' = today + 1
    /\ rotated' = FALSE
    /\ UNCHANGED <<now, log, kind, partial, rotations, fileVars, pc, runVars, seen, told, muted, lost, blind, faults>>

(***************************************************************************)
(* watch                                                                   *)
(***************************************************************************)

\* get_last_line_number: without a file it is zero.
LastLine(d) == IF position[d] = Unset THEN 0 ELSE position[d]

\* Mutant: a file that has become shorter is not noticed.
Shorter_Unnoticed(d) == FALSE

\* The file has fewer lines than were read: it was truncated.
Shorter(d) == Len(log[d]) < LastLine(d)

\* parse_log_entry accepts the line.
Parses(l) == kind[l] # "noise" /\ l # partial

\* read_new_entries: the numbers of the lines of the file that parse.
NewEntries(d) == {i \in LastLine(d) + 1..Len(log[d]) : Parses(log[d][i])}

IsError(l) == kind[l] \in Fingerprints

\* Mutant: what is stored of an alert is not read again.
Fresh_None(stored) == [f \in Fingerprints |-> Unset]

\* load_dedup_cache and save_dedup_cache keep what is within the window.
Fresh(stored) ==
    [f \in Fingerprints |->
        IF stored[f] # Unset /\ now - stored[f] < DedupWindow THEN stored[f] ELSE Unset]

\* Which of the error lines become events: the first of its fingerprint, when
\* the last alert of the fingerprint is out of the window.
Alerting(d, loaded) ==
    {i \in NewEntries(d) :
        /\ IsError(log[d][i])
        /\ loaded[kind[log[d][i]]] = Unset
        /\ \A j \in NewEntries(d) : kind[log[d][j]] = kind[log[d][i]] => j >= i}

\* Mutant: a duplicate renews the time of its fingerprint.
RenewedBy_All(d, loaded) == {kind[log[d][i]] : i \in NewEntries(d)}

\* update_dedup_cache is called for the lines that become events.
RenewedBy(d, loaded) == {kind[log[d][i]] : i \in Alerting(d, loaded)}

\* new_line_count: the last line that parses.
ReadUpTo(d) == Max(NewEntries(d))

\* The file is shorter than the position says: the position is set back before
\* anything is read.
BeginReset ==
    /\ pc = "idle"
    /\ position[today] # Torn
    /\ Shorter(today)
    /\ day' = today
    /\ position' = [position EXCEPT ![today] = Torn]
    /\ pc' = "writeReset"
    /\ UNCHANGED <<logVars, alerted, upTo, cache, events, skipped, historyVars, faults>>

WriteReset ==
    /\ pc = "writeReset"
    /\ position' = [position EXCEPT ![day] = 0]
    /\ pc' = "read"
    /\ UNCHANGED <<logVars, alerted, runVars, historyVars, faults>>

\* load_dedup_cache: when the file cannot be read it starts with nothing.
Loaded(d, unread) == IF unread THEN Never ELSE Fresh(alerted[d])

\* The new lines are read and decided on.
Decide(d, unread) ==
    /\ NewEntries(d) # {}
    /\ unread => faults < MaxFaults
    /\ faults' = IF unread THEN faults + 1 ELSE faults
    /\ LET loaded == Loaded(d, unread)
           alerting == Alerting(d, loaded)
           errors == {i \in NewEntries(d) : IsError(log[d][i])}
       IN  /\ events' = {log[d][i] : i \in alerting}
           /\ skipped' = {log[d][i] : i \in errors \ alerting}
           /\ seen' = [l \in Lines |-> IF l \in {log[d][i] : i \in errors}
                                       THEN [at |-> now, on |-> d, after |-> faults'] ELSE seen[l]]
           /\ cache' = [f \in Fingerprints |->
                          IF f \in RenewedBy(d, loaded) THEN now ELSE loaded[f]]
    /\ upTo' = ReadUpTo(d)
    /\ day' = d
    /\ pc' = "openPosition"
    /\ rotated' = (rotated /\ d # today)

\* A truncated file is as long again as what was read of it before.
Overgrown == rotated /\ 0 < LastLine(today) /\ LastLine(today) <= Len(log[today])

\* Everything up to the first write, when there is something to write.
Watch(unread) ==
    /\ pc = "idle"
    /\ position[today] # Torn
    /\ ~Shorter(today)
    /\ Decide(today, unread)
    /\ blind' = (blind \/ Overgrown)
    /\ UNCHANGED <<logVars, fileVars, told, muted, lost>>

\* The same after the position was set back.
WatchFromStart(unread) ==
    /\ pc = "read"
    /\ Decide(day, unread)
    /\ UNCHANGED <<logVars, fileVars, told, muted, lost, blind>>

\* Nothing is new: watch() changes nothing, but has looked at the file.
WatchIdle ==
    /\ pc = "idle"
    /\ position[today] # Torn
    /\ ~Shorter(today)
    /\ NewEntries(today) = {}
    /\ blind' = (blind \/ Overgrown)
    /\ rotated' = FALSE
    /\ UNCHANGED <<logVars, fileVars, pc, runVars, seen, told, muted, lost, faults>>

\* Nothing parses: watch() ends with the position at zero.
WatchNothing ==
    /\ pc = "read"
    /\ NewEntries(day) = {}
    /\ pc' = "idle"
    /\ rotated' = (rotated /\ day # today)
    /\ UNCHANGED <<logVars, fileVars, runVars, seen, told, muted, lost, blind, faults>>

OpenPosition ==
    /\ pc = "openPosition"
    /\ position' = [position EXCEPT ![day] = Torn]
    /\ pc' = "writePosition"
    /\ UNCHANGED <<logVars, alerted, runVars, historyVars, faults>>

WritePosition ==
    /\ pc = "writePosition"
    /\ position' = [position EXCEPT ![day] = upTo]
    /\ pc' = "openAlerts"
    /\ UNCHANGED <<logVars, alerted, runVars, historyVars, faults>>

OpenAlerts ==
    /\ pc = "openAlerts"
    /\ alerted' = [alerted EXCEPT ![day] = Never]
    /\ pc' = "writeAlerts"
    /\ UNCHANGED <<logVars, position, runVars, historyVars, faults>>

WriteAlerts ==
    /\ pc = "writeAlerts"
    /\ alerted' = [alerted EXCEPT ![day] = Fresh(cache)]
    /\ pc' = "push"
    /\ UNCHANGED <<logVars, position, runVars, historyVars, faults>>

\* watch() returns and the caller pushes the events.
Push ==
    /\ pc = "push"
    /\ told' = told \union events
    /\ muted' = muted \union skipped
    /\ events' = {} /\ skipped' = {}
    /\ pc' = "idle"
    /\ UNCHANGED <<logVars, fileVars, day, upTo, cache, seen, lost, rotated, blind, faults>>

\* The read of the log after the position was set back, an open or a write
\* fails and watch() returns the error without its events, or the process
\* dies; of the alerts any part may have been written.  Lines whose poll has
\* not touched the position are read again, as if they had never been decided on.
Fault ==
    /\ pc # "idle"
    /\ faults < MaxFaults
    /\ faults' = faults + 1
    /\ pc' = "idle"
    /\ events' = {} /\ skipped' = {}
    /\ LET decided == events \union skipped
       IN  IF pc = "openPosition"
           THEN /\ seen' = [l \in Lines |-> IF l \in decided THEN Unset ELSE seen[l]]
                /\ UNCHANGED lost
           ELSE /\ lost' = lost \union decided
                /\ UNCHANGED seen
    /\ \/ UNCHANGED alerted
       \/ /\ pc = "writeAlerts"
          /\ \E kept \in SUBSET Fingerprints :
                alerted' = [alerted EXCEPT ![day] =
                   [f \in Fingerprints |-> IF f \in kept THEN Fresh(cache)[f] ELSE Unset]]
    /\ UNCHANGED <<logVars, position, day, upTo, cache, told, muted, rotated, blind>>

\* cleanup_old_state_files: the files of the days before are removed.
Cleanup ==
    /\ pc = "idle"
    /\ position' = [d \in Days |-> IF d < today THEN Unset ELSE position[d]]
    /\ alerted' = [d \in Days |-> IF d < today THEN Never ELSE alerted[d]]
    /\ UNCHANGED <<logVars, pc, runVars, historyVars, faults>>

WatcherNext ==
    \/ \E k \in Fingerprints \union {"info", "noise"} : BeginLine(k)
    \/ FinishLine \/ Rotate \/ TimePasses \/ Midnight
    \/ BeginReset \/ WriteReset
    \/ \E unread \in BOOLEAN : Watch(unread) \/ WatchFromStart(unread)
    \/ WatchIdle \/ WatchNothing
    \/ OpenPosition \/ WritePosition \/ OpenAlerts \/ WriteAlerts \/ Push
    \/ Fault \/ Cleanup

WatcherSpec == WatcherInit /\ [][WatcherNext]_watcherVars

-----------------------------------------------------------------------------
(***************************************************************************)
(* Properties                                                              *)
(***************************************************************************)

\* The lines of a day that the saved position says are dealt with.
Passed(d) ==
    {log[d][i] : i \in {j \in 1..Len(log[d]) : position[d] # Unset /\ j <= position[d]}}

\* No error line is passed over: once watch() is back, each one up to the saved
\* position was pushed or is a duplicate, also one that was half written when
\* it was first read, and also after a truncation that could be noticed.  A
\* crash or a failed write loses the lines its own poll had decided on, and
\* those only when the poll had begun to write the position; no other line
\* is lost by it (watch: last_line, new_line_count, the check for rotation, the
\* position written before the events are returned).
NoErrorMissed ==
    pc = "idle" /\ ~blind /\ ~rotated =>
        \A l \in Passed(today) : IsError(l) => l \in told \union muted \union lost

\* The event of a fingerprint that silences a line.
Silences(e, l) ==
    /\ kind[e] = kind[l]
    /\ seen[e].at <= seen[l].at /\ seen[l].at - seen[e].at < DedupWindow

\* A duplicate does not prolong the silence: what is left out has an event of
\* its fingerprint that is less than a window older.  The event was pushed, or
\* lost with its poll: it silences its fingerprint all the same, whatever part of
\* the alerts was written (should_alert, update_dedup_cache).
MutedByAlert ==
    \A l \in muted : \E e \in told \union lost : Silences(e, l)

\* Two events of one fingerprint and one day with no fault from the first
\* decision to the second.
Repeats(e, l) ==
    /\ e # l
    /\ kind[e] = kind[l]
    /\ seen[e].on = seen[l].on
    /\ seen[e].after = seen[l].after

Apart(e, l) ==
    \/ seen[e].at - seen[l].at >= DedupWindow
    \/ seen[l].at - seen[e].at >= DedupWindow

\* Nobody is told twice of one fingerprint within a window, as far as one day's
\* file goes, unless between the two an alert could not be read or written or
\* the watcher died; when that happened once, the rule holds again from the next
\* alert on (load_dedup_cache, save_dedup_cache).
NoEarlyRepeat ==
    \A e, l \in told : Repeats(e, l) => Apart(e, l)

(***************************************************************************)
(* The inductive invariant                                                 *)
(***************************************************************************)

\* Lines are written one after the other, each into one file; the one that is
\* being written is the last of today's file.
LogInOrder ==
    /\ \E n \in 0..MaxLines : Written = 1..n
    /\ \A d \in Days : \A i \in DOMAIN log[d] : log[d][i] \in Written /\ i <= log[d][i]
    /\ \A c, d \in Days : \A i \in DOMAIN log[c], j \in DOMAIN log[d] :
          log[c][i] = log[d][j] => c = d /\ i = j
    /\ \A d \in Days : d > today => log[d] = <<>>
    /\ partial # Unset =>
          /\ partial \in Written
          /\ log[today] # <<>> /\ partial = log[today][Len(log[today])]

\* What is decided on are error lines.
DecidedErrors ==
    /\ \A l \in Lines : seen[l] # Unset =>
          IsError(l) /\ seen[l].at <= now /\ seen[l].on <= day /\ seen[l].after <= faults
    /\ \A l \in told \union muted \union lost \union events \union skipped : seen[l] # Unset

\* watch() has decided and has not handed over its events.
Deciding == pc \in {"openPosition", "writePosition", "openAlerts", "writeAlerts", "push"}

\* The file of the day counts: it is being watched, or will be.
Watched == pc # "idle" \/ day = today

\* How far the file of the day is dealt with.
Mark == IF Deciding THEN upTo ELSE IF pc = "idle" THEN LastLine(day) ELSE 0

\* When each fingerprint was last alerted on the day.
Memory == IF Deciding /\ pc # "push" THEN cache ELSE alerted[day]

\* The files of watch() go with the day it is at; of later days it has none.
FilesOfDay ==
    /\ day <= today
    /\ pc = "read" => position[day] = 0
    /\ pc \in {"writeReset", "writePosition"} => position[day] = Torn
    /\ pc = "openPosition" => position[day] # Torn /\ LastLine(day) <= upTo
    /\ pc \in {"openAlerts", "writeAlerts", "push"} => position[day] = upTo
    /\ \A d \in Days : d > day =>
          /\ position[d] = Unset /\ alerted[d] = Never
          /\ \A i \in DOMAIN log[d] : seen[log[d][i]] = Unset

\* No line is decided on twice: those beyond the mark have not been, and none
\* of the file has when it is shorter than the mark.
UndecidedBeyond ==
    Watched /\ Mark # Torn =>
        \A i \in DOMAIN log[day] : i > Mark \/ Len(log[day]) < Mark => seen[log[day][i]] = Unset

\* Up to the mark every error line was an event or a duplicate, unless the file
\* was truncated.
DealtWith ==
    ~blind /\ ~rotated /\ day = today =>
        /\ Mark <= Len(log[day])
        /\ \A i \in 1..Mark : IsError(log[day][i]) =>
              log[day][i] \in told \union muted \union lost \union events \union skipped

\* What watch() decided before it is with its caller, or lost.
HandedOver == ~Deciding => events = {} /\ skipped = {}

\* What watch() is deciding on is decided on for the first time, and up to the
\* first write it is what was beyond the saved position.
DecidedNow ==
    /\ (events \union skipped) \intersect (told \union muted \union lost) = {}
    /\ pc = "openPosition" =>
          \A i \in DOMAIN log[day] : seen[log[day][i]] # Unset =>
              (log[day][i] \in events \union skipped <=> i > LastLine(day))

\* A time in the files or in the cache is that of an event.
AlertsOfEvents ==
    /\ \A d \in Days : \A f \in Fingerprints : alerted[d][f] # Unset =>
          \E e \in told \union lost \union events :
              (e \in events => pc = "push") /\ kind[e] = f /\ seen[e].at = alerted[d][f]
    /\ Deciding => \A f \in Fingerprints : cache[f] # Unset =>
          \E e \in told \union lost \union events : kind[e] = f /\ seen[e].at = cache[f]

SkippedByAlert == \A l \in skipped : \E e \in told \union lost \union events : Silences(e, l)

\* An event is remembered for a window, unless there was a fault since.
EventsRemembered ==
    Watched =>
        \A e \in told \union events :
            seen[e].on = day /\ seen[e].after = faults /\ now - seen[e].at < DedupWindow =>
                Memory[kind[e]] # Unset /\ seen[e].at <= Memory[kind[e]]

EventsApart == \A e, l \in told \union events : Repeats(e, l) => Apart(e, l)

WatcherIInv ==
    /\ WatcherTypeOK
    /\ LogInOrder
    /\ DecidedErrors
    /\ FilesOfDay
    /\ UndecidedBeyond
    /\ DealtWith
    /\ HandedOver
    /\ DecidedNow
    /\ AlertsOfEvents
    /\ MutedByAlert
    /\ SkippedByAlert
    /\ EventsRemembered
    /\ EventsApart

=============================================================================
