--------------------------- MODULE EventQueueProofs ---------------------------
(***************************************************************************)
(* The file queue keeps its invariants, and implements EventQueue, for any *)
(* events, workers, priorities, fingerprints, retries and number of        *)
(* faults; and the processors, which use it as it asks, account for every  *)
(* attempt to tell Discord.                                                *)
(***************************************************************************)
EXTENDS EventProcessor, TLAPS, FiniteSetTheorems

Files == Contents \union {Absent, Torn}

\* A step changes the files of one event only.
Elsewhere(e) ==
    \A f \in Events \ {e} :
        /\ \A d \in Dirs : disk'[d][f] = disk[d][f]
        /\ pushed'[f] = pushed[f]
        /\ f \in fresh' <=> f \in fresh

\* At most that event, not pushed yet, becomes one whose duplicate was missed.
Notes(e) == missed' = missed \/ (missed' = missed \union {e} /\ pushed'[e] = "new")

\* It is about that event and is of one worker, if any.
Touches(e, w) ==
    /\ Elsewhere(e)
    /\ Notes(e)
    /\ op.event \in {e, None} /\ op'.event \in {e, None}
    /\ op.by \in {w, None} /\ op'.by \in {w, None}
    /\ \A v \in Workers \ {w} : work'[v] = work[v] /\ work[v].event # e

\* The files of one event.
FilesOf(e, p, r, c, q) ==
    /\ disk["pending"][e] = p
    /\ disk["processing"][e] = r
    /\ disk["completed"][e] = c
    /\ disk["dlq"][e] = q

LEMMA WriteFacts ==
    ASSUME TypeOK, NEW d \in Dirs, NEW e \in Events, NEW x \in Files, Write(d, e, x)
    PROVE  /\ disk' \in [Dirs -> [Events -> Files]]
           /\ disk'[d][e] = x
           /\ \A c \in Dirs, f \in Events : c # d \/ f # e => disk'[c][f] = disk[c][f]
BY DEF TypeOK, Write, Files

LEMMA RenameFacts ==
    ASSUME TypeOK, NEW c \in Dirs, NEW d \in Dirs, c # d, NEW e \in Events, Rename(c, d, e)
    PROVE  /\ disk' \in [Dirs -> [Events -> Files]]
           /\ disk'[c][e] = Absent /\ disk'[d][e] = disk[c][e]
           /\ \A b \in Dirs, f \in Events : b \notin {c, d} \/ f # e => disk'[b][f] = disk[b][f]
<1>1. disk \in [Dirs -> [Events -> Files]] /\ disk[c][e] \in Files /\ Absent \in Files
  BY DEF TypeOK, Files
<1> DEFINE half == [disk EXCEPT ![c][e] = Absent]
<1>2. /\ half \in [Dirs -> [Events -> Files]] /\ half[c][e] = Absent
      /\ \A b \in Dirs, f \in Events : b # c \/ f # e => half[b][f] = disk[b][f]
  BY <1>1
<1>3. disk' = [half EXCEPT ![d][e] = disk[c][e]]
  BY <1>1 DEF Rename
<1> HIDE DEF half
<1> QED
  BY <1>1, <1>2, <1>3

LEMMA ElsewhereKept ==
    ASSUME None \notin Events, NEW e \in Events, Elsewhere(e),
           op.event \in {e, None}, op'.event \in {e, None}
    PROVE  \A f \in Events \ {e} :
              /\ \A d \in Dirs : f \in Readable(d)' <=> f \in Readable(d)
              /\ f \in Kept' <=> f \in Kept
              /\ f \in Lost' <=> f \in Lost
<1> TAKE f \in Events \ {e}
<1>1. \A d \in Dirs : f \in Readable(d)' <=> f \in Readable(d)
  BY DEF Elsewhere, Readable
<1>2. f \in Live' <=> f \in Live
  BY <1>1 DEF Live, Elsewhere, Dirs
<1>3. f \in Kept' <=> f \in Kept
  BY <1>2 DEF Kept
<1>4. f \in Lost' <=> f \in Lost
  BY <1>1 DEF Lost, Elsewhere
<1> QED
  BY <1>1, <1>3, <1>4

LEMMA FilesElsewhere ==
    ASSUME None \notin Events, FilesInPlace, NEW e \in Events, Elsewhere(e),
           op.event \in {e, None}, op'.event \in {e, None},
           \A w \in Workers, f \in Events \ {e} : work'[w].event = f => work[w].event = f,
           InPlace(e)', Waiting(e)' => e \notin Readable("completed")' \union Readable("dlq")'
    PROVE  FilesInPlace'
<1>1. ASSUME NEW f \in Events \ {e}
      PROVE  /\ InPlace(f)'
             /\ Waiting(f)' => f \notin Readable("completed")' \union Readable("dlq")'
  <2>1. \A d \in Dirs : f \in Readable(d)' <=> f \in Readable(d)
    BY ElsewhereKept
  <2>2. InPlace(f)'
    BY <2>1 DEF FilesInPlace, InPlace, Elsewhere, Dirs
  <2>3. Waiting(f)' => Waiting(f)
    BY DEF Waiting, Elsewhere, Dirs
  <2> QED
    BY <2>1, <2>2, <2>3 DEF FilesInPlace, Dirs
<1> QED
  BY <1>1 DEF FilesInPlace

\* The invariants about all events, from what becomes of one.
LEMMA LostKept ==
    ASSUME FewLost, faults \in Nat, faults' = faults, Lost' \subseteq Lost
    PROVE  FewLost'
<1>1. IsFiniteSet(Lost) /\ Cardinality(Lost) <= faults
  BY DEF FewLost
<1>2. IsFiniteSet(Lost') /\ Cardinality(Lost') <= Cardinality(Lost)
  <2>1. Lost' \in SUBSET Lost
    OBVIOUS
  <2> HIDE DEF Lost
  <2> QED
    BY <1>1, <2>1, FS_Subset
<1>3. Cardinality(Lost) \in Nat /\ Cardinality(Lost') \in Nat
  BY <1>1, <1>2, FS_CardinalityType
<1> QED
  BY <1>1, <1>2, <1>3 DEF FewLost

LEMMA OneMoreLost ==
    ASSUME FewLost, faults \in Nat, faults' = faults + 1, NEW e, Lost' \subseteq Lost \union {e}
    PROVE  FewLost'
<1>1. IsFiniteSet(Lost) /\ Cardinality(Lost) <= faults
  BY DEF FewLost
<1>2. /\ IsFiniteSet(Lost \union {e}) /\ Cardinality(Lost) \in Nat
      /\ Cardinality(Lost \union {e}) = Cardinality(Lost) \/ Cardinality(Lost \union {e}) = Cardinality(Lost) + 1
  BY <1>1, FS_AddElement, FS_CardinalityType
<1>3. IsFiniteSet(Lost') /\ Cardinality(Lost') <= Cardinality(Lost \union {e})
  <2> DEFINE S == Lost \union {e}
  <2>1. Lost' \in SUBSET S /\ IsFiniteSet(S)
    BY <1>2
  <2> HIDE DEF S
  <2>2. IsFiniteSet(Lost') /\ Cardinality(Lost') <= Cardinality(S)
    BY <2>1, FS_Subset
  <2> QED
    BY <2>2 DEF S
<1>4. Cardinality(Lost') \in Nat
  BY <1>3, FS_CardinalityType
<1> QED
  BY <1>1, <1>2, <1>3, <1>4 DEF FewLost

\* What a step about one event has to show.
LEMMA Assemble ==
    ASSUME IInv, TypeOK', OpInPlace', NEW e \in Events, NEW w, Touches(e, w),
           w \in Workers =>
             \/ work'[w] = IdleWork
             \/ /\ work'[w].step # "idle" /\ work'[w].event = e
                /\ op'.by # w =>
                     /\ e \in Readable("processing")'
                     /\ disk'["processing"][e].retries = work'[w].retries
                     /\ disk'["pending"][e] = Absent,
           InPlace(e)', Waiting(e)' => e \notin Readable("completed")' \union Readable("dlq")',
           \/ e \in Kept' => e \in Kept
           \/ e \in missed'
           \/ \A f \in Kept \ {e} : FingerprintOf[f] # FingerprintOf[e],
           \/ faults' = faults /\ (e \in Lost' => e \in Lost)
           \/ faults' = faults + 1
    PROVE  IInv'
<1> USE FileQueueAssumption
<1>1. \A f \in Events \ {e} :
        /\ \A d \in Dirs : f \in Readable(d)' <=> f \in Readable(d)
        /\ (f \in Kept' <=> f \in Kept) /\ (f \in Lost' <=> f \in Lost)
  BY ElsewhereKept DEF Touches
<1>2. WorkInPlace'
  BY DEF IInv, WorkInPlace, Touches, IdleWork
<1>3. FilesInPlace'
  BY FilesElsewhere DEF IInv, Touches, IdleWork
<1>4. HeldExclusively'
  <2> SUFFICES ASSUME NEW v \in Workers, work'[v].step # "idle", op'.by # v
               PROVE  /\ work'[v].event \in Readable("processing")'
                      /\ disk'["processing"][work'[v].event].retries = work'[v].retries
                      /\ disk'["pending"][work'[v].event] = Absent
                      /\ \A u \in Workers \ {v} : work'[u].event # work'[v].event
    BY DEF HeldExclusively
  <2>1. \A u \in Workers \ {v} : work'[u].event # work'[v].event
    BY <1>2 DEF WorkInPlace
  <2>2. CASE v = w
    BY <2>1, <2>2 DEF IdleWork
  <2>3. CASE v # w
    <3>1. /\ work'[v] = work[v] /\ work[v].event # e /\ op.by # v
          /\ work[v].event \in Events
      BY <2>3 DEF Touches, IInv, WorkInPlace
    <3>2. /\ work[v].event \in Readable("processing")
          /\ disk["processing"][work[v].event].retries = work[v].retries
          /\ disk["pending"][work[v].event] = Absent
      BY <3>1 DEF IInv, HeldExclusively
    <3> QED
      BY <1>1, <2>1, <3>1, <3>2 DEF Touches, Notes, Elsewhere, Dirs
  <2> QED
    BY <2>2, <2>3
<1>5. OneKeptPerFingerprint'
  <2>1. Kept' \subseteq Kept \union {e}
    <3>1. Kept' \subseteq Events
      BY DEF Kept, Live, Readable
    <3> QED
      BY <1>1, <3>1
  <2>2. missed \subseteq missed' /\ missed' \subseteq missed \union {e}
    BY DEF Touches, Notes
  <2>3. Kept' \ missed' \subseteq (Kept \ missed) \union {e}
    BY <2>1, <2>2
  <2>4. CASE e \in Kept' => e \in Kept
    <3>1. Kept' \ missed' \subseteq Kept \ missed
      BY <2>2, <2>3, <2>4
    <3> QED
      BY <3>1 DEF IInv, OneKeptPerFingerprint
  <2>5. CASE e \in missed'
    <3>1. Kept' \ missed' \subseteq Kept \ missed
      BY <2>3, <2>5
    <3> QED
      BY <3>1 DEF IInv, OneKeptPerFingerprint
  <2>6. CASE \A f \in Kept \ {e} : FingerprintOf[f] # FingerprintOf[e]
    BY <2>3, <2>6 DEF IInv, OneKeptPerFingerprint
  <2> QED
    BY <2>4, <2>5, <2>6
<1>6. FewLost'
  <2>1. Lost' \subseteq Events /\ faults \in Nat
    BY DEF Lost, IInv, TypeOK
  <2>2. CASE faults' = faults /\ (e \in Lost' => e \in Lost)
    BY <1>1, <2>1, <2>2, LostKept DEF IInv
  <2>3. CASE faults' = faults + 1
    <3>1. Lost' \subseteq Lost \union {e}
      BY <1>1, <2>1
    <3> QED
      BY <2>1, <2>3, <3>1, OneMoreLost DEF IInv
  <2> QED
    BY <2>2, <2>3
<1> QED
  BY <1>2, <1>3, <1>4, <1>5, <1>6 DEF IInv

-----------------------------------------------------------------------------

\* A step of the file queue is a step of EventQueue, or none.
PromiseStep == [Promise!QueueNext]_(Promise!queueVars)

Moves(e, from, to) == PlaceOf(e) = from /\ PlaceOf(e)' = to

OthersStay(e) ==
    /\ Notes(e)
    /\ \A f \in Events \ {e} :
        PlaceOf(f)' = PlaceOf(f) /\ TriesOf(f)' = TriesOf(f) /\ (f \in fresh' <=> f \in fresh)

LEMMA PlaceElsewhere ==
    ASSUME None \notin Events, NEW e \in Events, NEW w, Touches(e, w)
    PROVE  OthersStay(e)
<1> USE DEF Touches
<1> SUFFICES ASSUME NEW f \in Events \ {e}
             PROVE  PlaceOf(f)' = PlaceOf(f) /\ TriesOf(f)' = TriesOf(f) /\ (f \in fresh' <=> f \in fresh)
  BY DEF OthersStay
<1>1. \A d \in Dirs : f \in Readable(d)' <=> f \in Readable(d)
  BY ElsewhereKept
<1>2. \A steps : ~InOp(f, steps) /\ ~InOp(f, steps)'
  BY DEF InOp
<1>3. PlaceOf(f)' = PlaceOf(f)
  BY <1>1, <1>2 DEF PlaceOf, Elsewhere, Dirs
<1>4. TriesOf(f)' = TriesOf(f)
  BY <1>2, <1>3 DEF TriesOf, Elsewhere, Dirs
<1> QED
  BY <1>3, <1>4 DEF Elsewhere

\* What one event does while the others stay.
LEMMA OneEventMoves ==
    ASSUME TypeOK, TypeOK', NEW e \in Events, OthersStay(e),
           \/ /\ PlaceOf(e)' = PlaceOf(e) /\ TriesOf(e)' = TriesOf(e)
              /\ PlaceOf(e) = "completed" => (e \in fresh' <=> e \in fresh)
           \/ /\ PlaceOf(e)' = PlaceOf(e) /\ TriesOf(e)' = TriesOf(e)
              /\ PlaceOf(e) = "completed" /\ e \in fresh /\ e \notin fresh'
           \/ /\ Moves(e, "new", "pending") /\ TriesOf(e)' = TriesOf(e)
              /\ e \in missed \/ ~Promise!Duplicate(e)
           \/ Moves(e, "new", "refused") /\ TriesOf(e)' = TriesOf(e) /\ Promise!Duplicate(e)
           \/ /\ Moves(e, "new", "refused") /\ TriesOf(e)' = TriesOf(e)
              /\ \E f \in Events : PlaceOf(f) = "completed" /\ FingerprintOf[f] = FingerprintOf[e]
           \/ Moves(e, "new", "rejected") /\ TriesOf(e)' = TriesOf(e)
           \/ /\ Moves(e, "pending", "processing") /\ TriesOf(e)' = TriesOf(e)
              /\ \A f \in Events : PlaceOf(f) = "pending" => PriorityOf[e] <= PriorityOf[f]
           \/ Moves(e, "processing", "completed") /\ TriesOf(e)' = TriesOf(e) /\ e \in fresh'
           \/ /\ Moves(e, "processing", "pending")
              /\ TriesOf(e) < MaxRetries /\ TriesOf(e)' = TriesOf(e) + 1
           \/ Moves(e, "processing", "dead") /\ TriesOf(e)' = TriesOf(e) /\ TriesOf(e) = MaxRetries
           \/ Moves(e, "processing", "unread") /\ TriesOf(e)' = TriesOf(e)
           \/ Moves(e, "processing", "lost") /\ TriesOf(e)' = 0
           \/ Moves(e, "processing", "pending") /\ TriesOf(e)' = TriesOf(e)
    PROVE  PromiseStep
<1> DEFINE place == [x \in Events |-> PlaceOf(x)]
           tries == [x \in Events |-> TriesOf(x)]
           recent == {x \in fresh : PlaceOf(x) = "completed"}
           unseen == {x \in missed : pushed[x] = "accepted"}
           unpushed == {"new", "refused", "rejected"}
<1> USE DEF OthersStay
<1>0. /\ \A x \in Events : (pushed[x] = "accepted" <=> PlaceOf(x) \notin unpushed)
                           /\ (pushed'[x] = "accepted" <=> PlaceOf(x)' \notin unpushed)
      /\ missed \subseteq Events /\ missed' \subseteq Events
  BY DEF TypeOK, PlaceOf
<1>u. (PlaceOf(e)' \in unpushed <=> PlaceOf(e) \in unpushed) => unseen' = unseen
  BY <1>0 DEF Notes
<1>1. /\ place' = [place EXCEPT ![e] = PlaceOf(e)'] /\ place[e] = PlaceOf(e)
      /\ place[e]' = PlaceOf(e)'
  OBVIOUS
<1>2. /\ tries' = [tries EXCEPT ![e] = TriesOf(e)'] /\ tries[e] = TriesOf(e)
      /\ TriesOf(e)' = TriesOf(e) => tries' = tries
  OBVIOUS
<1>3. recent' \ {e} = recent \ {e}
  BY DEF TypeOK
<1>4. (e \in recent <=> e \in fresh /\ PlaceOf(e) = "completed")
      /\ (e \in recent' <=> e \in fresh' /\ PlaceOf(e)' = "completed")
  OBVIOUS
<1>5. ASSUME NEW from, NEW to, Moves(e, from, to) PROVE Promise!Move(e, from, to)
  BY <1>1, <1>5 DEF Moves, Promise!Move
<1>6. PlaceOf(e) # "completed" /\ PlaceOf(e)' # "completed" => recent' = recent
  BY <1>3, <1>4
<1>7. CASE /\ PlaceOf(e)' = PlaceOf(e) /\ TriesOf(e)' = TriesOf(e)
           /\ PlaceOf(e) = "completed" => (e \in fresh' <=> e \in fresh)
  <2>1. place' = place /\ tries' = tries /\ recent' = recent /\ unseen' = unseen
    BY <1>1, <1>2, <1>3, <1>4, <1>7, <1>u
  <2> QED
    BY <2>1 DEF PromiseStep, Promise!queueVars
<1>8. CASE /\ Moves(e, "new", "pending") /\ TriesOf(e)' = TriesOf(e)
           /\ e \in missed \/ ~Promise!Duplicate(e)
  <2>1. missed' = missed
    BY <1>0, <1>8 DEF Notes, Moves
  <2>2. CASE e \notin missed
    <3>1. unseen' = unseen
      BY <1>0, <2>1, <2>2
    <3>2. Promise!Accept(e)
      BY <1>2, <1>5, <1>6, <1>8, <2>2, <3>1 DEF Promise!Accept, Moves
    <3> QED
      BY <3>2 DEF PromiseStep, Promise!QueueNext
  <2>3. CASE e \in missed
    <3>1. unseen' = unseen \union {e}
      BY <1>0, <1>8, <2>1, <2>3 DEF Moves
    <3>2. Promise!AcceptUnseen(e)
      BY <1>2, <1>5, <1>6, <1>8, <3>1 DEF Promise!AcceptUnseen, Moves
    <3> QED
      BY <3>2 DEF PromiseStep, Promise!QueueNext
  <2> QED
    BY <2>2, <2>3
<1>9. CASE Moves(e, "new", "refused") /\ TriesOf(e)' = TriesOf(e) /\ Promise!Duplicate(e)
  <2>1. Promise!Refuse(e)
    BY <1>2, <1>5, <1>6, <1>9, <1>u DEF Promise!Refuse, Moves
  <2> QED
    BY <2>1 DEF PromiseStep, Promise!QueueNext
<1>19. CASE /\ Moves(e, "new", "refused") /\ TriesOf(e)' = TriesOf(e)
            /\ \E f \in Events : PlaceOf(f) = "completed" /\ FingerprintOf[f] = FingerprintOf[e]
  <2>1. \E f \in Events : place[f] = "completed" /\ FingerprintOf[f] = FingerprintOf[e]
    BY <1>19
  <2>2. Promise!RefuseStale(e)
    BY <1>2, <1>5, <1>6, <1>19, <1>u, <2>1 DEF Promise!RefuseStale, Moves
  <2> QED
    BY <2>2 DEF PromiseStep, Promise!QueueNext
<1>10. CASE Moves(e, "new", "rejected") /\ TriesOf(e)' = TriesOf(e)
  <2>1. Promise!Reject(e)
    BY <1>2, <1>5, <1>6, <1>10, <1>u DEF Promise!Reject, Moves
  <2> QED
    BY <2>1 DEF PromiseStep, Promise!QueueNext
<1>11. CASE /\ Moves(e, "pending", "processing") /\ TriesOf(e)' = TriesOf(e)
            /\ \A f \in Events : PlaceOf(f) = "pending" => PriorityOf[e] <= PriorityOf[f]
  <2>1. \A f \in Events : place[f] = "pending" => PriorityOf[e] <= PriorityOf[f]
    BY <1>11
  <2>2. Promise!HandOut(e)
    BY <1>2, <1>5, <1>6, <1>11, <1>u, <2>1 DEF Promise!HandOut, Moves
  <2> QED
    BY <2>2 DEF PromiseStep, Promise!QueueNext
<1>12. CASE Moves(e, "processing", "completed") /\ TriesOf(e)' = TriesOf(e) /\ e \in fresh'
  <2>1. recent' = recent \union {e}
    BY <1>3, <1>4, <1>12 DEF Moves
  <2>2. Promise!Finish(e)
    BY <1>2, <1>5, <1>12, <1>u, <2>1 DEF Promise!Finish, Moves
  <2> QED
    BY <2>2 DEF PromiseStep, Promise!QueueNext
<1>13. CASE /\ Moves(e, "processing", "pending")
            /\ TriesOf(e) < MaxRetries /\ TriesOf(e)' = TriesOf(e) + 1
  <2>1. Promise!Retry(e)
    BY <1>2, <1>5, <1>6, <1>13, <1>u DEF Promise!Retry, Moves
  <2> QED
    BY <2>1 DEF PromiseStep, Promise!QueueNext
<1>14. CASE Moves(e, "processing", "dead") /\ TriesOf(e)' = TriesOf(e) /\ TriesOf(e) = MaxRetries
  <2>1. Promise!Bury(e)
    BY <1>2, <1>5, <1>6, <1>14, <1>u DEF Promise!Bury, Moves
  <2> QED
    BY <2>1 DEF PromiseStep, Promise!QueueNext
<1>15. CASE Moves(e, "processing", "unread") /\ TriesOf(e)' = TriesOf(e)
  <2>1. Promise!BuryUnread(e)
    BY <1>2, <1>5, <1>6, <1>15, <1>u DEF Promise!BuryUnread, Moves
  <2> QED
    BY <2>1 DEF PromiseStep, Promise!QueueNext
<1>16. CASE Moves(e, "processing", "lost") /\ TriesOf(e)' = 0
  <2>1. Promise!Lose(e)
    BY <1>2, <1>5, <1>6, <1>16, <1>u DEF Promise!Lose, Moves
  <2> QED
    BY <2>1 DEF PromiseStep, Promise!QueueNext
<1>17. CASE Moves(e, "processing", "pending") /\ TriesOf(e)' = TriesOf(e)
  <2>1. Promise!PutBack(e)
    BY <1>2, <1>5, <1>6, <1>17, <1>u DEF Promise!PutBack, Moves
  <2> QED
    BY <2>1 DEF PromiseStep, Promise!QueueNext
<1>18. CASE /\ PlaceOf(e)' = PlaceOf(e) /\ TriesOf(e)' = TriesOf(e)
            /\ PlaceOf(e) = "completed" /\ e \in fresh /\ e \notin fresh'
  <2>1. /\ place' = place /\ tries' = tries /\ recent' = recent \ {e} /\ e \in recent
        /\ unseen' = unseen
    BY <1>1, <1>2, <1>3, <1>4, <1>18, <1>u
  <2>2. Promise!Forget(e)
    BY <2>1 DEF Promise!Forget
  <2> QED
    BY <2>2 DEF PromiseStep, Promise!QueueNext
<1> QED
  BY <1>7, <1>8, <1>9, <1>10, <1>11, <1>12, <1>13, <1>14, <1>15, <1>16, <1>17, <1>18,
     <1>19

-----------------------------------------------------------------------------

LEMMA PushWriteKeeps ==
    ASSUME IInv, PushWrite
    PROVE  IInv' /\ PromiseStep
<1> USE FileQueueAssumption
<1> DEFINE x == [retries |-> 0, status |-> "pending"]
<1>1. PICK e \in Events :
        /\ e = op.event /\ e # None /\ op.step = "pushWrite" /\ op.by = None /\ pushed[e] = "new"
        /\ FilesOf(e, Torn, Absent, Absent, Absent)
        /\ \A v \in Workers : work[v].event # e
        /\ e \in missed \/ \A f \in Live : FingerprintOf[f] # FingerprintOf[e]
  BY DEF IInv, PushWrite, Locked, OpInPlace, FilesOf, Dirs
<1>2. TypeOK /\ x \in Files /\ x # Torn /\ x # Absent /\ x.status = "pending" /\ x.retries = 0
  BY DEF IInv, Contents, Files
<1> HIDE DEF x
<1>3. /\ disk' \in [Dirs -> [Events -> Files]]
      /\ disk'["pending"][e] = x
      /\ \A c \in Dirs, f \in Events : c # "pending" \/ f # e => disk'[c][f] = disk[c][f]
  BY <1>1, <1>2, WriteFacts DEF PushWrite, Dirs, x
<1>4. /\ pushed' = [pushed EXCEPT ![e] = "accepted"]
      /\ op' = FreeOp /\ UNCHANGED <<fresh, work, missed, faults>>
  BY <1>1 DEF PushWrite, Release
<1>5. FilesOf(e, x, Absent, Absent, Absent)' /\ pushed'[e] = "accepted"
  BY <1>1, <1>2, <1>3, <1>4 DEF FilesOf, Dirs, TypeOK
<1>6. Touches(e, None)
  BY <1>1, <1>2, <1>3, <1>4 DEF Touches, Notes, Elsewhere, TypeOK, FreeOp
<1>7. TypeOK' /\ OpInPlace'
  BY <1>2, <1>3, <1>4 DEF TypeOK, OpInPlace, FreeOp, Files
<1>8. InPlace(e)' /\ e \notin Readable("completed")' \union Readable("dlq")'
  BY <1>1, <1>2, <1>5 DEF InPlace, FilesOf, Readable
<1>9. e \in Kept /\ e \notin Lost'
  BY <1>1, <1>2, <1>5 DEF Kept, Lost, FilesOf, Readable, Dirs
<1>10. PromiseStep
  <2>1. e \in missed \/ ~Promise!Duplicate(e)
    <3>1. ASSUME e \notin missed, NEW f \in Events, FingerprintOf[f] = FingerprintOf[e],
                 \/ PlaceOf(f) \in {"pending", "processing"}
                 \/ PlaceOf(f) = "completed" /\ f \in fresh
          PROVE  FALSE
      <4>1. f # e
        BY <1>1, <3>1 DEF PlaceOf
      <4>2. f \in Live
        BY <1>1, <3>1 DEF PlaceOf, InOp, Live
      <4> QED
        BY <1>1, <3>1, <4>2
    <3> QED
      BY <1>2, <3>1 DEF Promise!Duplicate, Promise!Blocking, Promise!Unsettled, TypeOK
  <2>2. Moves(e, "new", "pending") /\ TriesOf(e) = 0 /\ TriesOf(e)' = 0
    <3>1. e \in Readable("pending")' /\ disk'["pending"][e].retries = 0
      BY <1>2, <1>5 DEF Readable, FilesOf
    <3> QED
      BY <1>1, <1>4, <1>5, <3>1 DEF Moves, PlaceOf, TriesOf, InOp, FreeOp
  <2> QED
    BY <1>2, <1>6, <1>7, <2>1, <2>2, PlaceElsewhere, OneEventMoves
<1> QED
  BY <1>4, <1>6, <1>7, <1>8, <1>9, <1>10, Assemble

\* The push is answered and nothing of it is kept.
LEMMA AnswerKeeps ==
    ASSUME IInv, NEW e \in Events, op.step = "free", pushed[e] = "new",
           NEW outcome \in {"refused", "rejected"}, Answer(e, outcome),
           UNCHANGED <<fresh, work, missed>>, faults' = faults \/ Fault,
           \/ outcome = "rejected"
           \/ ContainsFingerprint(FingerprintOf[e])
           \/ \E f \in Readable("completed") : FingerprintOf[f] = FingerprintOf[e]
    PROVE  IInv' /\ PromiseStep
<1> USE FileQueueAssumption
<1>1. /\ TypeOK /\ op = FreeOp /\ e # None
      /\ FilesOf(e, Absent, Absent, Absent, Absent)
      /\ faults' = faults \/ (faults < MaxFaults /\ faults' = faults + 1)
  BY DEF IInv, OpInPlace, FilesInPlace, InPlace, FreeOp, FilesOf, Dirs, Fault
<1>2. \A v \in Workers : work[v].event # e
  BY <1>1 DEF IInv, HeldExclusively, WorkInPlace, IdleWork, FreeOp, Readable, FilesOf
<1>3. pushed' = [pushed EXCEPT ![e] = outcome] /\ UNCHANGED <<disk, op>>
  BY DEF Answer
<1>4. Touches(e, None) /\ pushed'[e] = outcome
  BY <1>1, <1>2, <1>3 DEF Touches, Notes, Elsewhere, TypeOK, FreeOp
<1>5. TypeOK' /\ OpInPlace'
  BY <1>1, <1>3 DEF TypeOK, OpInPlace, FreeOp
<1>6. InPlace(e)' /\ e \notin Readable("completed")' \union Readable("dlq")'
  BY <1>1, <1>3, <1>4 DEF InPlace, FilesOf, Readable, Dirs
<1>7. e \notin Kept' /\ e \notin Lost'
  BY <1>1, <1>3, <1>4 DEF Kept, Live, Lost, FilesOf, Readable, FreeOp
<1>8. PromiseStep
  <2>1. Moves(e, "new", outcome) /\ TriesOf(e) = 0 /\ TriesOf(e)' = 0
    BY <1>1, <1>3, <1>4 DEF Moves, PlaceOf, TriesOf, InOp, FreeOp
  <2>2. \A f \in Events, d \in Dirs : f \in Readable(d) => pushed[f] = "accepted"
    BY DEF IInv, FilesInPlace, InPlace
  <2>3. CASE outcome = "rejected"
    BY <1>1, <1>4, <1>5, <2>1, <2>3, PlaceElsewhere, OneEventMoves
  <2>4. ASSUME outcome = "refused", ContainsFingerprint(FingerprintOf[e]) PROVE PromiseStep
    <3>1. PICK f \in Readable("pending") \union Readable("processing")
                      \union (Readable("completed") \intersect fresh) :
             FingerprintOf[f] = FingerprintOf[e]
      BY <2>4 DEF ContainsFingerprint
    <3>2. f \in Events /\ pushed[f] = "accepted"
      BY <2>2, <3>1 DEF Readable, Dirs
    <3>3. \/ PlaceOf(f) \in {"pending", "processing"}
          \/ PlaceOf(f) = "completed" /\ f \in fresh
      BY <3>1, <3>2 DEF PlaceOf
    <3>4. Promise!Duplicate(e)
      BY <3>1, <3>2, <3>3 DEF Promise!Duplicate, Promise!Blocking, Promise!Unsettled
    <3> QED
      BY <1>1, <1>4, <1>5, <2>1, <2>4, <3>4, PlaceElsewhere, OneEventMoves
  <2>5. ASSUME outcome = "refused", ~ContainsFingerprint(FingerprintOf[e]),
               NEW f \in Readable("completed"), FingerprintOf[f] = FingerprintOf[e]
        PROVE  PromiseStep
    <3>1. f \in Events /\ pushed[f] = "accepted"
      BY <2>2 DEF Readable, Dirs
    <3>2. f \notin Readable("pending") \union Readable("processing")
      BY <2>5 DEF ContainsFingerprint
    <3>3. PlaceOf(f) = "completed"
      BY <1>1, <3>1, <3>2 DEF PlaceOf, InOp, FreeOp
    <3> QED
      BY <1>1, <1>4, <1>5, <2>1, <2>5, <3>1, <3>3, PlaceElsewhere, OneEventMoves
  <2> QED
    BY <2>3, <2>4, <2>5
<1> QED
  BY <1>1, <1>4, <1>5, <1>6, <1>7, <1>8, Assemble

\* The push goes on: no duplicate was found, or the one there was is missed.
LEMMA PushOpenKeeps ==
    ASSUME IInv, NEW e \in Events, op.step = "free", pushed[e] = "new", PushOpen(e),
           UNCHANGED <<fresh, work>>, faults' = faults \/ Fault,
           \/ missed' = missed /\ ~ContainsFingerprint(FingerprintOf[e])
           \/ missed' = missed \union {e}
    PROVE  IInv' /\ PromiseStep
<1> USE FileQueueAssumption
<1>1. /\ TypeOK /\ op = FreeOp /\ e # None
      /\ FilesOf(e, Absent, Absent, Absent, Absent)
      /\ faults' = faults \/ (faults < MaxFaults /\ faults' = faults + 1)
  BY DEF IInv, OpInPlace, FilesInPlace, InPlace, FreeOp, FilesOf, Dirs, Fault
<1>2. \A v \in Workers : work[v].event # e
  BY <1>1 DEF IInv, HeldExclusively, WorkInPlace, IdleWork, FreeOp, Readable, FilesOf
<1>3. /\ Write("pending", e, Torn) /\ UNCHANGED pushed
      /\ op' = [step |-> "pushWrite", event |-> e, retries |-> 0, by |-> None]
  BY DEF PushOpen, Take
<1>4. /\ disk' \in [Dirs -> [Events -> Files]]
      /\ disk'["pending"][e] = Torn
      /\ \A c \in Dirs, f \in Events : c # "pending" \/ f # e => disk'[c][f] = disk[c][f]
  BY <1>1, <1>3, WriteFacts DEF Dirs, Files
<1>5. FilesOf(e, Torn, Absent, Absent, Absent)'
  BY <1>1, <1>4 DEF FilesOf, Dirs
<1>6. Touches(e, None)
  BY <1>1, <1>2, <1>3, <1>4 DEF Touches, Notes, Elsewhere, FreeOp
<1>7. \/ e \in missed'
      \/ \A f \in Kept : FingerprintOf[f] # FingerprintOf[e]
  BY <1>1 DEF Kept, Live, FreeOp, ContainsFingerprint
<1>8. TypeOK'
  BY <1>1, <1>3, <1>4 DEF TypeOK, Files
<1>9. OpInPlace'
  <2>1. Live' \subseteq Live
    BY <1>4, <1>5 DEF Live, Readable, FilesOf, Dirs
  <2>2. e \in missed' \/ \A f \in Live' : FingerprintOf[f] # FingerprintOf[e]
    BY <1>7, <2>1 DEF Kept
  <2> HIDE DEF Live
  <2> QED
    BY <1>1, <1>2, <1>3, <1>5, <2>2 DEF OpInPlace, FilesOf, Dirs
<1>10. InPlace(e)' /\ e \notin Readable("completed")' \union Readable("dlq")'
  BY <1>1, <1>3, <1>5 DEF InPlace, FilesOf, Readable, Dirs
<1>11. e \notin Lost'
  BY <1>1, <1>3 DEF Lost
<1>12. PromiseStep
  <2>1. PlaceOf(e) = "new" /\ PlaceOf(e)' = "new" /\ TriesOf(e) = 0 /\ TriesOf(e)' = 0
    BY <1>1, <1>3 DEF PlaceOf, TriesOf, InOp, FreeOp
  <2> QED
    BY <1>1, <1>6, <1>8, <2>1, PlaceElsewhere, OneEventMoves
<1> QED
  BY <1>1, <1>6, <1>7, <1>8, <1>9, <1>10, <1>11, <1>12, Assemble

LEMMA PushKeeps ==
    ASSUME IInv, NEW e \in Events, Push(e)
    PROVE  IInv' /\ PromiseStep
<1>1. op.step = "free" /\ pushed[e] = "new" /\ UNCHANGED <<fresh, work, missed, faults>>
  BY DEF Push, Locked
<1>2. CASE ContainsFingerprint(FingerprintOf[e])
  BY <1>1, <1>2, AnswerKeeps DEF Push
<1>3. CASE ~ContainsFingerprint(FingerprintOf[e])
  BY <1>1, <1>3, PushOpenKeeps DEF Push
<1> QED
  BY <1>2, <1>3

LEMMA ScanFailsKeeps ==
    ASSUME IInv, NEW e \in Events, ScanFails(e)
    PROVE  IInv' /\ PromiseStep
<1>1. op.step = "free" /\ pushed[e] = "new" /\ Fault /\ UNCHANGED <<fresh, work>>
  BY DEF ScanFails, Locked
<1>2. CASE Answer(e, "rejected") /\ UNCHANGED missed
  BY <1>1, <1>2, AnswerKeeps
<1>3. CASE PushOpen(e) /\ missed' = missed \union {e}
  BY <1>1, <1>3, PushOpenKeeps
<1>4. CASE /\ \E f \in Readable("completed") : FingerprintOf[f] = FingerprintOf[e]
           /\ Answer(e, "refused") /\ UNCHANGED missed
  BY <1>1, <1>4, AnswerKeeps
<1> QED
  BY <1>2, <1>3, <1>4 DEF ScanFails

LEMMA PopRenameKeeps ==
    ASSUME IInv, NEW w \in Workers, PopRename(w)
    PROVE  IInv' /\ PromiseStep
<1> USE FileQueueAssumption
<1>1. PICK e \in Candidates : Rename("pending", "processing", e) /\ Take("popRead", e, 0, w)
  BY DEF PopRename
<1>2. /\ TypeOK /\ op = FreeOp /\ e \in Events /\ e # None /\ w # None
      /\ op' = [step |-> "popRead", event |-> e, retries |-> 0, by |-> w]
      /\ work[w] = IdleWork
      /\ UNCHANGED <<fresh, pushed, work, missed, faults>>
  BY <1>1 DEF IInv, PopRename, OpInPlace, WorkInPlace, Take, Candidates
<1>3. /\ disk["pending"][e] # Absent /\ pushed[e] # "new" /\ pushed[e] # "refused"
      /\ disk["processing"][e] = Absent
      /\ e \notin Readable("completed") \union Readable("dlq")
  BY <1>1, <1>2 DEF IInv, FilesInPlace, InPlace, Waiting, Candidates, FreeOp, Dirs
<1>4. \A v \in Workers : work[v].event # e
  BY <1>2, <1>3 DEF IInv, HeldExclusively, WorkInPlace, IdleWork, FreeOp
<1>5. /\ disk' \in [Dirs -> [Events -> Files]]
      /\ disk'["pending"][e] = Absent /\ disk'["processing"][e] = disk["pending"][e]
      /\ \A b \in Dirs, f \in Events :
            b \notin {"pending", "processing"} \/ f # e => disk'[b][f] = disk[b][f]
  BY <1>1, <1>2, RenameFacts DEF Dirs
<1>6. Touches(e, w)
  BY <1>2, <1>4, <1>5 DEF Touches, Notes, Elsewhere, FreeOp
<1>7. TypeOK' /\ OpInPlace'
  BY <1>2, <1>3, <1>4, <1>5 DEF TypeOK, OpInPlace, Files, IdleWork, Dirs
<1>8. /\ e \in Readable("processing")' <=> e \in Readable("pending")
      /\ e \notin Readable("pending")' /\ e \notin Readable("processing")
      /\ e \in Readable("completed")' <=> e \in Readable("completed")
      /\ e \in Readable("dlq")' <=> e \in Readable("dlq")
  BY <1>2, <1>3, <1>5 DEF Readable, Dirs
<1>9. InPlace(e)' /\ e \notin Readable("completed")' \union Readable("dlq")'
  BY <1>2, <1>3, <1>5, <1>8 DEF IInv, FilesInPlace, InPlace, Dirs
<1>10. (e \in Kept' => e \in Kept) /\ (e \in Lost' => e \in Lost)
  BY <1>2, <1>3, <1>8 DEF Kept, Live, Lost, Dirs, FreeOp
<1>11. PromiseStep
  <2>1. e \notin Readable("completed") \union Readable("dlq")
        /\ e \notin Readable("completed")' \union Readable("dlq")'
    BY <1>3, <1>9
  <2>2. CASE pushed[e] # "accepted"
    <3>1. pushed[e] = "rejected" /\ pushed'[e] = "rejected"
      BY <1>2, <1>3, <2>2 DEF TypeOK
    <3>2. /\ PlaceOf(e) = "rejected" /\ PlaceOf(e)' = "rejected"
          /\ TriesOf(e) = 0 /\ TriesOf(e)' = 0
      BY <1>2, <3>1 DEF PlaceOf, TriesOf, InOp, FreeOp
    <3> QED
      BY <1>2, <1>6, <1>7, <3>2, PlaceElsewhere, OneEventMoves
  <2>3. CASE pushed[e] = "accepted" /\ e \in Readable("pending")
    <3>1. Moves(e, "pending", "processing") /\ TriesOf(e)' = TriesOf(e)
      BY <1>2, <1>5, <1>8, <2>3 DEF Moves, PlaceOf, TriesOf, InOp, FreeOp
    <3>2. \A f \in Events : PlaceOf(f) = "pending" => f \in Readable("pending")
      BY DEF PlaceOf
    <3>3. \A f \in Events : PlaceOf(f) = "pending" => PriorityOf[e] <= PriorityOf[f]
      BY <1>1, <3>2 DEF Candidates, Readable
    <3> QED
      BY <1>2, <1>6, <1>7, <3>1, <3>3, PlaceElsewhere, OneEventMoves
  <2>4. CASE pushed[e] = "accepted" /\ e \notin Readable("pending")
    <3>1. PlaceOf(e) = "lost" /\ PlaceOf(e)' = "lost" /\ TriesOf(e) = 0 /\ TriesOf(e)' = 0
      BY <1>2, <1>8, <2>1, <2>4 DEF PlaceOf, TriesOf, InOp, FreeOp
    <3> QED
      BY <1>2, <1>6, <1>7, <3>1, PlaceElsewhere, OneEventMoves
  <2> QED
    BY <2>2, <2>3, <2>4
<1> QED
  BY <1>2, <1>6, <1>7, <1>9, <1>10, <1>11, Assemble

\* Before the operation goes on with an event it has taken out.
LEMMA PopInPlace ==
    ASSUME IInv, op.step \in {"popRead", "popWrite"}
    PROVE  \E e \in Events, w \in Workers :
             /\ TypeOK /\ e = op.event /\ w = op.by /\ e # None /\ w # None
             /\ work[w] = IdleWork /\ \A v \in Workers : work[v].event # e
             /\ disk["pending"][e] = Absent /\ pushed[e] \notin {"new", "refused"}
             /\ e \notin Readable("pending") \union Readable("completed") \union Readable("dlq")
             /\ e \in Readable("processing") => pushed[e] = "accepted" /\ disk["processing"][e].status # "failed"
             /\ op.step = "popRead" => disk["processing"][e] # Absent
             /\ op.step = "popWrite" => disk["processing"][e] = Torn /\ pushed[e] = "accepted"
<1> USE FileQueueAssumption
<1>1. PICK e \in Events, w \in Workers :
             /\ TypeOK /\ e = op.event /\ w = op.by /\ e # None /\ w # None
             /\ work[w] = IdleWork /\ \A v \in Workers \ {w} : work[v].event # e
             /\ disk["pending"][e] = Absent /\ pushed[e] \notin {"new", "refused"}
             /\ op.step = "popRead" => disk["processing"][e] # Absent
             /\ op.step = "popWrite" => disk["processing"][e] = Torn /\ pushed[e] = "accepted"
  BY DEF IInv, OpInPlace, WorkInPlace
<1>2. \A v \in Workers : work[v].event # e
  BY <1>1 DEF IdleWork
<1>3. e \notin Readable("pending") \union Readable("completed") \union Readable("dlq")
  BY <1>1 DEF IInv, FilesInPlace, Waiting, Readable
<1>4. e \in Readable("processing") => pushed[e] = "accepted" /\ disk["processing"][e].status # "failed"
  BY <1>1 DEF IInv, FilesInPlace, InPlace, Dirs
<1> QED
  BY <1>1, <1>2, <1>3, <1>4

LEMMA PopReadKeeps ==
    ASSUME IInv, PopRead
    PROVE  IInv' /\ PromiseStep
<1> USE FileQueueAssumption
<1>1. op.step = "popRead"
  BY DEF PopRead, Locked
<1>2. PICK e \in Events, w \in Workers :
        /\ TypeOK /\ e = op.event /\ w = op.by /\ e # None /\ w # None
        /\ work[w] = IdleWork /\ \A v \in Workers : work[v].event # e
        /\ disk["pending"][e] = Absent /\ pushed[e] \notin {"new", "refused"}
        /\ e \notin Readable("pending") \union Readable("completed") \union Readable("dlq")
        /\ e \in Readable("processing") => pushed[e] = "accepted"
        /\ disk["processing"][e] # Absent
  BY <1>1, PopInPlace
<1>3. UNCHANGED <<fresh, pushed, work, missed, faults>>
  BY DEF PopRead
<1>4. CASE disk["processing"][e] # Torn
  <2>1. /\ Write("processing", e, Torn)
        /\ op' = [op EXCEPT !.step = "popWrite", !.retries = disk["processing"][e].retries]
    BY <1>2, <1>4 DEF PopRead
  <2>2. /\ e \in Readable("processing") /\ pushed[e] = "accepted"
        /\ disk["processing"][e].retries \in 0..MaxRetries
    BY <1>2, <1>4 DEF Readable, TypeOK, Contents, Dirs
  <2>3. /\ disk' \in [Dirs -> [Events -> Files]]
        /\ disk'["processing"][e] = Torn
        /\ \A c \in Dirs, f \in Events : c # "processing" \/ f # e => disk'[c][f] = disk[c][f]
    BY <1>2, <2>1, WriteFacts DEF Dirs, Files
  <2>4. op'.step = "popWrite" /\ op'.event = e /\ op'.by = w
    BY <1>2, <2>1 DEF TypeOK
  <2>5. Touches(e, w)
    BY <1>2, <1>3, <2>3, <2>4 DEF Touches, Notes, Elsewhere
  <2>6. TypeOK'
    BY <1>2, <1>3, <2>1, <2>2, <2>3 DEF TypeOK, Files
  <2>7. OpInPlace'
    BY <1>2, <1>3, <2>2, <2>3, <2>4 DEF OpInPlace, IdleWork, Dirs
  <2>8. \A d \in Dirs : e \notin Readable(d)'
    BY <1>2, <2>3 DEF Readable, Dirs
  <2>9. InPlace(e)' /\ e \notin Readable("completed")' \union Readable("dlq")'
    BY <1>2, <1>3, <2>3, <2>8 DEF InPlace, Dirs
  <2>10. e \in Kept /\ e \notin Lost'
    BY <1>2, <2>2, <2>4 DEF Kept, Live, Lost
  <2>11. PromiseStep
    <3>1. PlaceOf(e) = "processing" /\ TriesOf(e) = disk["processing"][e].retries
      BY <1>1, <1>2, <2>2 DEF PlaceOf, TriesOf, InOp
    <3>2. PlaceOf(e)' = "processing" /\ TriesOf(e)' = disk["processing"][e].retries
      <4>1. op'.retries = disk["processing"][e].retries
        BY <1>2, <2>1 DEF TypeOK
      <4> QED
        BY <1>2, <1>3, <2>2, <2>4, <2>8, <4>1 DEF PlaceOf, TriesOf, InOp, Dirs
    <3> QED
      BY <1>2, <2>5, <2>6, <3>1, <3>2, PlaceElsewhere, OneEventMoves
  <2> QED
    BY <1>2, <1>3, <2>5, <2>6, <2>7, <2>9, <2>10, <2>11, Assemble
<1>5. CASE disk["processing"][e] = Torn
  <2>1. Rename("processing", "dlq", e) /\ op' = FreeOp
    BY <1>2, <1>5 DEF PopRead, Release
  <2>2. /\ disk' \in [Dirs -> [Events -> Files]]
        /\ disk'["processing"][e] = Absent /\ disk'["dlq"][e] = Torn
        /\ \A b \in Dirs, f \in Events :
              b \notin {"processing", "dlq"} \/ f # e => disk'[b][f] = disk[b][f]
    BY <1>2, <1>5, <2>1, RenameFacts DEF Dirs
  <2>3. Touches(e, w)
    BY <1>2, <1>3, <2>1, <2>2 DEF Touches, Notes, Elsewhere, FreeOp
  <2>4. TypeOK' /\ OpInPlace'
    BY <1>2, <1>3, <2>1, <2>2 DEF TypeOK, OpInPlace, FreeOp, Files
  <2>5. \A d \in Dirs : e \notin Readable(d)'
    BY <1>2, <2>2 DEF Readable, Dirs
  <2>6. InPlace(e)' /\ e \notin Readable("completed")' \union Readable("dlq")'
    BY <1>2, <1>3, <2>2, <2>5 DEF InPlace, Dirs
  <2>7. e \notin Kept' /\ (e \in Lost' => e \in Lost)
    <3>1. e \notin Readable("processing")
      BY <1>5 DEF Readable
    <3> QED
      BY <1>1, <1>2, <1>3, <2>1, <2>5, <3>1 DEF Kept, Live, Lost, FreeOp, Dirs
  <2>8. PromiseStep
    <3>1. e \notin Readable("processing") /\ PlaceOf(e) \in {"rejected", "lost"} /\ TriesOf(e) = 0
      BY <1>1, <1>2, <1>5 DEF PlaceOf, TriesOf, InOp, Readable, TypeOK
    <3>2. PlaceOf(e)' = PlaceOf(e) /\ TriesOf(e)' = 0
      BY <1>1, <1>2, <1>3, <2>1, <2>5, <3>1 DEF PlaceOf, TriesOf, InOp, FreeOp, Dirs
    <3> QED
      BY <1>2, <2>3, <2>4, <3>1, <3>2, PlaceElsewhere, OneEventMoves
  <2> QED
    BY <1>2, <1>3, <2>3, <2>4, <2>6, <2>7, <2>8, Assemble
<1> QED
  BY <1>4, <1>5

LEMMA PopWriteKeeps ==
    ASSUME IInv, PopWrite
    PROVE  IInv' /\ PromiseStep
<1> USE FileQueueAssumption
<1>1. op.step = "popWrite"
  BY DEF PopWrite, Locked
<1>2. PICK e \in Events, w \in Workers :
        /\ TypeOK /\ e = op.event /\ w = op.by /\ e # None /\ w # None
        /\ work[w] = IdleWork /\ \A v \in Workers : work[v].event # e
        /\ disk["pending"][e] = Absent /\ pushed[e] = "accepted"
        /\ e \notin Readable("pending") \union Readable("completed") \union Readable("dlq")
        /\ disk["processing"][e] = Torn
  BY <1>1, PopInPlace
<1> DEFINE x == [retries |-> op.retries, status |-> "processing"]
           y == [step |-> "dispatch", event |-> e, retries |-> op.retries]
<1>3. /\ x \in Files /\ x # Torn /\ x # Absent /\ x.status = "processing" /\ x.retries = op.retries
      /\ y.step = "dispatch" /\ y.event = e /\ y.retries = op.retries /\ op.retries \in 0..MaxRetries
  BY <1>2 DEF TypeOK, Contents, Files
<1>4. /\ Write("processing", e, x) /\ work' = [work EXCEPT ![w] = y]
      /\ op' = FreeOp /\ UNCHANGED <<fresh, pushed, missed, faults>>
  BY <1>2 DEF PopWrite, Release
<1> HIDE DEF x
<1>5. /\ disk' \in [Dirs -> [Events -> Files]]
      /\ disk'["processing"][e] = x
      /\ \A c \in Dirs, f \in Events : c # "processing" \/ f # e => disk'[c][f] = disk[c][f]
  BY <1>2, <1>3, <1>4, WriteFacts DEF Dirs
<1>6. Touches(e, w) /\ work'[w] = y
  BY <1>2, <1>4, <1>5 DEF Touches, Notes, Elsewhere, FreeOp, TypeOK
<1>7. TypeOK'
  BY <1>2, <1>3, <1>4, <1>5 DEF TypeOK, FreeOp, Files
<1>8. OpInPlace' /\ op'.by = None
  BY <1>4 DEF OpInPlace, FreeOp
<1>9. /\ e \in Readable("processing")' /\ disk'["pending"][e] = Absent
      /\ e \notin Readable("pending")'
      /\ e \notin Readable("completed")' \union Readable("dlq")'
  BY <1>2, <1>3, <1>5 DEF Readable, Dirs
<1>10. InPlace(e)'
  BY <1>2, <1>3, <1>4, <1>5, <1>9 DEF InPlace
<1>11. e \in Kept /\ e \notin Lost'
  BY <1>1, <1>2, <1>9 DEF Kept, Lost, Dirs
<1>12. PromiseStep
  <2>1. e \notin Readable("processing")
    BY <1>2 DEF Readable
  <2>2. PlaceOf(e) = "processing" /\ TriesOf(e) = op.retries
    BY <1>1, <1>2, <2>1 DEF PlaceOf, TriesOf, InOp
  <2>3. PlaceOf(e)' = "processing" /\ TriesOf(e)' = op.retries
    BY <1>2, <1>3, <1>4, <1>5, <1>9 DEF PlaceOf, TriesOf, InOp, FreeOp
  <2> QED
    BY <1>2, <1>6, <1>7, <2>2, <2>3, PlaceElsewhere, OneEventMoves
<1> HIDE DEF y
<1> QED
  BY <1>2, <1>3, <1>4, <1>5, <1>6, <1>7, <1>8, <1>9, <1>10, <1>11, <1>12, Assemble

LEMMA DecideKeeps ==
    ASSUME IInv, NEW w \in Workers, NEW next \in {"complete", "fail"}, Decide(w, next)
    PROVE  IInv' /\ PromiseStep
<1> USE FileQueueAssumption DEF Decide
<1>1. /\ TypeOK /\ work[w].step = "dispatch" /\ work' = [work EXCEPT ![w].step = next]
      /\ UNCHANGED <<disk, fresh, op, pushed, missed, faults>>
  BY DEF IInv
<1>2. /\ \A v \in Workers : work'[v].event = work[v].event /\ work'[v].retries = work[v].retries
      /\ \A v \in Workers \ {w} : work'[v] = work[v]
      /\ work'[w].step = next
  BY <1>1 DEF TypeOK
<1>3. op.step # "free" => op.by # w
  <2>1. op.step \in {"free", "pushWrite", "popRead", "popWrite", "completeWrite",
                     "completeRemove", "failOpen", "failWrite"}
    BY <1>1 DEF TypeOK
  <2>2. op.step = "pushWrite" => op.by # w
    BY DEF IInv, OpInPlace
  <2>3. op.step \in {"popRead", "popWrite"} => op.by # w
    BY <1>1 DEF IInv, OpInPlace
  <2>4. op.step \in {"completeWrite", "completeRemove"} => op.by # w
    BY <1>1 DEF IInv, OpInPlace
  <2>5. op.step \in {"failOpen", "failWrite"} => op.by # w
    BY <1>1 DEF IInv, OpInPlace
  <2> QED
    BY <2>1, <2>2, <2>3, <2>4, <2>5
<1>4. TypeOK'
  BY <1>1 DEF TypeOK
<1>5. OpInPlace'
  BY <1>1, <1>2, <1>3 DEF IInv, OpInPlace, Live, Readable, Exhausted
<1>6. WorkInPlace'
  BY <1>1, <1>2 DEF IInv, WorkInPlace
<1>7. FilesInPlace'
  BY <1>1, <1>2 DEF IInv, FilesInPlace, InPlace, Waiting, Readable
<1>8. HeldExclusively'
  BY <1>1, <1>2 DEF IInv, HeldExclusively, Readable
<1>9. OneKeptPerFingerprint' /\ FewLost'
  BY <1>1 DEF IInv, OneKeptPerFingerprint, FewLost, Kept, Live, Lost, Readable
<1>10. PromiseStep
  BY <1>1 DEF PromiseStep, Promise!queueVars, PlaceOf, TriesOf, InOp, Readable
<1> QED
  BY <1>4, <1>5, <1>6, <1>7, <1>8, <1>9, <1>10 DEF IInv

\* A worker that has an event and no lock.
LEMMA HeldInPlace ==
    ASSUME IInv, NEW w \in Workers, op.step = "free", work[w].step # "idle"
    PROVE  \E e \in Events :
             /\ TypeOK /\ op = FreeOp /\ e = work[w].event /\ e # None /\ w # None
             /\ \A v \in Workers \ {w} : work[v].event # e
             /\ disk["pending"][e] = Absent /\ pushed[e] = "accepted"
             /\ e \notin Readable("pending") \union Readable("completed") \union Readable("dlq")
             /\ e \in Readable("processing") /\ disk["processing"][e].status # "failed"
             /\ disk["processing"][e].retries = work[w].retries
<1> USE FileQueueAssumption
<1>1. /\ TypeOK /\ op = FreeOp /\ w # None /\ op.by = None /\ op.event = None
      /\ work[w].event \in Events
  BY DEF IInv, OpInPlace, WorkInPlace, FreeOp
<1>2. PICK e \in Events : e = work[w].event
  BY <1>1
<1>3. /\ e \in Readable("processing") /\ disk["processing"][e].retries = work[w].retries
      /\ disk["pending"][e] = Absent /\ \A v \in Workers \ {w} : work[v].event # e
  BY <1>1, <1>2 DEF IInv, HeldExclusively
<1>4. InPlace(e) /\ Waiting(e) /\ e \notin Readable("completed") \union Readable("dlq")
  BY <1>1, <1>2 DEF IInv, FilesInPlace, Waiting
<1>5. e \notin Readable("pending") /\ disk["processing"][e].status # "failed"
  BY <1>3, <1>4 DEF InPlace, Readable
<1>6. pushed[e] = "accepted"
  BY <1>3, <1>4 DEF InPlace, Dirs
<1> QED
  BY <1>1, <1>2, <1>3, <1>4, <1>5, <1>6

LEMMA CompleteOpenKeeps ==
    ASSUME IInv, NEW w \in Workers, CompleteOpen(w)
    PROVE  IInv' /\ PromiseStep
<1> USE FileQueueAssumption
<1>1. op.step = "free" /\ work[w].step = "complete"
  BY DEF CompleteOpen, Locked
<1>2. PICK e \in Events :
        /\ TypeOK /\ op = FreeOp /\ e = work[w].event /\ e # None /\ w # None
        /\ \A v \in Workers \ {w} : work[v].event # e
        /\ disk["pending"][e] = Absent /\ pushed[e] = "accepted"
        /\ e \notin Readable("pending") \union Readable("completed") \union Readable("dlq")
        /\ e \in Readable("processing") /\ disk["processing"][e].status # "failed"
        /\ disk["processing"][e].retries = work[w].retries
  BY <1>1, HeldInPlace
<1>3. /\ Write("completed", e, Torn)
      /\ op' = [step |-> "completeWrite", event |-> e, retries |-> work[w].retries, by |-> w]
      /\ UNCHANGED <<fresh, pushed, work, missed, faults>>
  BY <1>2 DEF CompleteOpen, Take
<1>4. work[w] = [step |-> "complete", event |-> e, retries |-> work[w].retries]
      /\ work[w].retries \in 0..MaxRetries
  BY <1>1, <1>2 DEF TypeOK
<1>5. /\ disk' \in [Dirs -> [Events -> Files]]
      /\ disk'["completed"][e] = Torn
      /\ \A c \in Dirs, f \in Events : c # "completed" \/ f # e => disk'[c][f] = disk[c][f]
  BY <1>2, <1>3, WriteFacts DEF Dirs, Files
<1>6. Touches(e, w)
  BY <1>2, <1>3, <1>5 DEF Touches, Notes, Elsewhere, FreeOp
<1>7. /\ e \in Readable("processing")' /\ disk'["processing"][e] = disk["processing"][e]
      /\ disk'["pending"][e] = Absent /\ e \notin Readable("pending")'
      /\ e \notin Readable("completed")' \union Readable("dlq")'
  BY <1>2, <1>5 DEF Readable, Dirs
<1>8. TypeOK'
  BY <1>2, <1>3, <1>4, <1>5 DEF TypeOK, Files
<1>9. OpInPlace'
  BY <1>2, <1>3, <1>4, <1>7 DEF OpInPlace
<1>10. InPlace(e)'
  BY <1>2, <1>3, <1>7 DEF InPlace
<1>11. e \in Kept /\ e \notin Lost'
  BY <1>2, <1>7 DEF Kept, Live, Lost, Dirs
<1>12. PromiseStep
  <2>1. PlaceOf(e) = "processing" /\ TriesOf(e) = work[w].retries
    BY <1>2 DEF PlaceOf, TriesOf, InOp, FreeOp
  <2>2. PlaceOf(e)' = "processing" /\ TriesOf(e)' = work[w].retries
    BY <1>2, <1>3, <1>7 DEF PlaceOf, TriesOf, InOp
  <2> QED
    BY <1>2, <1>6, <1>8, <2>1, <2>2, PlaceElsewhere, OneEventMoves
<1> QED
  BY <1>1, <1>2, <1>3, <1>6, <1>7, <1>8, <1>9, <1>10, <1>11, <1>12, Assemble

\* Before the operation goes on with an event it completes.
LEMMA CompleteInPlace ==
    ASSUME IInv, op.step \in {"completeWrite", "completeRemove"}
    PROVE  \E e \in Events, w \in Workers :
             /\ TypeOK /\ e = op.event /\ w = op.by /\ e # None /\ w # None
             /\ work[w] = [step |-> "complete", event |-> e, retries |-> op.retries]
             /\ \A v \in Workers \ {w} : work[v].event # e
             /\ disk["pending"][e] = Absent /\ pushed[e] = "accepted"
             /\ e \notin Readable("pending") /\ e \in Readable("processing")
             /\ disk["processing"][e].status # "failed"
             /\ disk["processing"][e].retries = op.retries /\ op.retries \in 0..MaxRetries
             /\ op.step = "completeWrite" => e \notin Readable("completed") \union Readable("dlq")
             /\ op.step = "completeRemove" =>
                  /\ e \in Readable("completed") \intersect fresh
                  /\ disk["completed"][e].retries = op.retries
<1> USE FileQueueAssumption
<1>1. PICK e \in Events, w \in Workers :
             /\ TypeOK /\ e = op.event /\ w = op.by /\ e # None /\ w # None
             /\ work[w] = [step |-> "complete", event |-> e, retries |-> op.retries]
             /\ \A v \in Workers \ {w} : work[v].event # e
             /\ disk["pending"][e] = Absent
             /\ e \in Readable("processing") /\ disk["processing"][e].retries = op.retries
             /\ op.step = "completeRemove" =>
                  /\ e \in Readable("completed") \intersect fresh
                  /\ disk["completed"][e].retries = op.retries
  BY DEF IInv, OpInPlace
<1>2. InPlace(e) /\ (Waiting(e) => e \notin Readable("completed") \union Readable("dlq"))
  BY DEF IInv, FilesInPlace
<1>3. op.step = "completeWrite" => e \notin Readable("completed") \union Readable("dlq")
  BY <1>1, <1>2 DEF Waiting
<1>4. pushed[e] = "accepted" /\ disk["processing"][e].status # "failed" /\ e \notin Readable("pending")
  BY <1>1, <1>2 DEF InPlace, Dirs, Readable
<1>5. op.retries \in 0..MaxRetries
  BY <1>1 DEF TypeOK
<1> QED
  BY <1>1, <1>3, <1>4, <1>5

LEMMA CompleteWriteKeeps ==
    ASSUME IInv, CompleteWrite
    PROVE  IInv' /\ PromiseStep
<1> USE FileQueueAssumption
<1>1. op.step = "completeWrite"
  BY DEF CompleteWrite, Locked
<1>2. PICK e \in Events, w \in Workers :
        /\ TypeOK /\ e = op.event /\ w = op.by /\ e # None /\ w # None
        /\ work[w] = [step |-> "complete", event |-> e, retries |-> op.retries]
        /\ \A v \in Workers \ {w} : work[v].event # e
        /\ disk["pending"][e] = Absent /\ pushed[e] = "accepted"
        /\ e \notin Readable("pending") /\ e \in Readable("processing")
        /\ disk["processing"][e].status # "failed"
        /\ disk["processing"][e].retries = op.retries /\ op.retries \in 0..MaxRetries
  BY <1>1, CompleteInPlace
<1> DEFINE x == [retries |-> op.retries, status |-> "completed"]
<1>3. x \in Files /\ x # Torn /\ x # Absent /\ x.retries = op.retries
  BY <1>2 DEF Contents, Files
<1>4. /\ Write("completed", e, x) /\ fresh' = fresh \union {e}
      /\ op' = [op EXCEPT !.step = "completeRemove"] /\ UNCHANGED <<pushed, work, missed, faults>>
  BY <1>2 DEF CompleteWrite, Proceed
<1> HIDE DEF x
<1>5. /\ disk' \in [Dirs -> [Events -> Files]]
      /\ disk'["completed"][e] = x
      /\ \A c \in Dirs, f \in Events : c # "completed" \/ f # e => disk'[c][f] = disk[c][f]
  BY <1>2, <1>3, <1>4, WriteFacts DEF Dirs
<1>6. op'.step = "completeRemove" /\ op'.event = e /\ op'.by = w /\ op'.retries = op.retries
  BY <1>2, <1>4 DEF TypeOK
<1>7. Touches(e, w)
  BY <1>2, <1>4, <1>5, <1>6 DEF Touches, Notes, Elsewhere
<1>8. /\ e \in Readable("processing")' /\ disk'["processing"][e] = disk["processing"][e]
      /\ disk'["pending"][e] = Absent /\ e \notin Readable("pending")'
      /\ e \in Readable("completed")' /\ disk'["completed"][e].retries = op.retries
  BY <1>2, <1>3, <1>5 DEF Readable, Dirs
<1>9. TypeOK'
  BY <1>2, <1>4, <1>5 DEF TypeOK, Files
<1>10. OpInPlace'
  BY <1>2, <1>4, <1>6, <1>8 DEF OpInPlace
<1>11. InPlace(e)' /\ ~Waiting(e)'
  BY <1>2, <1>4, <1>6, <1>8 DEF InPlace, Waiting
<1>12. e \in Kept /\ e \notin Lost'
  BY <1>2, <1>8 DEF Kept, Live, Lost, Dirs
<1>13. PromiseStep
  <2>1. PlaceOf(e) = "processing" /\ TriesOf(e) = op.retries
    BY <1>1, <1>2 DEF PlaceOf, TriesOf, InOp
  <2>2. PlaceOf(e)' = "processing" /\ TriesOf(e)' = op.retries
    BY <1>2, <1>4, <1>6, <1>8 DEF PlaceOf, TriesOf, InOp
  <2> QED
    BY <1>2, <1>7, <1>9, <2>1, <2>2, PlaceElsewhere, OneEventMoves
<1> QED
  BY <1>2, <1>4, <1>6, <1>7, <1>9, <1>10, <1>11, <1>12, <1>13, Assemble

LEMMA CompleteRemoveKeeps ==
    ASSUME IInv, CompleteRemove
    PROVE  IInv' /\ PromiseStep
<1> USE FileQueueAssumption
<1>1. op.step = "completeRemove"
  BY DEF CompleteRemove, Locked
<1>2. PICK e \in Events, w \in Workers :
        /\ TypeOK /\ e = op.event /\ w = op.by /\ e # None /\ w # None
        /\ \A v \in Workers \ {w} : work[v].event # e
        /\ disk["pending"][e] = Absent /\ pushed[e] = "accepted"
        /\ e \notin Readable("pending") /\ e \in Readable("processing")
        /\ e \in Readable("completed") \intersect fresh
        /\ disk["processing"][e].retries = op.retries /\ disk["completed"][e].retries = op.retries
  BY <1>1, CompleteInPlace
<1>3. /\ Write("processing", e, Absent) /\ work' = [work EXCEPT ![w] = IdleWork]
      /\ op' = FreeOp /\ UNCHANGED <<fresh, pushed, missed, faults>>
  BY <1>2 DEF CompleteRemove, Return, Release
<1>4. /\ disk' \in [Dirs -> [Events -> Files]]
      /\ disk'["processing"][e] = Absent
      /\ \A c \in Dirs, f \in Events : c # "processing" \/ f # e => disk'[c][f] = disk[c][f]
  BY <1>2, <1>3, WriteFacts DEF Dirs, Files
<1>5. Touches(e, w) /\ work'[w] = IdleWork
  BY <1>2, <1>3, <1>4 DEF Touches, Notes, Elsewhere, FreeOp, TypeOK
<1>6. TypeOK' /\ OpInPlace'
  BY <1>2, <1>3, <1>4 DEF TypeOK, OpInPlace, FreeOp, IdleWork, Files
<1>7. /\ e \notin Readable("pending")' /\ e \notin Readable("processing")'
      /\ e \in Readable("completed")' /\ disk'["pending"][e] = Absent
  BY <1>2, <1>4 DEF Readable, Dirs
<1>8. InPlace(e)' /\ ~Waiting(e)'
  BY <1>2, <1>3, <1>5, <1>7 DEF InPlace, Waiting, FreeOp, IdleWork, Touches
<1>9. e \in Kept /\ e \notin Lost'
  BY <1>2, <1>7 DEF Kept, Live, Lost, Dirs
<1>10. PromiseStep
  <2>1. PlaceOf(e) = "processing" /\ TriesOf(e) = op.retries
    BY <1>1, <1>2 DEF PlaceOf, TriesOf, InOp
  <2>2. PlaceOf(e)' = "completed" /\ TriesOf(e)' = op.retries
    <3>1. disk'["completed"][e].retries = op.retries
      BY <1>2, <1>4 DEF Dirs
    <3> QED
      BY <1>2, <1>3, <1>7, <3>1 DEF PlaceOf, TriesOf, InOp, FreeOp
  <2> QED
    BY <1>2, <1>3, <1>5, <1>6, <2>1, <2>2, PlaceElsewhere, OneEventMoves DEF Moves
<1> QED
  BY <1>2, <1>3, <1>5, <1>6, <1>8, <1>9, <1>10, Assemble

LEMMA FailRemoveKeeps ==
    ASSUME IInv, NEW w \in Workers, FailRemove(w)
    PROVE  IInv' /\ PromiseStep
<1> USE FileQueueAssumption
<1>1. op.step = "free" /\ work[w].step = "fail"
  BY DEF FailRemove, Take
<1>2. PICK e \in Events :
        /\ TypeOK /\ op = FreeOp /\ e = work[w].event /\ e # None /\ w # None
        /\ \A v \in Workers \ {w} : work[v].event # e
        /\ disk["pending"][e] = Absent /\ pushed[e] = "accepted"
        /\ e \notin Readable("pending") \union Readable("completed") \union Readable("dlq")
        /\ e \in Readable("processing") /\ disk["processing"][e].retries = work[w].retries
  BY <1>1, HeldInPlace
<1>3. /\ Write("processing", e, Absent)
      /\ op' = [step |-> "failOpen", event |-> e, retries |-> work[w].retries, by |-> w]
      /\ UNCHANGED <<fresh, pushed, work, missed, faults>>
  BY <1>2 DEF FailRemove, Take
<1>4. work[w] = [step |-> "fail", event |-> e, retries |-> work[w].retries]
      /\ work[w].retries \in 0..MaxRetries
  BY <1>1, <1>2 DEF TypeOK
<1>5. /\ disk' \in [Dirs -> [Events -> Files]]
      /\ disk'["processing"][e] = Absent
      /\ \A c \in Dirs, f \in Events : c # "processing" \/ f # e => disk'[c][f] = disk[c][f]
  BY <1>2, <1>3, WriteFacts DEF Dirs, Files
<1>6. Touches(e, w)
  BY <1>2, <1>3, <1>5 DEF Touches, Notes, Elsewhere, FreeOp
<1>7. /\ disk'["pending"][e] = Absent
      /\ \A d \in Dirs : e \notin Readable(d)'
  BY <1>2, <1>5 DEF Readable, Dirs
<1>8. TypeOK'
  BY <1>2, <1>3, <1>4, <1>5 DEF TypeOK, Files
<1>9. OpInPlace'
  BY <1>2, <1>3, <1>4, <1>5, <1>7 DEF OpInPlace
<1>10. InPlace(e)' /\ e \notin Readable("completed")' \union Readable("dlq")'
  BY <1>2, <1>3, <1>7 DEF InPlace, Dirs
<1>11. e \in Kept /\ e \notin Lost'
  BY <1>2, <1>3 DEF Kept, Live, Lost
<1>12. PromiseStep
  <2>1. PlaceOf(e) = "processing" /\ TriesOf(e) = work[w].retries
    BY <1>2 DEF PlaceOf, TriesOf, InOp, FreeOp
  <2>2. PlaceOf(e)' = "processing" /\ TriesOf(e)' = work[w].retries
    BY <1>2, <1>3, <1>7 DEF PlaceOf, TriesOf, InOp, Dirs
  <2> QED
    BY <1>2, <1>6, <1>8, <2>1, <2>2, PlaceElsewhere, OneEventMoves
<1> QED
  BY <1>1, <1>2, <1>3, <1>6, <1>8, <1>9, <1>10, <1>11, <1>12, Assemble

\* Before the operation goes on with an event that failed.
LEMMA FailInPlace ==
    ASSUME IInv, op.step \in {"failOpen", "failWrite"}
    PROVE  \E e \in Events, w \in Workers :
             /\ TypeOK /\ e = op.event /\ w = op.by /\ e # None /\ w # None
             /\ work[w] = [step |-> "fail", event |-> e, retries |-> op.retries]
             /\ \A v \in Workers \ {w} : work[v].event # e
             /\ pushed[e] = "accepted" /\ op.retries \in 0..MaxRetries
             /\ disk["processing"][e] = Absent
             /\ disk["pending"][e] = IF op.step = "failWrite" /\ ~Exhausted THEN Torn ELSE Absent
             /\ \A d \in Dirs : e \notin Readable(d)
             /\ e \in Kept /\ e \notin Lost
<1> USE FileQueueAssumption
<1>1. PICK e \in Events, w \in Workers :
             /\ TypeOK /\ e = op.event /\ w = op.by /\ e # None /\ w # None
             /\ work[w] = [step |-> "fail", event |-> e, retries |-> op.retries]
             /\ \A v \in Workers \ {w} : work[v].event # e
             /\ disk["processing"][e] = Absent
             /\ disk["pending"][e] = IF op.step = "failWrite" /\ ~Exhausted THEN Torn ELSE Absent
             /\ pushed[e] = "accepted"
  BY DEF IInv, OpInPlace
<1>2. op.retries \in 0..MaxRetries
  BY <1>1 DEF TypeOK
<1>3. e \notin Readable("completed") \union Readable("dlq")
  BY <1>1 DEF IInv, FilesInPlace, Waiting
<1>4. \A d \in Dirs : e \notin Readable(d)
  BY <1>1, <1>3 DEF Readable, Dirs
<1>5. e \in Kept /\ e \notin Lost
  BY <1>1 DEF Kept, Lost
<1> QED
  BY <1>1, <1>2, <1>4, <1>5

LEMMA FailOpenKeeps ==
    ASSUME IInv, FailOpen
    PROVE  IInv' /\ PromiseStep
<1> USE FileQueueAssumption
<1>1. op.step = "failOpen"
  BY DEF FailOpen, Locked
<1>2. PICK e \in Events, w \in Workers :
        /\ TypeOK /\ e = op.event /\ w = op.by /\ e # None /\ w # None
        /\ work[w] = [step |-> "fail", event |-> e, retries |-> op.retries]
        /\ \A v \in Workers \ {w} : work[v].event # e
        /\ pushed[e] = "accepted" /\ disk["processing"][e] = Absent
        /\ disk["pending"][e] = IF op.step = "failWrite" /\ ~Exhausted THEN Torn ELSE Absent
        /\ \A d \in Dirs : e \notin Readable(d)
        /\ e \in Kept /\ e \notin Lost
  BY <1>1, FailInPlace
<1>3. /\ Write(FailDir, e, Torn) /\ op' = [op EXCEPT !.step = "failWrite"]
      /\ UNCHANGED <<fresh, pushed, work, missed, faults>>
  BY <1>2 DEF FailOpen, Proceed
<1>4. FailDir \in Dirs /\ FailDir = IF Exhausted THEN "dlq" ELSE "pending"
  BY DEF FailDir, Dirs
<1>5. /\ disk' \in [Dirs -> [Events -> Files]]
      /\ disk'[FailDir][e] = Torn
      /\ \A c \in Dirs, f \in Events : c # FailDir \/ f # e => disk'[c][f] = disk[c][f]
  BY <1>2, <1>3, <1>4, WriteFacts DEF Files
<1>6. /\ op'.step = "failWrite" /\ op'.event = e /\ op'.by = w /\ op'.retries = op.retries
      /\ Exhausted' = Exhausted
  BY <1>2, <1>3 DEF TypeOK, Exhausted
<1>7. Touches(e, w)
  BY <1>2, <1>3, <1>5, <1>6 DEF Touches, Notes, Elsewhere
<1>8. /\ disk'["processing"][e] = Absent
      /\ disk'["pending"][e] = IF ~Exhausted THEN Torn ELSE Absent
      /\ \A d \in Dirs : e \notin Readable(d)'
  BY <1>1, <1>2, <1>4, <1>5 DEF Readable, Dirs
<1>9. TypeOK'
  BY <1>2, <1>3, <1>5 DEF TypeOK, Files
<1>10. OpInPlace'
  BY <1>2, <1>3, <1>6, <1>8 DEF OpInPlace
<1>11. InPlace(e)' /\ e \notin Readable("completed")' \union Readable("dlq")'
  BY <1>2, <1>3, <1>8 DEF InPlace, Dirs
<1>12. e \notin Lost'
  BY <1>2, <1>6 DEF Lost
<1>13. PromiseStep
  <2>1. PlaceOf(e) = "processing" /\ TriesOf(e) = op.retries
    BY <1>1, <1>2 DEF PlaceOf, TriesOf, InOp, Dirs
  <2>2. PlaceOf(e)' = "processing" /\ TriesOf(e)' = op.retries
    BY <1>2, <1>3, <1>6, <1>8 DEF PlaceOf, TriesOf, InOp, Dirs
  <2> QED
    BY <1>2, <1>7, <1>9, <2>1, <2>2, PlaceElsewhere, OneEventMoves
<1> QED
  BY <1>2, <1>3, <1>6, <1>7, <1>9, <1>10, <1>11, <1>12, <1>13, Assemble

LEMMA FailWriteKeeps ==
    ASSUME IInv, FailWrite
    PROVE  IInv' /\ PromiseStep
<1> USE FileQueueAssumption
<1>1. op.step = "failWrite"
  BY DEF FailWrite, Locked
<1>2. PICK e \in Events, w \in Workers :
        /\ TypeOK /\ e = op.event /\ w = op.by /\ e # None /\ w # None
        /\ work[w] = [step |-> "fail", event |-> e, retries |-> op.retries]
        /\ \A v \in Workers \ {w} : work[v].event # e
        /\ pushed[e] = "accepted" /\ op.retries \in 0..MaxRetries
        /\ disk["processing"][e] = Absent
        /\ disk["pending"][e] = IF op.step = "failWrite" /\ ~Exhausted THEN Torn ELSE Absent
        /\ \A d \in Dirs : e \notin Readable(d)
        /\ e \in Kept /\ e \notin Lost
  BY <1>1, FailInPlace
<1>3. /\ Write(FailDir, e, FailContent) /\ work' = [work EXCEPT ![w] = IdleWork]
      /\ op' = FreeOp /\ UNCHANGED <<fresh, pushed, missed, faults>>
  BY <1>2 DEF FailWrite, Release, Return
<1>4. PICK to \in Dirs, x \in Files :
        /\ to = FailDir /\ to = IF Exhausted THEN "dlq" ELSE "pending"
        /\ x = FailContent /\ x # Torn /\ x # Absent
        /\ ~Exhausted => x.status # "failed"
  <2>1. FailDir \in Dirs /\ FailDir = IF Exhausted THEN "dlq" ELSE "pending"
    BY DEF FailDir, Dirs
  <2>2. FailContent \in Contents
    BY <1>2 DEF FailContent, Contents, Exhausted
  <2>3. ~Exhausted => FailContent.status # "failed"
    BY DEF FailContent
  <2> QED
    BY <2>1, <2>2, <2>3 DEF Files
<1>5. /\ disk' \in [Dirs -> [Events -> Files]]
      /\ disk'[to][e] = x
      /\ \A c \in Dirs, f \in Events : c # to \/ f # e => disk'[c][f] = disk[c][f]
  <2>1. Write(to, e, x)
    BY <1>3, <1>4
  <2>2. TypeOK
    BY <1>2
  <2> QED
    BY <2>1, <2>2, WriteFacts
<1>6. Touches(e, w) /\ work'[w] = IdleWork
  BY <1>2, <1>3, <1>5 DEF Touches, Notes, Elsewhere, FreeOp, TypeOK
<1>7. TypeOK' /\ OpInPlace'
  BY <1>2, <1>3, <1>5 DEF TypeOK, OpInPlace, FreeOp, IdleWork, Files
<1>8. /\ e \in Readable(to)' /\ \A d \in Dirs \ {to} : e \notin Readable(d)'
      /\ disk'["processing"][e] = Absent
      /\ Exhausted => disk'["pending"][e] = Absent
  BY <1>2, <1>4, <1>5 DEF Readable, Dirs
<1>9. InPlace(e)'
  BY <1>2, <1>3, <1>4, <1>5, <1>8 DEF InPlace, Dirs
<1>10. Waiting(e)' => e \notin Readable("completed")' \union Readable("dlq")'
  <2>1. CASE Exhausted
    BY <1>2, <1>3, <1>6, <1>8, <2>1 DEF Waiting, Touches, FreeOp, IdleWork
  <2>2. CASE ~Exhausted
    BY <1>4, <1>8, <2>2 DEF Dirs
  <2> QED
    BY <2>1, <2>2
<1>11. e \notin Lost'
  BY <1>8 DEF Lost
<1>12. PromiseStep
  <2>1. PlaceOf(e) = "processing" /\ TriesOf(e) = op.retries
    BY <1>1, <1>2 DEF PlaceOf, TriesOf, InOp, Dirs
  <2>2. CASE Exhausted
    <3>1. x.status = "failed" /\ x.retries = op.retries /\ op.retries = MaxRetries
      BY <1>2, <1>4, <2>2 DEF FailContent, Exhausted
    <3>2. PlaceOf(e)' = "dead" /\ TriesOf(e)' = op.retries
      BY <1>2, <1>3, <1>4, <1>5, <1>8, <2>2, <3>1 DEF PlaceOf, TriesOf, InOp, FreeOp, Dirs
    <3> QED
      BY <1>2, <1>6, <1>7, <2>1, <3>1, <3>2, PlaceElsewhere, OneEventMoves DEF Moves
  <2>3. CASE ~Exhausted
    <3>1. x.retries = op.retries + 1 /\ op.retries < MaxRetries
      BY <1>2, <1>4, <2>3 DEF FailContent, Exhausted
    <3>2. PlaceOf(e)' = "pending" /\ TriesOf(e)' = op.retries + 1
      BY <1>2, <1>3, <1>4, <1>5, <1>8, <2>3, <3>1 DEF PlaceOf, TriesOf, InOp, FreeOp, Dirs
    <3> QED
      BY <1>2, <1>6, <1>7, <2>1, <3>1, <3>2, PlaceElsewhere, OneEventMoves DEF Moves
  <2> QED
    BY <2>2, <2>3
<1> QED
  BY <1>2, <1>3, <1>6, <1>7, <1>9, <1>10, <1>11, <1>12, Assemble

-----------------------------------------------------------------------------

LEMMA PushFailsKeeps ==
    ASSUME IInv, PushFails
    PROVE  IInv' /\ PromiseStep
<1> USE FileQueueAssumption
<1>1. PICK left \in {Absent, Torn} : Write("pending", op.event, left)
  BY DEF PushFails
<1>2. PICK e \in Events :
        /\ TypeOK /\ e = op.event /\ e # None /\ op.step = "pushWrite" /\ op.by = None /\ pushed[e] = "new"
        /\ FilesOf(e, Torn, Absent, Absent, Absent)
        /\ \A v \in Workers : work[v].event # e
  BY DEF IInv, PushFails, Locked, OpInPlace, FilesOf, Dirs
<1>3. /\ pushed' = [pushed EXCEPT ![e] = "rejected"]
      /\ op' = FreeOp /\ faults' = faults + 1 /\ faults < MaxFaults /\ UNCHANGED <<fresh, work, missed>>
  BY <1>2 DEF PushFails, Release, Fault
<1>4. /\ disk' \in [Dirs -> [Events -> Files]]
      /\ disk'["pending"][e] = left
      /\ \A c \in Dirs, f \in Events : c # "pending" \/ f # e => disk'[c][f] = disk[c][f]
  BY <1>1, <1>2, WriteFacts DEF Files, Dirs
<1>5. FilesOf(e, left, Absent, Absent, Absent)' /\ pushed'[e] = "rejected"
  BY <1>2, <1>3, <1>4 DEF FilesOf, Dirs, TypeOK
<1>6. Touches(e, None)
  BY <1>2, <1>3, <1>4 DEF Touches, Notes, Elsewhere, TypeOK, FreeOp
<1>7. TypeOK' /\ OpInPlace'
  BY <1>2, <1>3, <1>4 DEF TypeOK, OpInPlace, FreeOp, Files
<1>8. \A d \in Dirs : e \notin Readable(d)'
  BY <1>5 DEF Readable, FilesOf, Dirs
<1>9. InPlace(e)' /\ e \notin Readable("completed")' \union Readable("dlq")'
  BY <1>3, <1>5, <1>8 DEF InPlace, FilesOf, Dirs
<1>10. e \notin Kept'
  BY <1>2, <1>3, <1>8 DEF Kept, Live, FreeOp, Dirs
<1>11. PromiseStep
  <2>1. Moves(e, "new", "rejected") /\ TriesOf(e) = 0 /\ TriesOf(e)' = 0
    BY <1>2, <1>3, <1>5 DEF Moves, PlaceOf, TriesOf, InOp, FreeOp
  <2> QED
    BY <1>2, <1>6, <1>7, <2>1, PlaceElsewhere, OneEventMoves
<1> QED
  BY <1>2, <1>3, <1>6, <1>7, <1>9, <1>10, <1>11, Assemble

\* pop gives its event up: the file is in one directory, as it was.
LEMMA PopGivesUp ==
    ASSUME IInv, TypeOK', op.step \in {"popRead", "popWrite"}, NEW w, Touches(op.event, w),
           op' = FreeOp, UNCHANGED <<fresh, pushed, missed>>,
           NEW to \in {"processing", "pending", "dlq"},
           op.step = "popRead" \/ to # "dlq",
           disk'[to][op.event] = disk["processing"][op.event],
           \A d \in Dirs \ {to} : op.event \notin Readable(d)'
    PROVE  PromiseStep
<1> USE FileQueueAssumption
<1>1. PICK e \in Events :
        /\ TypeOK /\ e = op.event /\ pushed[e] \notin {"new", "refused"}
        /\ e \notin Readable("pending") \union Readable("completed") \union Readable("dlq")
        /\ e \in Readable("processing") => pushed[e] = "accepted" /\ disk["processing"][e].status # "failed"
        /\ op.step = "popWrite" => disk["processing"][e] = Torn /\ pushed[e] = "accepted"
  BY PopInPlace
<1>2. OthersStay(e)
  BY <1>1, PlaceElsewhere
<1>3. e \in Readable(to)' <=> e \in Readable("processing")
  BY <1>1 DEF Readable
<1>4. CASE pushed[e] # "accepted"
  <2>1. pushed[e] = "rejected" /\ pushed'[e] = "rejected" /\ op.step = "popRead"
    BY <1>1, <1>4 DEF TypeOK
  <2>2. PlaceOf(e) = "rejected" /\ PlaceOf(e)' = "rejected" /\ TriesOf(e) = 0 /\ TriesOf(e)' = 0
    BY <1>1, <2>1 DEF PlaceOf, TriesOf, InOp, FreeOp
  <2> QED
    BY <1>1, <1>2, <2>2, OneEventMoves
<1>5. CASE pushed[e] = "accepted" /\ e \in Readable("processing")
  <2>1. op.step = "popRead"
    BY <1>1, <1>5 DEF Readable
  <2>2. PlaceOf(e) = "processing" /\ TriesOf(e) = disk["processing"][e].retries
    BY <1>1, <1>5, <2>1 DEF PlaceOf, TriesOf, InOp
  <2>3. /\ PlaceOf(e)' = (IF to = "dlq" THEN "unread" ELSE to)
        /\ TriesOf(e)' = disk["processing"][e].retries
    BY <1>1, <1>3, <1>5 DEF PlaceOf, TriesOf, InOp, FreeOp, Dirs
  <2> QED
    BY <1>1, <1>2, <2>2, <2>3, OneEventMoves DEF Moves
<1>6. CASE pushed[e] = "accepted" /\ e \notin Readable("processing")
  <2>1. PlaceOf(e)' = "lost" /\ TriesOf(e)' = 0
    BY <1>1, <1>3, <1>6 DEF PlaceOf, TriesOf, InOp, FreeOp, Dirs
  <2>2. CASE op.step = "popRead"
    <3>1. PlaceOf(e) = "lost" /\ TriesOf(e) = 0
      BY <1>1, <1>6, <2>2 DEF PlaceOf, TriesOf, InOp
    <3> QED
      BY <1>1, <1>2, <2>1, <3>1, OneEventMoves
  <2>3. CASE op.step = "popWrite"
    <3>1. PlaceOf(e) = "processing"
      BY <1>1, <1>6, <2>3 DEF PlaceOf, InOp
    <3> QED
      BY <1>1, <1>2, <2>1, <3>1, OneEventMoves DEF Moves
  <2> QED
    BY <2>2, <2>3
<1> QED
  BY <1>4, <1>5, <1>6

LEMMA PopReadFailsKeeps ==
    ASSUME IInv, PopReadFails
    PROVE  IInv' /\ PromiseStep
<1> USE FileQueueAssumption
<1>1. op.step = "popRead"
  BY DEF PopReadFails, Locked
<1>2. PICK e \in Events, w \in Workers :
        /\ TypeOK /\ e = op.event /\ w = op.by /\ e # None /\ w # None
        /\ work[w] = IdleWork /\ \A v \in Workers : work[v].event # e
        /\ disk["pending"][e] = Absent /\ pushed[e] \notin {"new", "refused"}
        /\ e \notin Readable("pending") \union Readable("completed") \union Readable("dlq")
        /\ e \in Readable("processing") => pushed[e] = "accepted" /\ disk["processing"][e].status # "failed"
  BY <1>1, PopInPlace
<1>3. /\ op' = FreeOp /\ faults' = faults + 1 /\ faults < MaxFaults
      /\ UNCHANGED <<fresh, pushed, work, missed>>
  BY DEF PopReadFails, Release, Fault
<1>4. ASSUME NEW to \in {"dlq", "pending"}, Rename("processing", to, e)
      PROVE  IInv' /\ PromiseStep
  <2>1. /\ disk' \in [Dirs -> [Events -> Files]]
        /\ disk'["processing"][e] = Absent /\ disk'[to][e] = disk["processing"][e]
        /\ \A b \in Dirs, f \in Events :
              b \notin {"processing", to} \/ f # e => disk'[b][f] = disk[b][f]
    BY <1>2, <1>4, RenameFacts DEF Dirs
  <2>2. /\ e \in Readable(to)' <=> e \in Readable("processing")
        /\ \A d \in Dirs \ {to} : e \notin Readable(d)'
        /\ to = "dlq" => disk'["pending"][e] = Absent
    BY <1>2, <2>1 DEF Readable, Dirs
  <2>3. Touches(e, w)
    BY <1>2, <1>3, <2>1 DEF Touches, Notes, Elsewhere, FreeOp
  <2>4. TypeOK' /\ OpInPlace'
    BY <1>2, <1>3, <2>1 DEF TypeOK, OpInPlace, FreeOp, Files
  <2>5. InPlace(e)'
    BY <1>2, <1>3, <2>1, <2>2 DEF InPlace, Dirs
  <2>6. Waiting(e)' => e \notin Readable("completed")' \union Readable("dlq")'
    BY <1>2, <1>3, <2>2 DEF Waiting, FreeOp, Dirs
  <2>7. e \in Kept' => e \in Kept
    BY <1>2, <1>3, <2>2 DEF Kept, Live, FreeOp, Dirs
  <2>8. PromiseStep
    BY <1>1, <1>2, <1>3, <2>1, <2>2, <2>3, <2>4, PopGivesUp
  <2> QED
    BY <1>2, <1>3, <2>3, <2>4, <2>5, <2>6, <2>7, <2>8, Assemble
<1>5. CASE UNCHANGED disk
  <2>1. Touches(e, w)
    BY <1>2, <1>3, <1>5 DEF Touches, Notes, Elsewhere, FreeOp
  <2>2. TypeOK' /\ OpInPlace'
    BY <1>2, <1>3, <1>5 DEF TypeOK, OpInPlace, FreeOp
  <2>3. InPlace(e)' /\ e \notin Readable("completed")' \union Readable("dlq")'
    BY <1>2, <1>3, <1>5 DEF IInv, FilesInPlace, InPlace, Readable
  <2>4. e \in Kept' => e \in Kept
    BY <1>2, <1>3, <1>5 DEF Kept, Live, FreeOp, Readable
  <2>5. PromiseStep
    <3>1. \A d \in Dirs \ {"processing"} : e \notin Readable(d)'
      BY <1>2, <1>5 DEF Readable, Dirs
    <3> QED
      BY <1>1, <1>2, <1>3, <1>5, <2>1, <2>2, <3>1, PopGivesUp
  <2> QED
    BY <1>2, <1>3, <2>1, <2>2, <2>3, <2>4, <2>5, Assemble
<1> QED
  BY <1>2, <1>4, <1>5 DEF PopReadFails

LEMMA PopWriteFailsKeeps ==
    ASSUME IInv, PopWriteFails
    PROVE  IInv' /\ PromiseStep
<1> USE FileQueueAssumption
<1>1. op.step \in {"popRead", "popWrite"}
  BY DEF PopWriteFails, Locked
<1>2. PICK e \in Events, w \in Workers :
        /\ TypeOK /\ e = op.event /\ w = op.by /\ e # None /\ w # None
        /\ work[w] = IdleWork /\ \A v \in Workers : work[v].event # e
        /\ disk["pending"][e] = Absent /\ pushed[e] \notin {"new", "refused"}
        /\ e \notin Readable("pending") \union Readable("completed") \union Readable("dlq")
        /\ e \in Readable("processing") => pushed[e] = "accepted" /\ disk["processing"][e].status # "failed"
  BY <1>1, PopInPlace
<1>3. /\ op' = FreeOp /\ faults' = faults + 1 /\ faults < MaxFaults
      /\ UNCHANGED <<fresh, pushed, work, missed>>
  BY DEF PopWriteFails, Release, Fault
<1>4. CASE Rename("processing", "pending", e)
  <2>1. /\ disk' \in [Dirs -> [Events -> Files]]
        /\ disk'["processing"][e] = Absent /\ disk'["pending"][e] = disk["processing"][e]
        /\ \A b \in Dirs, f \in Events :
              b \notin {"processing", "pending"} \/ f # e => disk'[b][f] = disk[b][f]
    BY <1>2, <1>4, RenameFacts DEF Dirs
  <2>2. /\ e \in Readable("pending")' <=> e \in Readable("processing")
        /\ \A d \in Dirs \ {"pending"} : e \notin Readable(d)'
    BY <1>2, <2>1 DEF Readable, Dirs
  <2>3. Touches(e, w)
    BY <1>2, <1>3, <2>1 DEF Touches, Notes, Elsewhere, FreeOp
  <2>4. TypeOK' /\ OpInPlace'
    BY <1>2, <1>3, <2>1 DEF TypeOK, OpInPlace, FreeOp, Files
  <2>5. InPlace(e)' /\ e \notin Readable("completed")' \union Readable("dlq")'
    BY <1>2, <1>3, <2>1, <2>2 DEF InPlace, Dirs
  <2>6. e \in Kept' => e \in Kept
    BY <1>2, <1>3, <2>2 DEF Kept, Live, FreeOp, Dirs
  <2>7. PromiseStep
    BY <1>1, <1>2, <1>3, <2>1, <2>2, <2>3, <2>4, PopGivesUp
  <2> QED
    BY <1>2, <1>3, <2>3, <2>4, <2>5, <2>6, <2>7, Assemble
<1>5. CASE UNCHANGED disk
  <2>1. Touches(e, w)
    BY <1>2, <1>3, <1>5 DEF Touches, Notes, Elsewhere, FreeOp
  <2>2. TypeOK' /\ OpInPlace'
    BY <1>2, <1>3, <1>5 DEF TypeOK, OpInPlace, FreeOp
  <2>3. InPlace(e)' /\ e \notin Readable("completed")' \union Readable("dlq")'
    BY <1>2, <1>3, <1>5 DEF IInv, FilesInPlace, InPlace, Readable
  <2>4. e \in Kept' => e \in Kept
    BY <1>2, <1>3, <1>5 DEF Kept, Live, FreeOp, Readable
  <2>5. PromiseStep
    <3>1. \A d \in Dirs \ {"processing"} : e \notin Readable(d)'
      BY <1>2, <1>5 DEF Readable, Dirs
    <3> QED
      BY <1>1, <1>2, <1>3, <1>5, <2>1, <2>2, <3>1, PopGivesUp
  <2> QED
    BY <1>2, <1>3, <2>1, <2>2, <2>3, <2>4, <2>5, Assemble
<1> QED
  BY <1>2, <1>4, <1>5 DEF PopWriteFails

\* The worker forgets an event whose files stay as they are.
LEMMA ForgetKeeps ==
    ASSUME IInv, NEW e \in Events, NEW w \in Workers, w # None, Fault, Return(w), Release,
           op.event \in {e, None}, op.by \in {w, None},
           \A v \in Workers \ {w} : work[v].event # e,
           op.step = "free" => work[w].event = e, op.step # "popWrite",
           pushed[e] = "accepted", UNCHANGED <<disk, fresh, pushed, missed>>
    PROVE  IInv' /\ PromiseStep
<1> USE FileQueueAssumption
<1>1. /\ TypeOK /\ op' = FreeOp /\ work' = [work EXCEPT ![w] = IdleWork]
      /\ faults' = faults + 1 /\ faults < MaxFaults
  BY DEF IInv, Fault, Return, Release
<1>2. Touches(e, w) /\ work'[w] = IdleWork
  BY <1>1 DEF Touches, Notes, Elsewhere, FreeOp, TypeOK
<1>3. TypeOK' /\ OpInPlace'
  BY <1>1 DEF TypeOK, OpInPlace, FreeOp, IdleWork
<1>4. InPlace(e)'
  BY <1>1 DEF IInv, FilesInPlace, InPlace, Readable
<1>5. Waiting(e)' => e \notin Readable("completed")' \union Readable("dlq")'
  <2>1. Waiting(e)' => disk["pending"][e] # Absent
    BY <1>1, <1>2 DEF Waiting, FreeOp, IdleWork, Touches
  <2>2. disk["pending"][e] # Absent => Waiting(e)
    BY DEF Waiting
  <2> QED
    BY <2>1, <2>2 DEF IInv, FilesInPlace, Readable
<1>6. e \in Kept' => e \in Kept
  BY <1>1 DEF Kept, Live, FreeOp, Readable
<1>7. PromiseStep
  <2>1. OthersStay(e)
    BY <1>2, PlaceElsewhere
  <2>2. \A d \in Dirs : Readable(d)' = Readable(d)
    BY DEF Readable
  <2>3. CASE op.step \in {"failOpen", "failWrite"}
    <3>1. op.event = e /\ \A d \in Dirs : e \notin Readable(d)
      BY <2>3, FailInPlace
    <3>2. PlaceOf(e) = "processing" /\ PlaceOf(e)' = "lost" /\ TriesOf(e)' = 0
      BY <1>1, <2>2, <2>3, <3>1 DEF PlaceOf, TriesOf, InOp, FreeOp, Dirs
    <3> QED
      BY <1>1, <1>3, <2>1, <3>2, OneEventMoves DEF Moves
  <2>4. CASE op.step \notin {"failOpen", "failWrite"}
    <3>1. PlaceOf(e)' = PlaceOf(e)
      BY <1>1, <2>2, <2>4 DEF PlaceOf, InOp, FreeOp, Dirs
    <3>2. TriesOf(e)' = TriesOf(e)
      BY <1>1, <2>4, <3>1 DEF TriesOf, InOp, FreeOp
    <3> QED
      BY <1>1, <1>3, <2>1, <3>1, <3>2, OneEventMoves
  <2> QED
    BY <2>3, <2>4
<1> QED
  BY <1>1, <1>2, <1>3, <1>4, <1>5, <1>6, <1>7, Assemble

LEMMA CompleteFailsKeeps ==
    ASSUME IInv, NEW w \in Workers, CompleteFails(w)
    PROVE  IInv' /\ PromiseStep
<1> USE FileQueueAssumption
<1>1. Fault /\ Return(w) /\ Release /\ UNCHANGED <<fresh, pushed, missed>>
  BY DEF CompleteFails
<1>2. CASE op.step = "free" /\ work[w].step = "complete" /\ UNCHANGED disk
  <2>1. PICK e \in Events :
        /\ op = FreeOp /\ e = work[w].event /\ w # None /\ pushed[e] = "accepted"
        /\ \A v \in Workers \ {w} : work[v].event # e
    BY <1>2, HeldInPlace
  <2> QED
    BY <1>1, <1>2, <2>1, ForgetKeeps DEF FreeOp
<1>3. CASE op.step \in {"completeWrite", "completeRemove"} /\ op.by = w /\ UNCHANGED disk
  <2>1. PICK e \in Events :
        /\ e = op.event /\ w # None /\ pushed[e] = "accepted"
        /\ \A v \in Workers \ {w} : work[v].event # e
    BY <1>3, CompleteInPlace
  <2> QED
    BY <1>1, <1>3, <2>1, ForgetKeeps
<1>4. ASSUME op.step = "completeWrite", op.by = w,
             NEW left \in {Absent, Torn}, Write("completed", op.event, left)
      PROVE  IInv' /\ PromiseStep
  <2>1. PICK e \in Events :
        /\ TypeOK /\ e = op.event /\ e # None /\ w # None
        /\ \A v \in Workers \ {w} : work[v].event # e
        /\ disk["pending"][e] = Absent /\ pushed[e] = "accepted"
        /\ e \notin Readable("pending") /\ e \in Readable("processing")
        /\ disk["processing"][e].status # "failed"
        /\ e \notin Readable("completed") \union Readable("dlq")
    BY <1>4, CompleteInPlace
  <2>2. /\ op' = FreeOp /\ work' = [work EXCEPT ![w] = IdleWork]
        /\ faults' = faults + 1 /\ faults < MaxFaults
    BY <1>1 DEF Fault, Return, Release
  <2>3. /\ disk' \in [Dirs -> [Events -> Files]]
        /\ disk'["completed"][e] = left
        /\ \A c \in Dirs, f \in Events : c # "completed" \/ f # e => disk'[c][f] = disk[c][f]
    BY <1>4, <2>1, WriteFacts DEF Files, Dirs
  <2>4. Touches(e, w) /\ work'[w] = IdleWork
    BY <1>1, <1>4, <2>1, <2>2, <2>3 DEF Touches, Notes, Elsewhere, FreeOp, TypeOK
  <2>5. TypeOK' /\ OpInPlace'
    BY <1>1, <2>1, <2>2, <2>3 DEF TypeOK, OpInPlace, FreeOp, IdleWork, Files
  <2>6. /\ e \in Readable("processing")' /\ disk'["processing"][e] = disk["processing"][e]
        /\ disk'["pending"][e] = Absent /\ e \notin Readable("pending")'
        /\ e \notin Readable("completed")' \union Readable("dlq")'
    BY <2>1, <2>3 DEF Readable, Dirs
  <2>7. InPlace(e)'
    BY <1>1, <2>1, <2>6 DEF InPlace
  <2>8. e \in Kept
    BY <2>1 DEF Kept, Live
  <2>9. PromiseStep
    <3>1. PlaceOf(e) = "processing" /\ TriesOf(e) = disk["processing"][e].retries
      BY <1>4, <2>1 DEF PlaceOf, TriesOf, InOp
    <3>2. PlaceOf(e)' = "processing" /\ TriesOf(e)' = disk["processing"][e].retries
      BY <1>1, <2>1, <2>2, <2>6 DEF PlaceOf, TriesOf, InOp, FreeOp
    <3> QED
      BY <2>1, <2>4, <2>5, <3>1, <3>2, PlaceElsewhere, OneEventMoves
  <2> QED
    BY <2>1, <2>2, <2>4, <2>5, <2>6, <2>7, <2>8, <2>9, Assemble
<1> QED
  BY <1>2, <1>3, <1>4 DEF CompleteFails, Locked

LEMMA FailFailsKeeps ==
    ASSUME IInv, NEW w \in Workers, FailFails(w)
    PROVE  IInv' /\ PromiseStep
<1>1. Fault /\ Return(w) /\ Release /\ UNCHANGED <<disk, fresh, pushed, missed>>
  BY DEF FailFails
<1>2. CASE op.step = "free" /\ work[w].step = "fail"
  <2>1. PICK e \in Events :
        /\ op = FreeOp /\ e = work[w].event /\ w # None /\ pushed[e] = "accepted"
        /\ \A v \in Workers \ {w} : work[v].event # e
    BY <1>2, HeldInPlace
  <2> QED
    BY <1>1, <1>2, <2>1, ForgetKeeps DEF FreeOp
<1>3. CASE op.step \in {"failOpen", "failWrite"} /\ op.by = w
  <2>1. PICK e \in Events :
        /\ e = op.event /\ w # None /\ pushed[e] = "accepted"
        /\ \A v \in Workers \ {w} : work[v].event # e
    BY <1>3, FailInPlace
  <2> QED
    BY <1>1, <1>3, <2>1, ForgetKeeps
<1> QED
  BY <1>2, <1>3 DEF FailFails, Locked

LEMMA CrashKeeps ==
    ASSUME IInv, Crash
    PROVE  IInv' /\ PromiseStep
<1> USE FileQueueAssumption
<1>1. /\ TypeOK /\ op' = FreeOp /\ work' = [w \in Workers |-> IdleWork]
      /\ faults' = faults + 1 /\ faults < MaxFaults /\ UNCHANGED <<disk, fresh, missed>>
      /\ pushed' = IF op.step = "pushWrite" THEN [pushed EXCEPT ![op.event] = "rejected"] ELSE pushed
  BY DEF IInv, Crash, Fault, Locked
<1>2. op.step = "pushWrite" => op.event \in Events /\ FilesOf(op.event, Torn, Absent, Absent, Absent)
  BY DEF IInv, OpInPlace, FilesOf, Dirs
<1>3. TypeOK' /\ OpInPlace'
  BY <1>1, <1>2 DEF TypeOK, OpInPlace, FreeOp, IdleWork
<1>4. WorkInPlace' /\ HeldExclusively'
  BY <1>1 DEF WorkInPlace, HeldExclusively, IdleWork
<1>5. \A d \in Dirs : Readable(d)' = Readable(d)
  BY <1>1 DEF Readable
<1>6. FilesInPlace'
  <2> SUFFICES ASSUME NEW e \in Events
               PROVE  InPlace(e)' /\ (Waiting(e)' => e \notin Readable("completed")' \union Readable("dlq")')
    BY DEF FilesInPlace
  <2>1. InPlace(e) /\ (Waiting(e) => e \notin Readable("completed") \union Readable("dlq"))
    BY DEF IInv, FilesInPlace
  <2>2. Waiting(e)' => Waiting(e)
    BY <1>1 DEF Waiting, FreeOp, IdleWork
  <2>3. pushed'[e] = pushed[e] \/ (pushed'[e] = "rejected" /\ op.step = "pushWrite" /\ e = op.event)
    BY <1>1, <1>2 DEF TypeOK
  <2>4. InPlace(e)'
    <3>1. CASE pushed'[e] = "rejected" /\ op.step = "pushWrite" /\ e = op.event
      BY <1>1, <1>2, <1>5, <3>1 DEF InPlace, FilesOf, Readable, Dirs
    <3>2. CASE pushed'[e] = pushed[e]
      <4>1. pushed[e] \in {"new", "refused"} => op.event # e
        <5>1. op.step \in {"popRead", "popWrite"} /\ op.event = e => pushed[e] \notin {"new", "refused"}
          BY PopInPlace
        <5>2. op.step \in {"completeWrite", "completeRemove"} /\ op.event = e => pushed[e] = "accepted"
          BY CompleteInPlace
        <5>3. op.step \in {"failOpen", "failWrite"} /\ op.event = e => pushed[e] = "accepted"
          BY FailInPlace
        <5>4. op.step = "pushWrite" /\ op.event = e => pushed'[e] = "rejected" /\ pushed[e] = "new"
          BY <1>1 DEF TypeOK, IInv, OpInPlace
        <5>5. op.step = "free" => op.event # e
          BY DEF IInv, OpInPlace, FreeOp
        <5>6. op.step \in {"free", "pushWrite", "popRead", "popWrite", "completeWrite",
                           "completeRemove", "failOpen", "failWrite"}
          BY <1>1 DEF TypeOK
        <5> QED
          BY <3>2, <5>1, <5>2, <5>3, <5>4, <5>5, <5>6
      <4> QED
        BY <1>1, <1>5, <2>1, <3>2, <4>1 DEF InPlace, Readable, Dirs
    <3> QED
      BY <2>3, <3>1, <3>2
  <2> QED
    BY <1>5, <2>1, <2>2, <2>4 DEF Dirs
<1>7. OneKeptPerFingerprint'
  <2>1. Kept' \subseteq Kept
    BY <1>1, <1>5 DEF Kept, Live, FreeOp, Dirs
  <2> QED
    BY <1>1, <2>1 DEF IInv, OneKeptPerFingerprint
<1>8. FewLost'
  <2>1. Lost' \subseteq Lost \union {op.event}
    BY <1>1, <1>2, <1>5 DEF Lost, TypeOK
  <2>2. FewLost /\ faults \in Nat
    BY DEF IInv, TypeOK
  <2> QED
    BY <1>1, <2>1, <2>2, OneMoreLost
<1>9. PromiseStep
  <2>1. CASE op.step \in {"pushWrite", "popWrite", "failOpen", "failWrite"}
    <3>1. PICK e \in Events : e = op.event /\ e # None
      BY <2>1 DEF IInv, OpInPlace
    <3>2. OthersStay(e)
      <4>0. Notes(e)
        BY <1>1 DEF Notes
      <4> SUFFICES ASSUME NEW f \in Events \ {e}
                   PROVE  PlaceOf(f)' = PlaceOf(f) /\ TriesOf(f)' = TriesOf(f) /\ (f \in fresh' <=> f \in fresh)
        BY <4>0 DEF OthersStay
      <4>1. \A steps : ~InOp(f, steps) /\ ~InOp(f, steps)'
        BY <1>1, <3>1 DEF InOp, FreeOp
      <4>2. pushed'[f] = pushed[f]
        BY <1>1, <3>1 DEF TypeOK
      <4>3. PlaceOf(f)' = PlaceOf(f)
        BY <1>1, <1>5, <4>1, <4>2 DEF PlaceOf, Dirs
      <4> QED
        BY <1>1, <4>1, <4>3 DEF TriesOf
    <3>3. CASE op.step = "pushWrite"
      <4>1. pushed[e] = "new" /\ pushed'[e] = "rejected"
        BY <1>1, <3>1, <3>3 DEF IInv, OpInPlace, TypeOK
      <4>2. Moves(e, "new", "rejected") /\ TriesOf(e) = 0 /\ TriesOf(e)' = 0
        BY <1>1, <3>1, <3>3, <4>1 DEF Moves, PlaceOf, TriesOf, InOp, FreeOp
      <4> QED
        BY <1>1, <1>3, <3>2, <4>2, OneEventMoves
    <3>4. CASE op.step \in {"popWrite", "failOpen", "failWrite"}
      <4>1. pushed[e] = "accepted" /\ pushed' = pushed /\ \A d \in Dirs : e \notin Readable(d)
        <5>1. CASE op.step = "popWrite"
          <6>1. disk["processing"][e] = Torn /\ pushed[e] = "accepted"
                /\ e \notin Readable("pending") \union Readable("completed") \union Readable("dlq")
            BY <3>1, <5>1, PopInPlace
          <6> QED
            BY <1>1, <5>1, <6>1 DEF Readable, Dirs
        <5>2. CASE op.step \in {"failOpen", "failWrite"}
          BY <1>1, <3>1, <5>2, FailInPlace
        <5> QED
          BY <3>4, <5>1, <5>2
      <4>2. Moves(e, "processing", "lost") /\ TriesOf(e)' = 0
        BY <1>1, <1>5, <3>1, <3>4, <4>1 DEF Moves, PlaceOf, TriesOf, InOp, FreeOp, Dirs
      <4> QED
        BY <1>1, <1>3, <3>2, <4>2, OneEventMoves
    <3> QED
      BY <2>1, <3>3, <3>4
  <2>2. CASE op.step \notin {"pushWrite", "popWrite", "failOpen", "failWrite"}
    <3>1. \A f \in Events : PlaceOf(f)' = PlaceOf(f)
      BY <1>1, <1>5, <2>2 DEF PlaceOf, InOp, FreeOp, Dirs
    <3>2. \A f \in Events : TriesOf(f)' = TriesOf(f)
      BY <1>1, <2>2, <3>1 DEF TriesOf, InOp, FreeOp
    <3>3. {f \in fresh : PlaceOf(f) = "completed"}' = {f \in fresh : PlaceOf(f) = "completed"}
      BY <1>1, <3>1 DEF TypeOK
    <3> QED
      BY <1>1, <2>2, <3>1, <3>2, <3>3 DEF PromiseStep, Promise!queueVars
  <2> QED
    BY <2>1, <2>2
<1> QED
  BY <1>3, <1>4, <1>6, <1>7, <1>8, <1>9 DEF IInv

LEMMA AgeOutKeeps ==
    ASSUME IInv, NEW e \in Events, AgeOut(e)
    PROVE  IInv' /\ PromiseStep
<1> USE DEF AgeOut
<1>1. TypeOK' /\ WorkInPlace' /\ HeldExclusively'
  BY DEF IInv, TypeOK, WorkInPlace, HeldExclusively, Readable
<1>2. OpInPlace'
  BY DEF IInv, OpInPlace, Live, Readable, Exhausted
<1>3. FilesInPlace'
  BY DEF IInv, FilesInPlace, InPlace, Waiting, Readable
<1>4. OneKeptPerFingerprint'
  <2>1. Kept' \subseteq Kept
    BY DEF Kept, Live, Readable
  <2> QED
    BY <2>1 DEF IInv, OneKeptPerFingerprint
<1>5. FewLost'
  BY DEF IInv, FewLost, Lost, Readable
<1>6. PromiseStep
  <2>1. \A f \in Events : PlaceOf(f)' = PlaceOf(f) /\ TriesOf(f)' = TriesOf(f)
    BY DEF PlaceOf, TriesOf, InOp, Readable
  <2>2. OthersStay(e) /\ e \in fresh /\ e \notin fresh'
    BY <2>1 DEF OthersStay, Notes
  <2> QED
    BY <1>1, <2>1, <2>2, OneEventMoves DEF IInv
<1> QED
  BY <1>1, <1>2, <1>3, <1>4, <1>5, <1>6 DEF IInv

-----------------------------------------------------------------------------

\* Every step keeps the invariant and is a step of EventQueue, or none.
LEMMA StepKeeps ==
    ASSUME IInv, [Next]_vars
    PROVE  IInv' /\ PromiseStep
<1>1. CASE \E e \in Events : Push(e) \/ AgeOut(e)
  BY <1>1, PushKeeps, AgeOutKeeps
<1>2. CASE Continue
  BY <1>2, PushWriteKeeps, PopReadKeeps, PopWriteKeeps, CompleteWriteKeeps, CompleteRemoveKeeps,
     FailOpenKeeps, FailWriteKeeps DEF Continue
<1>3. CASE \E w \in Workers : Enter(w)
  BY <1>3, PopRenameKeeps, CompleteOpenKeeps, FailRemoveKeeps DEF Enter
<1>4. CASE \E w \in Workers, next \in {"complete", "fail"} : Decide(w, next)
  BY <1>4, DecideKeeps
<1>5. CASE Faults
  BY <1>5, ScanFailsKeeps, PushFailsKeeps, PopReadFailsKeeps, PopWriteFailsKeeps, CrashKeeps, CompleteFailsKeeps,
     FailFailsKeeps DEF Faults
<1>6. CASE UNCHANGED vars
  BY <1>6 DEF vars, IInv, TypeOK, OpInPlace, WorkInPlace, FilesInPlace, InPlace, Waiting,
              HeldExclusively, OneKeptPerFingerprint, Kept, Live, FewLost, Lost, Readable, Exhausted,
              PromiseStep, Promise!queueVars, PlaceOf, TriesOf, InOp
<1> QED
  BY <1>1, <1>2, <1>3, <1>4, <1>5, <1>6 DEF Next

\* The inductive invariant holds in every state, whatever fails.
THEOREM Invariance == Spec => []IInv
<1>1. Init => IInv
  <2> SUFFICES ASSUME Init PROVE IInv
    OBVIOUS
  <2> USE FileQueueAssumption DEF Init
  <2>1. TypeOK /\ OpInPlace /\ WorkInPlace /\ HeldExclusively
    BY DEF TypeOK, OpInPlace, WorkInPlace, HeldExclusively, FreeOp, IdleWork
  <2>2. \A d \in Dirs : Readable(d) = {}
    BY DEF Readable
  <2>3. FilesInPlace
    BY <2>2 DEF FilesInPlace, InPlace, Waiting, FreeOp, IdleWork, Dirs
  <2>4. OneKeptPerFingerprint
    BY <2>2 DEF OneKeptPerFingerprint, Kept, Live, FreeOp, Dirs
  <2>5. FewLost
    <3>1. Lost = {}
      BY DEF Lost
    <3> QED
      BY <3>1, FS_EmptySet DEF FewLost
  <2> QED
    BY <2>1, <2>3, <2>4, <2>5 DEF IInv
<1>2. IInv /\ [Next]_vars => IInv'
  BY StepKeeps
<1> QED
  BY <1>1, <1>2, PTL DEF Spec

\* Two events with one fingerprint are never both in the queue or its dedup
\* window.
THEOREM AlwaysOneLivePerFingerprint == Spec => []OneLivePerFingerprint
<1>1. IInv => OneLivePerFingerprint
  BY DEF IInv, OneKeptPerFingerprint, OneLivePerFingerprint, Kept
<1> QED
  BY <1>1, Invariance, PTL

\* What a worker has is the file in processing, and nobody else has it.
THEOREM AlwaysHeldExclusively == Spec => []HeldExclusively
<1>1. IInv => HeldExclusively
  BY DEF IInv
<1> QED
  BY <1>1, Invariance, PTL

\* No more accepted events are gone than operations have failed.
THEOREM LossAlwaysBounded == Spec => []LossBounded
<1>1. IInv => LossBounded
  <2> SUFFICES ASSUME IInv PROVE LossBounded
    OBVIOUS
  <2>1. /\ IsFiniteSet(Lost) /\ Cardinality(Lost) <= faults /\ faults \in Nat
    BY FileQueueAssumption DEF IInv, FewLost, TypeOK
  <2>2. Gone \in SUBSET Lost
    BY DEF Gone, Lost
  <2>3. IsFiniteSet(Gone) /\ Cardinality(Gone) <= Cardinality(Lost)
    <3> HIDE DEF Gone, Lost
    <3> QED
      BY <2>1, <2>2, FS_Subset
  <2>4. Cardinality(Gone) \in Nat /\ Cardinality(Lost) \in Nat
    BY <2>1, <2>3, FS_CardinalityType
  <2> QED
    BY <2>1, <2>3, <2>4 DEF LossBounded
<1> QED
  BY <1>1, Invariance, PTL

\* The file queue implements the queue of EventQueue.
THEOREM ImplementsEventQueue == Spec => KeepsPromise
<1>1. Init => Promise!QueueInit
  <2> SUFFICES ASSUME Init PROVE Promise!QueueInit
    OBVIOUS
  <2>1. \A e \in Events : PlaceOf(e) = "new" /\ TriesOf(e) = 0
    BY DEF Init, PlaceOf, TriesOf, InOp, FreeOp
  <2>2. fresh = {}
    BY DEF Init
  <2> QED
    BY <2>1, <2>2 DEF Promise!QueueInit, Init
<1>2. IInv /\ [Next]_vars => PromiseStep
  BY StepKeeps
<1> QED
  BY <1>1, <1>2, Invariance, PTL DEF Spec, KeepsPromise, Promise!QueueSpec, PromiseStep

-----------------------------------------------------------------------------
(***************************************************************************)
(* The processors                                                          *)
(***************************************************************************)

\* What DeadAfterAllAttempts and CompletedSucceeded say of one event.
SettledFairly(e) ==
    /\ e \in Readable("dlq") /\ disk["dlq"][e].status = "failed" => Attempted(e, MaxRetries + 1)
    /\ e \in Readable("completed") \intersect Monitoring \intersect Wanted =>
          e \in confirmed \union limited \union silenced

Account(e) == TriedWithin(e) /\ CountedOnDisk(e) /\ CountedInWork(e) /\ SettledFairly(e)

Accounts == \A e \in Events : Account(e)

\* No worker or file is now where it says something of e it did not say before.
NothingNew(e) ==
    /\ pushed'[e] # "accepted" => pushed[e] # "accepted"
    /\ \A d \in Dirs \ {"processing"} :
          e \in Readable(d)' => e \in Readable(d) /\ disk'[d][e] = disk[d][e]
    /\ op'.event = e /\ op'.step \in {"popRead", "popWrite"} =>
          op' = op /\ disk'["processing"][e] = disk["processing"][e]
    /\ \A v \in Workers : work'[v].event = e => work'[v] = work[v]

SameHistory(e) ==
    /\ tried'[e] = tried[e] /\ posted'[e] = posted[e]
    /\ e \in confirmed' <=> e \in confirmed
    /\ e \in limited \union silenced => e \in limited' \union silenced'

LEMMA AccountKept ==
    ASSUME NEW e \in Events, Account(e), NothingNew(e), SameHistory(e)
    PROVE  Account(e)'
<1>1. TriedWithin(e)'
  BY DEF Account, TriedWithin, Attempted, NothingNew, SameHistory
<1>2. CountedOnDisk(e)'
  <2>1. e \in Readable("processing")' /\ disk'["processing"][e] = disk["processing"][e] =>
          e \in Readable("processing")
    BY DEF Readable
  <2> QED
    BY <2>1 DEF Account, CountedOnDisk, Attempted, NothingNew, SameHistory, InOp, Dirs
<1>3. CountedInWork(e)'
  BY DEF Account, CountedInWork, Attempted, NothingNew, SameHistory
<1>4. SettledFairly(e)'
  BY DEF Account, SettledFairly, Attempted, NothingNew, SameHistory, Dirs
<1> QED
  BY <1>1, <1>2, <1>3, <1>4 DEF Account

\* A step of the queue about one event says nothing new of the others.
LEMMA NothingNewElsewhere ==
    ASSUME None \notin Events, NEW e \in Events, NEW w, Touches(e, w),
           w \in Workers => work'[w] = work[w] \/ work'[w].event \in {e, None}
    PROVE  \A f \in Events \ {e} : NothingNew(f)
BY DEF Touches, Notes, Elsewhere, NothingNew, Readable, Dirs

\* What a step of the queue about one event has to show.
LEMMA OneAccount ==
    ASSUME None \notin Events, Accounts, UNCHANGED processorVars, NEW e \in Events, NEW w,
           Touches(e, w), w \in Workers => work'[w] = work[w] \/ work'[w].event \in {e, None},
           NothingNew(e) \/ Account(e)'
    PROVE  Accounts'
<1>1. \A f \in Events : SameHistory(f)
  BY DEF SameHistory, processorVars, history
<1>2. \A f \in Events \ {e} : NothingNew(f)
  BY NothingNewElsewhere
<1> QED
  BY <1>1, <1>2, AccountKept DEF Accounts

\* Workers that dispatch an event go on doing so.
LEMMA SendingKept ==
    ASSUME SendingWanted, UNCHANGED sending,
           \A v \in Workers : work[v].step = "dispatch" => work'[v] = work[v],
           sending \subseteq Workers
    PROVE  SendingWanted'
BY DEF SendingWanted

-----------------------------------------------------------------------------

\* A step that leaves no readable file, and gives no worker anything.
LEMMA BlankAccounts ==
    ASSUME TypeOK, None \notin Events, Accounts, UNCHANGED processorVars,
           \A f \in Events : pushed'[f] # "accepted" => pushed[f] # "accepted",
           \/ UNCHANGED disk
           \/ \E d \in Dirs, e \in Events, x \in {Absent, Torn} : Write(d, e, x),
           UNCHANGED work \/ \E w \in Workers : Return(w),
           op'.step \notin {"popRead", "popWrite"}
    PROVE  Accounts'
<1>1. \A f \in Events, d \in Dirs :
        f \in Readable(d)' => f \in Readable(d) /\ disk'[d][f] = disk[d][f]
  <2>1. CASE UNCHANGED disk
    BY <2>1 DEF Readable
  <2>2. ASSUME NEW c \in Dirs, NEW e \in Events, NEW x \in {Absent, Torn}, Write(c, e, x)
        PROVE  \A f \in Events, d \in Dirs :
                 f \in Readable(d)' => f \in Readable(d) /\ disk'[d][f] = disk[d][f]
    <3>1. /\ disk'[c][e] = x
          /\ \A d \in Dirs, f \in Events : d # c \/ f # e => disk'[d][f] = disk[d][f]
      BY <2>2, WriteFacts DEF Files
    <3> QED
      BY <3>1 DEF Readable
  <2> QED
    BY <2>1, <2>2
<1>2. \A f \in Events, v \in Workers : work'[v].event = f => work'[v] = work[v]
  BY DEF TypeOK, Return, IdleWork
<1>3. \A f \in Events : NothingNew(f) /\ SameHistory(f)
  BY <1>1, <1>2 DEF NothingNew, SameHistory, processorVars, history
<1> QED
  BY <1>3, AccountKept DEF Accounts

LEMMA PushAccounts ==
    ASSUME IInv, Accounts, UNCHANGED processorVars, NEW e \in Events, Push(e)
    PROVE  Accounts'
<1> USE FileQueueAssumption
<1>1. TypeOK /\ op.step = "free" /\ pushed[e] = "new"
  BY DEF IInv, Push, Locked
<1>2. \/ UNCHANGED disk /\ op' = op /\ pushed' = [pushed EXCEPT ![e] = "refused"]
      \/ Write("pending", e, Torn) /\ op'.step = "pushWrite" /\ pushed' = pushed
  BY DEF Push, Answer, PushOpen, Take
<1>3. \A f \in Events : pushed'[f] # "accepted" => pushed[f] # "accepted"
  BY <1>1, <1>2 DEF TypeOK
<1>4. UNCHANGED work /\ "pending" \in Dirs
  BY DEF Push, Dirs
<1> QED
  BY <1>1, <1>2, <1>3, <1>4, BlankAccounts

LEMMA ScanFailsAccounts ==
    ASSUME IInv, Accounts, UNCHANGED processorVars, NEW e \in Events, ScanFails(e)
    PROVE  Accounts'
<1> USE FileQueueAssumption
<1>1. TypeOK /\ op.step = "free" /\ pushed[e] = "new"
  BY DEF IInv, ScanFails, Locked
<1>2. \/ /\ UNCHANGED disk /\ op' = op
         /\ \E outcome \in {"refused", "rejected"} : pushed' = [pushed EXCEPT ![e] = outcome]
      \/ Write("pending", e, Torn) /\ op'.step = "pushWrite" /\ pushed' = pushed
  BY DEF ScanFails, Answer, PushOpen, Take
<1>3. \A f \in Events : pushed'[f] # "accepted" => pushed[f] # "accepted"
  BY <1>1, <1>2 DEF TypeOK
<1>4. UNCHANGED work /\ "pending" \in Dirs
  BY DEF ScanFails, Dirs
<1> QED
  BY <1>1, <1>2, <1>3, <1>4, BlankAccounts

LEMMA PushWriteAccounts ==
    ASSUME IInv, Accounts, UNCHANGED processorVars, PushWrite
    PROVE  Accounts'
<1> USE FileQueueAssumption
<1> DEFINE x == [retries |-> 0, status |-> "pending"]
<1>1. PICK e \in Events :
        /\ e = op.event /\ e # None /\ op.by = None /\ pushed[e] = "new"
        /\ FilesOf(e, Torn, Absent, Absent, Absent)
        /\ \A v \in Workers : work[v].event # e
  BY DEF IInv, PushWrite, Locked, OpInPlace, FilesOf, Dirs
<1>2. TypeOK /\ x \in Files /\ x.retries = 0
  BY DEF IInv, Contents, Files
<1> HIDE DEF x
<1>3. /\ disk'["pending"][e] = x
      /\ \A c \in Dirs, f \in Events : c # "pending" \/ f # e => disk'[c][f] = disk[c][f]
  BY <1>1, <1>2, WriteFacts DEF PushWrite, Dirs, x
<1>4. /\ pushed' = [pushed EXCEPT ![e] = "accepted"]
      /\ op' = FreeOp /\ UNCHANGED <<fresh, work, missed, faults>>
  BY <1>1 DEF PushWrite, Release
<1>5. Touches(e, None) /\ pushed'[e] = "accepted"
  BY <1>1, <1>2, <1>3, <1>4 DEF Touches, Notes, Elsewhere, TypeOK, FreeOp
<1>6. Account(e)'
  <2>1. TriedWithin(e) /\ Attempted(e, 0)
    BY <1>1 DEF Accounts, Account, TriedWithin
  <2>2. e \notin Readable("completed")' \union Readable("dlq")'
    BY <1>1, <1>3 DEF Readable, FilesOf, Dirs
  <2> QED
    BY <1>1, <1>2, <1>3, <1>4, <1>5, <2>1, <2>2
       DEF Account, TriedWithin, CountedOnDisk, CountedInWork, SettledFairly, Attempted, InOp,
           FreeOp, processorVars, history
<1> QED
  BY <1>4, <1>5, <1>6, OneAccount

LEMMA PopRenameAccounts ==
    ASSUME IInv, Accounts, UNCHANGED processorVars, NEW w \in Workers, PopRename(w)
    PROVE  Accounts'
<1> USE FileQueueAssumption
<1>1. PICK e \in Candidates : Rename("pending", "processing", e) /\ Take("popRead", e, 0, w)
  BY DEF PopRename
<1>2. /\ TypeOK /\ op = FreeOp /\ e \in Events /\ e # None /\ w # None
      /\ op' = [step |-> "popRead", event |-> e, retries |-> 0, by |-> w]
      /\ UNCHANGED <<fresh, pushed, work, missed, faults>>
  BY <1>1 DEF IInv, PopRename, OpInPlace, Take, Candidates
<1>3. /\ disk["pending"][e] # Absent
      /\ e \notin Readable("completed") \union Readable("dlq")
  BY <1>1, <1>2 DEF IInv, FilesInPlace, InPlace, Waiting, Candidates, FreeOp, Dirs
<1>4. \A v \in Workers : work[v].event # e
  BY <1>2, <1>3 DEF IInv, HeldExclusively, WorkInPlace, IdleWork, FreeOp
<1>5. /\ disk'["pending"][e] = Absent /\ disk'["processing"][e] = disk["pending"][e]
      /\ \A b \in Dirs, f \in Events :
            b \notin {"pending", "processing"} \/ f # e => disk'[b][f] = disk[b][f]
  BY <1>1, <1>2, RenameFacts DEF Dirs
<1>6. Touches(e, w)
  BY <1>2, <1>4, <1>5 DEF Touches, Notes, Elsewhere, FreeOp
<1>7. Account(e)'
  <2>1. TriedWithin(e)
        /\ (e \in Readable("pending") => Attempted(e, disk["pending"][e].retries))
    BY <1>2 DEF Accounts, Account, CountedOnDisk
  <2>2. /\ e \in Readable("processing")' => e \in Readable("pending")
        /\ e \notin Readable("pending")'
        /\ e \notin Readable("completed")' \union Readable("dlq")'
    BY <1>3, <1>5 DEF Readable, Dirs
  <2> QED
    BY <1>2, <1>4, <1>5, <2>1, <2>2
       DEF Account, TriedWithin, CountedOnDisk, CountedInWork, SettledFairly, Attempted, InOp,
           processorVars, history
<1> QED
  BY <1>2, <1>6, <1>7, OneAccount

LEMMA PopReadAccounts ==
    ASSUME IInv, Accounts, UNCHANGED processorVars, PopRead
    PROVE  Accounts'
<1> USE FileQueueAssumption
<1>1. op.step = "popRead"
  BY DEF PopRead, Locked
<1>2. PICK e \in Events, w \in Workers :
        /\ TypeOK /\ e = op.event /\ w = op.by /\ e # None /\ w # None
        /\ \A v \in Workers : work[v].event # e
        /\ e \notin Readable("pending") \union Readable("completed") \union Readable("dlq")
        /\ disk["processing"][e] # Absent
  BY <1>1, PopInPlace
<1>3. UNCHANGED <<fresh, pushed, work, missed, faults>>
  BY DEF PopRead
<1>4. CASE disk["processing"][e] # Torn
  <2>1. /\ Write("processing", e, Torn)
        /\ op' = [op EXCEPT !.step = "popWrite", !.retries = disk["processing"][e].retries]
    BY <1>2, <1>4 DEF PopRead
  <2>2. /\ disk'["processing"][e] = Torn
        /\ \A c \in Dirs, f \in Events : c # "processing" \/ f # e => disk'[c][f] = disk[c][f]
    BY <1>2, <2>1, WriteFacts DEF Dirs, Files
  <2>3. /\ op'.step = "popWrite" /\ op'.event = e /\ op'.by = w
        /\ op'.retries = disk["processing"][e].retries
    BY <1>2, <2>1 DEF TypeOK
  <2>4. Touches(e, w)
    BY <1>2, <1>3, <2>2, <2>3 DEF Touches, Notes, Elsewhere
  <2>5. Account(e)'
    <3>1. TriedWithin(e) /\ Attempted(e, disk["processing"][e].retries)
      <4>1. e \in Readable("processing") /\ InOp(e, {"popRead"})
        BY <1>1, <1>2, <1>4 DEF Readable, InOp
      <4> QED
        BY <4>1 DEF Accounts, Account, CountedOnDisk
    <3>2. \A d \in Dirs : e \notin Readable(d)'
      BY <1>2, <2>2 DEF Readable, Dirs
    <3> QED
      BY <1>2, <1>3, <2>3, <3>1, <3>2
         DEF Account, TriedWithin, CountedOnDisk, CountedInWork, SettledFairly, Attempted, InOp,
             processorVars, history, Dirs
  <2> QED
    BY <1>3, <2>4, <2>5, OneAccount
<1>5. CASE disk["processing"][e] = Torn
  <2>1. Rename("processing", "dlq", e) /\ op' = FreeOp
    BY <1>2, <1>5 DEF PopRead, Release
  <2>2. /\ disk'["dlq"][e] = Torn
        /\ \A b \in Dirs, f \in Events :
              b \notin {"processing", "dlq"} \/ f # e => disk'[b][f] = disk[b][f]
    BY <1>2, <1>5, <2>1, RenameFacts DEF Dirs
  <2>3. Touches(e, w) /\ NothingNew(e)
    BY <1>2, <1>3, <2>1, <2>2 DEF Touches, Notes, Elsewhere, NothingNew, Readable, FreeOp, Dirs
  <2> QED
    BY <1>3, <2>3, OneAccount
<1> QED
  BY <1>4, <1>5

LEMMA PopWriteAccounts ==
    ASSUME IInv, Accounts, UNCHANGED processorVars, PopWrite
    PROVE  Accounts'
<1> USE FileQueueAssumption
<1>1. op.step = "popWrite"
  BY DEF PopWrite, Locked
<1>2. PICK e \in Events, w \in Workers :
        /\ TypeOK /\ e = op.event /\ w = op.by /\ e # None /\ w # None
        /\ \A v \in Workers : work[v].event # e
        /\ e \notin Readable("pending") \union Readable("completed") \union Readable("dlq")
  BY <1>1, PopInPlace
<1> DEFINE x == [retries |-> op.retries, status |-> "processing"]
           y == [step |-> "dispatch", event |-> e, retries |-> op.retries]
<1>3. x \in Files /\ y.step = "dispatch" /\ y.event = e /\ y.retries = op.retries
  BY <1>2 DEF TypeOK, Contents, Files
<1>4. /\ Write("processing", e, x) /\ work' = [work EXCEPT ![w] = y]
      /\ op' = FreeOp /\ UNCHANGED <<fresh, pushed, missed, faults>>
  BY <1>2 DEF PopWrite, Release
<1> HIDE DEF x, y
<1>5. \A c \in Dirs, f \in Events : c # "processing" \/ f # e => disk'[c][f] = disk[c][f]
  BY <1>2, <1>3, <1>4, WriteFacts DEF Dirs
<1>6. Touches(e, w) /\ work'[w] = y /\ \A v \in Workers \ {w} : work'[v].event # e
  BY <1>2, <1>4, <1>5 DEF Touches, Notes, Elsewhere, FreeOp, TypeOK
<1>7. Account(e)'
  <2>1. TriedWithin(e) /\ Attempted(e, op.retries)
    BY <1>1, <1>2 DEF Accounts, Account, CountedOnDisk, InOp
  <2>2. e \notin Readable("pending")' \union Readable("completed")' \union Readable("dlq")'
    BY <1>2, <1>5 DEF Readable, Dirs
  <2> QED
    BY <1>3, <1>4, <1>6, <2>1, <2>2
       DEF Account, TriedWithin, CountedOnDisk, CountedInWork, SettledFairly, Attempted, InOp,
           FreeOp, processorVars, history
<1> QED
  BY <1>3, <1>6, <1>7, OneAccount

\* The steps that take a file away, or leave one that cannot be read.
LEMMA CompleteOpenAccounts ==
    ASSUME IInv, Accounts, UNCHANGED processorVars, NEW w \in Workers, CompleteOpen(w)
    PROVE  Accounts'
<1> USE FileQueueAssumption
<1>1. PICK e \in Events : TypeOK /\ op = FreeOp /\ e = work[w].event
  BY HeldInPlace DEF CompleteOpen, Locked
<1>2. \/ Write("completed", e, Torn) /\ op'.step = "completeWrite" /\ UNCHANGED work
      \/ Return(w) /\ op'.step = "free" /\ UNCHANGED disk
  BY <1>1 DEF CompleteOpen, Take, FreeOp
<1>3. UNCHANGED pushed /\ "completed" \in Dirs
  BY DEF CompleteOpen, Dirs
<1> QED
  BY <1>1, <1>2, <1>3, BlankAccounts

LEMMA CompleteRemoveAccounts ==
    ASSUME IInv, Accounts, UNCHANGED processorVars, CompleteRemove
    PROVE  Accounts'
<1> USE FileQueueAssumption
<1>1. PICK e \in Events, w \in Workers : TypeOK /\ e = op.event /\ w = op.by
  BY CompleteInPlace DEF CompleteRemove, Locked
<1>2. /\ Write("processing", e, Absent) /\ Return(w)
      /\ op'.step = "free" /\ UNCHANGED pushed /\ "processing" \in Dirs
  BY <1>1 DEF CompleteRemove, Release, FreeOp, Dirs
<1> QED
  BY <1>1, <1>2, BlankAccounts

LEMMA FailRemoveAccounts ==
    ASSUME IInv, Accounts, UNCHANGED processorVars, NEW w \in Workers, FailRemove(w)
    PROVE  Accounts'
<1> USE FileQueueAssumption
<1>1. op.step = "free" /\ work[w].step = "fail"
  BY DEF FailRemove, Take
<1>2. PICK e \in Events : TypeOK /\ e = work[w].event
  BY <1>1, HeldInPlace
<1>3. /\ Write("processing", e, Absent) /\ op'.step = "failOpen"
      /\ UNCHANGED <<work, pushed>> /\ "processing" \in Dirs
  BY <1>2 DEF FailRemove, Take, Dirs
<1> QED
  BY <1>2, <1>3, BlankAccounts

LEMMA FailOpenAccounts ==
    ASSUME IInv, Accounts, UNCHANGED processorVars, FailOpen
    PROVE  Accounts'
<1> USE FileQueueAssumption
<1>1. PICK e \in Events : TypeOK /\ e = op.event
  BY FailInPlace DEF FailOpen, Locked
<1>2. /\ Write(FailDir, e, Torn) /\ op'.step = "failWrite"
      /\ UNCHANGED <<work, pushed>> /\ FailDir \in Dirs
  BY <1>1 DEF FailOpen, Proceed, FailDir, Dirs, TypeOK
<1> QED
  BY <1>1, <1>2, BlankAccounts

LEMMA PushFailsAccounts ==
    ASSUME IInv, Accounts, UNCHANGED processorVars, PushFails
    PROVE  Accounts'
<1> USE FileQueueAssumption
<1>1. PICK e \in Events : TypeOK /\ e = op.event /\ pushed[e] = "new"
  BY DEF IInv, PushFails, Locked, OpInPlace
<1>2. PICK left \in {Absent, Torn} : Write("pending", e, left)
  BY <1>1 DEF PushFails
<1>3. \A f \in Events : pushed'[f] # "accepted" => pushed[f] # "accepted"
  BY <1>1 DEF PushFails, TypeOK
<1>4. op'.step = "free" /\ UNCHANGED work /\ "pending" \in Dirs
  BY DEF PushFails, Release, FreeOp, Dirs
<1> QED
  BY <1>1, <1>2, <1>3, <1>4, BlankAccounts

LEMMA CompleteFailsAccounts ==
    ASSUME IInv, Accounts, UNCHANGED processorVars, NEW w \in Workers, CompleteFails(w)
    PROVE  Accounts'
<1> USE FileQueueAssumption
<1>1. TypeOK /\ Return(w) /\ op'.step = "free" /\ UNCHANGED pushed /\ "completed" \in Dirs
  BY DEF IInv, CompleteFails, Release, FreeOp, Dirs
<1>2. CASE UNCHANGED disk
  BY <1>1, <1>2, BlankAccounts
<1>3. ASSUME op.step = "completeWrite", NEW left \in {Absent, Torn},
             Write("completed", op.event, left)
      PROVE  Accounts'
  <2>1. op.event \in Events
    BY <1>3 DEF IInv, OpInPlace
  <2> QED
    BY <1>1, <1>3, <2>1, BlankAccounts
<1> QED
  BY <1>2, <1>3 DEF CompleteFails, Locked

LEMMA FailFailsAccounts ==
    ASSUME IInv, Accounts, UNCHANGED processorVars, NEW w \in Workers, FailFails(w)
    PROVE  Accounts'
<1>1. TypeOK /\ Return(w) /\ op'.step = "free" /\ UNCHANGED <<disk, pushed>>
  BY DEF IInv, FailFails, Release, FreeOp
<1> QED
  BY <1>1, BlankAccounts, FileQueueAssumption

LEMMA AgeOutAccounts ==
    ASSUME Accounts, UNCHANGED processorVars, NEW e \in Events, AgeOut(e)
    PROVE  Accounts'
<1>1. \A f \in Events : NothingNew(f) /\ SameHistory(f)
  BY DEF AgeOut, NothingNew, SameHistory, processorVars, history, Readable
<1> QED
  BY <1>1, AccountKept DEF Accounts

-----------------------------------------------------------------------------

\* An event is completed by the worker that decided so, and for its reason.
LEMMA CompleteWriteAccounts ==
    ASSUME IInv, Accounts, UNCHANGED processorVars, CompleteWrite
    PROVE  Accounts'
<1> USE FileQueueAssumption
<1>1. op.step = "completeWrite"
  BY DEF CompleteWrite, Locked
<1>2. PICK e \in Events, w \in Workers :
        /\ TypeOK /\ e = op.event /\ w = op.by /\ e # None /\ w # None
        /\ work[w] = [step |-> "complete", event |-> e, retries |-> op.retries]
        /\ \A v \in Workers \ {w} : work[v].event # e
        /\ e \notin Readable("pending") /\ op.retries \in 0..MaxRetries
        /\ e \notin Readable("completed") \union Readable("dlq")
  BY <1>1, CompleteInPlace
<1> DEFINE x == [retries |-> op.retries, status |-> "completed"]
<1>3. x \in Files
  BY <1>2 DEF Contents, Files
<1>4. /\ Write("completed", e, x) /\ fresh' = fresh \union {e}
      /\ op' = [op EXCEPT !.step = "completeRemove"] /\ UNCHANGED <<pushed, work, missed, faults>>
  BY <1>2 DEF CompleteWrite, Proceed
<1> HIDE DEF x
<1>5. \A c \in Dirs, f \in Events : c # "completed" \/ f # e => disk'[c][f] = disk[c][f]
  BY <1>2, <1>3, <1>4, WriteFacts DEF Dirs
<1>6. op'.step = "completeRemove" /\ op'.event = e /\ op'.by = w
  BY <1>2, <1>4 DEF TypeOK
<1>7. Touches(e, w)
  BY <1>2, <1>4, <1>5, <1>6 DEF Touches, Notes, Elsewhere
<1>8. Account(e)'
  <2>1. /\ TriedWithin(e)
        /\ e \in Monitoring \intersect Wanted => e \in confirmed \union limited \union silenced
    BY <1>2 DEF Accounts, Account, CountedInWork
  <2>2. e \notin Readable("pending")' \union Readable("dlq")'
    BY <1>2, <1>5 DEF Readable, Dirs
  <2>3. CountedInWork(e)'
    BY <1>2, <1>4 DEF Accounts, Account, CountedInWork, Attempted, processorVars, history
  <2> QED
    BY <1>4, <1>6, <2>1, <2>2, <2>3
       DEF Account, TriedWithin, CountedOnDisk, SettledFairly, Attempted, InOp, processorVars, history
<1> QED
  BY <1>4, <1>7, <1>8, OneAccount

\* A failed event is written with one attempt more than it had, or after all
\* of them.
LEMMA FailWriteAccounts ==
    ASSUME IInv, Accounts, UNCHANGED processorVars, FailWrite
    PROVE  Accounts'
<1> USE FileQueueAssumption
<1>1. op.step = "failWrite"
  BY DEF FailWrite, Locked
<1>2. PICK e \in Events, w \in Workers :
        /\ TypeOK /\ e = op.event /\ w = op.by /\ e # None /\ w # None
        /\ work[w] = [step |-> "fail", event |-> e, retries |-> op.retries]
        /\ \A v \in Workers \ {w} : work[v].event # e
        /\ op.retries \in 0..MaxRetries
        /\ \A d \in Dirs : e \notin Readable(d)
  BY <1>1, FailInPlace
<1>3. /\ Write(FailDir, e, FailContent) /\ work' = [work EXCEPT ![w] = IdleWork]
      /\ op' = FreeOp /\ UNCHANGED <<fresh, pushed, missed, faults>>
  BY <1>2 DEF FailWrite, Release, Return
<1>4. PICK to \in Dirs, x \in Files :
        /\ to = FailDir /\ to = IF Exhausted THEN "dlq" ELSE "pending"
        /\ x = FailContent
        /\ IF Exhausted THEN op.retries = MaxRetries ELSE x.retries = op.retries + 1
  <2>1. FailDir \in Dirs /\ FailDir = IF Exhausted THEN "dlq" ELSE "pending"
    BY DEF FailDir, Dirs
  <2>2. FailContent \in Contents
    BY <1>2 DEF FailContent, Contents, Exhausted
  <2>3. IF Exhausted THEN op.retries = MaxRetries ELSE FailContent.retries = op.retries + 1
    BY <1>2 DEF FailContent, Exhausted
  <2> QED
    BY <2>1, <2>2, <2>3 DEF Files
<1>5. /\ disk'[to][e] = x
      /\ \A c \in Dirs, f \in Events : c # to \/ f # e => disk'[c][f] = disk[c][f]
  <2>1. Write(to, e, x) /\ TypeOK
    BY <1>2, <1>3, <1>4
  <2> QED
    BY <2>1, WriteFacts
<1>6. Touches(e, w) /\ work'[w] = IdleWork
  BY <1>2, <1>3, <1>5 DEF Touches, Notes, Elsewhere, FreeOp, TypeOK
<1>7. \A v \in Workers : work'[v].event # e
  BY <1>2, <1>6 DEF Touches, IdleWork
<1>8. Account(e)'
  <2>1. TriedWithin(e) /\ Attempted(e, op.retries + 1)
    BY <1>2 DEF Accounts, Account, CountedInWork
  <2>2. \A d \in Dirs \ {to} : e \notin Readable(d)'
    BY <1>2, <1>5 DEF Readable
  <2>3. CASE Exhausted
    BY <1>3, <1>4, <1>7, <2>1, <2>2, <2>3
       DEF Account, TriedWithin, CountedOnDisk, CountedInWork, SettledFairly, Attempted, InOp,
           FreeOp, processorVars, history, Dirs
  <2>4. CASE ~Exhausted
    BY <1>3, <1>4, <1>5, <1>7, <2>1, <2>2, <2>4
       DEF Account, TriedWithin, CountedOnDisk, CountedInWork, SettledFairly, Attempted, InOp,
           FreeOp, processorVars, history, Dirs
  <2> QED
    BY <2>3, <2>4
<1> QED
  BY <1>6, <1>8, OneAccount DEF IdleWork

\* pop gives its event up: the file goes elsewhere as it was, or stays.
LEMMA PopFailsAccounts ==
    ASSUME IInv, Accounts, UNCHANGED processorVars, PopReadFails \/ PopWriteFails
    PROVE  Accounts'
<1> USE FileQueueAssumption
<1>1. /\ op.step \in {"popRead", "popWrite"} /\ op' = FreeOp
      /\ UNCHANGED <<fresh, pushed, work, missed>>
  BY DEF PopReadFails, PopWriteFails, Locked, Release
<1>2. PICK e \in Events, w \in Workers :
        /\ TypeOK /\ e = op.event /\ w = op.by /\ e # None /\ w # None
        /\ \A v \in Workers : work[v].event # e
        /\ e \notin Readable("pending") \union Readable("completed") \union Readable("dlq")
        /\ e \in Readable("processing") => disk["processing"][e].status # "failed"
        /\ op.step = "popWrite" => disk["processing"][e] = Torn
  BY <1>1, PopInPlace
<1>3. CASE UNCHANGED disk
  BY <1>1, <1>2, <1>3, BlankAccounts DEF FreeOp
<1>4. ASSUME NEW to \in {"dlq", "pending"}, Rename("processing", to, e)
      PROVE  Accounts'
  <2>1. /\ disk'["processing"][e] = Absent /\ disk'[to][e] = disk["processing"][e]
        /\ \A b \in Dirs, f \in Events :
              b \notin {"processing", to} \/ f # e => disk'[b][f] = disk[b][f]
    BY <1>2, <1>4, RenameFacts DEF Dirs
  <2>2. Touches(e, w)
    BY <1>1, <1>2, <2>1 DEF Touches, Notes, Elsewhere, FreeOp
  <2>3. /\ e \in Readable(to)' => e \in Readable("processing")
        /\ \A d \in Dirs \ {to} : e \notin Readable(d)'
    BY <1>2, <2>1 DEF Readable, Dirs
  <2>4. /\ TriedWithin(e)
        /\ e \in Readable("processing") => Attempted(e, disk["processing"][e].retries)
    <3>1. e \in Readable("processing") => InOp(e, {"popRead"})
      BY <1>1, <1>2 DEF InOp, Readable
    <3> QED
      BY <3>1 DEF Accounts, Account, CountedOnDisk
  <2>5. Account(e)'
    <3>1. TriedWithin(e)' /\ CountedInWork(e)'
      BY <1>1, <1>2, <2>4 DEF TriedWithin, CountedInWork, Attempted, processorVars, history
    <3>2. CountedOnDisk(e)'
      BY <1>1, <2>1, <2>3, <2>4 DEF CountedOnDisk, Attempted, InOp, FreeOp, processorVars, history, Dirs
    <3>3. SettledFairly(e)'
      BY <1>2, <2>1, <2>3 DEF SettledFairly, Dirs
    <3> QED
      BY <3>1, <3>2, <3>3 DEF Account
  <2> QED
    BY <1>1, <2>2, <2>5, OneAccount
<1> QED
  BY <1>2, <1>3, <1>4 DEF PopReadFails, PopWriteFails

\* The worker whose operation has the lock is not dispatching.
LEMMA OpWorker ==
    ASSUME IInv
    PROVE  /\ op.step = "popWrite" => op.by \in Workers /\ work[op.by].step = "idle"
           /\ op.step \in {"completeWrite", "completeRemove"} =>
                 op.by \in Workers /\ work[op.by].step = "complete"
           /\ op.step \in {"failOpen", "failWrite"} =>
                 op.by \in Workers /\ work[op.by].step = "fail"
<1>1. op.step = "popWrite" => op.by \in Workers /\ work[op.by].step = "idle"
  BY DEF IInv, OpInPlace
<1>2. op.step \in {"completeWrite", "completeRemove"} =>
         op.by \in Workers /\ work[op.by].step = "complete"
  BY DEF IInv, OpInPlace
<1>3. op.step \in {"failOpen", "failWrite"} => op.by \in Workers /\ work[op.by].step = "fail"
  BY DEF IInv, OpInPlace
<1> QED
  BY <1>1, <1>2, <1>3

\* The queue changes nothing of a worker that is dispatching its event.
LEMMA DispatchUndisturbed ==
    ASSUME IInv, QueueStep, NEW v \in Workers, work[v].step = "dispatch"
    PROVE  work'[v] = work[v]
<1>1. \/ work' = work \/ PopWrite \/ CompleteRemove \/ FailWrite
      \/ \E w \in Workers : CompleteOpen(w) \/ CompleteFails(w) \/ FailFails(w)
  BY DEF QueueStep, Push, ScanFails, AgeOut, Continue, PushWrite, PopRead, CompleteWrite, FailOpen, Enter,
         PopRename, FailRemove, PushFails, PopReadFails, PopWriteFails
<1>2. TypeOK
  BY DEF IInv
<1>3. CASE PopWrite
  BY <1>2, <1>3, OpWorker DEF PopWrite, Locked, TypeOK
<1>4. CASE CompleteRemove
  BY <1>2, <1>4, OpWorker DEF CompleteRemove, Locked, Return, TypeOK
<1>5. CASE FailWrite
  BY <1>2, <1>5, OpWorker DEF FailWrite, Locked, Return, TypeOK
<1>6. ASSUME NEW w \in Workers, CompleteOpen(w) \/ CompleteFails(w) \/ FailFails(w)
      PROVE  work'[v] = work[v]
  <2>1. work[w].step # "dispatch"
    BY <1>6, OpWorker DEF CompleteOpen, CompleteFails, FailFails, Locked
  <2>2. work' = work \/ work' = [work EXCEPT ![w] = IdleWork]
    BY <1>6 DEF CompleteOpen, CompleteFails, FailFails, Return
  <2> QED
    BY <1>2, <2>1, <2>2 DEF TypeOK
<1> QED
  BY <1>1, <1>3, <1>4, <1>5, <1>6

LEMMA QueueStepAccounts ==
    ASSUME IInv, Accounts, QueueStep
    PROVE  Accounts'
<1>1. UNCHANGED processorVars
  BY DEF QueueStep
<1>2. CASE \E e \in Events : Push(e) \/ ScanFails(e) \/ AgeOut(e)
  BY <1>1, <1>2, PushAccounts, ScanFailsAccounts, AgeOutAccounts
<1>3. CASE Continue
  BY <1>1, <1>3, PushWriteAccounts, PopReadAccounts, PopWriteAccounts, CompleteWriteAccounts,
     CompleteRemoveAccounts, FailOpenAccounts, FailWriteAccounts DEF Continue
<1>4. CASE \E w \in Workers : Enter(w)
  BY <1>1, <1>4, PopRenameAccounts, CompleteOpenAccounts, FailRemoveAccounts DEF Enter
<1>5. CASE \E w \in Workers : CompleteFails(w) \/ FailFails(w)
  BY <1>1, <1>5, CompleteFailsAccounts, FailFailsAccounts
<1>6. CASE PushFails \/ PopReadFails \/ PopWriteFails
  BY <1>1, <1>6, PushFailsAccounts, PopFailsAccounts
<1> QED
  BY <1>2, <1>3, <1>4, <1>5, <1>6 DEF QueueStep

-----------------------------------------------------------------------------

\* A worker that dispatches an event alone has it, and it is not settled.
LEMMA DispatchInPlace ==
    ASSUME IInv, NEW w \in Workers, work[w].step = "dispatch"
    PROVE  \E e \in Events :
             /\ e = work[w].event /\ op.event # e /\ pushed[e] = "accepted"
             /\ work[w].retries \in 0..MaxRetries
             /\ \A v \in Workers \ {w} : work[v].event # e
             /\ e \notin Readable("pending") \union Readable("completed") \union Readable("dlq")
<1> USE FileQueueAssumption
<1>1. PICK e \in Events : TypeOK /\ e = work[w].event /\ e # None
  BY DEF IInv, WorkInPlace
<1>2. op.step # "free" => op.by # w
  <2>1. op.step \in {"free", "pushWrite", "popRead", "popWrite", "completeWrite",
                     "completeRemove", "failOpen", "failWrite"}
    BY <1>1 DEF TypeOK
  <2>2. op.step = "pushWrite" => op.by # w
    BY DEF IInv, OpInPlace
  <2>3. op.step \in {"popRead", "popWrite"} => op.by # w
    BY DEF IInv, OpInPlace
  <2>4. op.step \in {"completeWrite", "completeRemove"} => op.by # w
    BY DEF IInv, OpInPlace
  <2>5. op.step \in {"failOpen", "failWrite"} => op.by # w
    BY DEF IInv, OpInPlace
  <2> QED
    BY <2>1, <2>2, <2>3, <2>4, <2>5
<1>3. op.event # e /\ op.by # w
  BY <1>1, <1>2 DEF IInv, OpInPlace, FreeOp
<1>4. /\ e \in Readable("processing") /\ disk["pending"][e] = Absent
      /\ \A v \in Workers \ {w} : work[v].event # e
  BY <1>1, <1>3 DEF IInv, HeldExclusively
<1>5. InPlace(e) /\ Waiting(e) /\ e \notin Readable("completed") \union Readable("dlq")
  BY <1>1, <1>3 DEF IInv, FilesInPlace, Waiting
<1>6. e \notin Readable("pending") /\ pushed[e] = "accepted"
  BY <1>4, <1>5 DEF InPlace, Readable, Dirs
<1>7. work[w].retries \in 0..MaxRetries
  BY <1>1 DEF TypeOK
<1> QED
  BY <1>1, <1>3, <1>4, <1>5, <1>6, <1>7

\* A worker decides what becomes of the event it has; the others' accounts stay.
LEMMA DecideAccounts ==
    ASSUME IInv, Accounts, NEW w \in Workers, NEW next \in {"complete", "fail"}, Decide(w, next),
           \A f \in Events \ {work[w].event} : SameHistory(f),
           \/ /\ next = "complete" /\ SameHistory(work[w].event)
              /\ work[w].event \in Monitoring \intersect Wanted =>
                    work[w].event \in confirmed' \union limited' \union silenced'
           \/ /\ tried'[work[w].event] = tried[work[w].event] + 1
              /\ posted'[work[w].event] \in posted[work[w].event] .. posted[work[w].event] + 1
              /\ IF next = "fail" THEN work[w].event \in confirmed' => work[w].event \in confirmed
                                  ELSE work[w].event \in confirmed',
           tried \in [Events -> Nat], posted \in [Events -> Nat]
    PROVE  Accounts'
<1> USE FileQueueAssumption
<1>1. PICK e \in Events :
        /\ e = work[w].event /\ op.event # e /\ pushed[e] = "accepted"
        /\ work[w].retries \in 0..MaxRetries
        /\ \A v \in Workers \ {w} : work[v].event # e
        /\ e \notin Readable("pending") \union Readable("completed") \union Readable("dlq")
  BY DispatchInPlace DEF Decide
<1>2. /\ UNCHANGED <<disk, fresh, op, pushed, missed>> /\ work[w].step = "dispatch"
      /\ \A v \in Workers \ {w} : work'[v] = work[v]
      /\ work'[w].step = next /\ work'[w].event = e /\ work'[w].retries = work[w].retries
  BY <1>1 DEF Decide, IInv, TypeOK
<1>3. \A f \in Events \ {e} : Account(f)'
  <2>1. \A f \in Events \ {e} : NothingNew(f) /\ SameHistory(f)
    BY <1>1, <1>2 DEF NothingNew, Readable
  <2> QED
    BY <2>1, AccountKept DEF Accounts
<1>4. TriedWithin(e) /\ Attempted(e, work[w].retries)
  BY <1>1, <1>2 DEF Accounts, Account, CountedInWork
<1>5. CountedOnDisk(e)' /\ SettledFairly(e)'
  BY <1>1, <1>2 DEF CountedOnDisk, SettledFairly, InOp, Readable
<1>6. TriedWithin(e)' /\ CountedInWork(e)'
  <2>1. CASE /\ next = "complete" /\ SameHistory(e)
             /\ e \in Monitoring \intersect Wanted => e \in confirmed' \union limited' \union silenced'
    BY <1>1, <1>2, <1>4, <2>1 DEF TriedWithin, CountedInWork, SameHistory
  <2>2. CASE /\ tried'[e] = tried[e] + 1 /\ posted'[e] \in posted[e] .. posted[e] + 1
             /\ IF next = "fail" THEN e \in confirmed' => e \in confirmed ELSE e \in confirmed'
    <3>1. tried[e] \in Nat /\ posted[e] \in Nat /\ tried[e] = work[w].retries /\ e \notin confirmed
      BY <1>4 DEF Attempted
    <3>2. TriedWithin(e)'
      BY <1>1, <1>2, <1>4, <2>2, <3>1 DEF TriedWithin
    <3>3. CountedInWork(e)'
      BY <1>1, <1>2, <2>2, <3>1 DEF CountedInWork, Attempted
    <3> QED
      BY <3>2, <3>3
  <2> QED
    BY <1>1, <2>1, <2>2
<1> QED
  BY <1>3, <1>5, <1>6 DEF Accounts, Account

-----------------------------------------------------------------------------

\* With the queue's own invariant.
ProcessorInv == IInv /\ ProcessorTypeOK /\ SendingWanted /\ Accounts

\* The processors take the steps that FileEventQueue allows.
LEMMA ProcessorTakesQueueSteps == ASSUME [ProcessorNext]_allVars PROVE [Next]_vars
<1>1. CASE QueueStep
  BY <1>1 DEF QueueStep, Next, Faults
<1>2. CASE \E w \in Workers : Process(w)
  <2>1. PICK w \in Workers : Process(w)
    BY <1>2
  <2>2. UNCHANGED vars \/ Decide(w, "complete") \/ Decide(w, "fail")
    BY <2>1 DEF Process, ProcessAlone, FilterPasses, FilterRefuses, DispatchOther, AlertSkipped,
                AlertConfirmed, AlertFails, AfterFailedAlert
  <2> QED
    BY <2>2 DEF Next
<1>3. CASE SlotExpires \/ UNCHANGED allVars
  BY <1>3 DEF SlotExpires, allVars
<1>4. CASE ServerStops
  BY <1>4 DEF ServerStops, Next, Faults
<1> QED
  BY <1>1, <1>2, <1>3, <1>4 DEF ProcessorNext

LEMMA ProcessAccounts ==
    ASSUME ProcessorInv, IInv', NEW w \in Workers, Process(w)
    PROVE  ProcessorInv'
<1> USE ProcessorAssumption
<1> DEFINE e == work[w].event
<1>1. /\ TypeOK' /\ slots \in 0..Limit /\ sending \subseteq Workers
      /\ tried \in [Events -> Nat] /\ posted \in [Events -> Nat]
      /\ confirmed \subseteq Events /\ limited \subseteq Events /\ silenced \subseteq Events
      /\ enabled \in BOOLEAN /\ outages \in 0..MaxOutages
      /\ TypeOK /\ Accounts /\ IInv
  BY DEF ProcessorInv, ProcessorTypeOK, IInv
<1>2. work[w].step = "dispatch" /\ e \in Events
  <2>1. work[w].step = "dispatch"
    BY DEF Process, ProcessAlone, FilterPasses, FilterRefuses, DispatchOther, AlertSkipped,
           AlertConfirmed, AlertFails, Considering, Decide
  <2> QED
    BY <1>1, <2>1, DispatchInPlace
<1>3. ASSUME NEW next \in {"complete", "fail"}, Decide(w, next), sending' = sending \ {w}
      PROVE  SendingWanted'
  BY <1>1, <1>3 DEF ProcessorInv, SendingWanted, Decide, TypeOK
<1>4. CASE FilterPasses(w)
  <2>1. ProcessorTypeOK'
    BY <1>1, <1>4 DEF ProcessorTypeOK, FilterPasses, Accepts, history
  <2>2. SendingWanted'
    BY <1>2, <1>4 DEF ProcessorInv, SendingWanted, FilterPasses, Accepts, vars
  <2>3. Accounts'
    <3>1. \A f \in Events : NothingNew(f) /\ SameHistory(f)
      BY <1>4 DEF FilterPasses, vars, history, NothingNew, SameHistory, Readable
    <3> QED
      BY <1>1, <3>1, AccountKept DEF Accounts
  <2> QED
    BY <2>1, <2>2, <2>3 DEF ProcessorInv
<1>5. CASE FilterRefuses(w)
  <2>1. /\ Decide(w, "complete") /\ w \notin sending
        /\ limited' = limited \union ({e} \intersect Wanted)
        /\ UNCHANGED <<enabled, slots, sending, tried, posted, confirmed, silenced, outages>>
    BY <1>5 DEF FilterRefuses, Considering
  <2>2. ProcessorTypeOK' /\ SendingWanted'
    BY <1>1, <1>2, <1>3, <2>1 DEF ProcessorTypeOK
  <2>3. Accounts'
    BY <1>1, <2>1, DecideAccounts DEF SameHistory
  <2> QED
    BY <2>2, <2>3 DEF ProcessorInv
<1>6. CASE DispatchOther(w)
  <2>1. /\ Decide(w, "complete") /\ e \notin Monitoring /\ sending' = sending \ {w}
        /\ UNCHANGED <<enabled, slots, tried, posted, confirmed, limited, silenced, outages>>
    BY <1>6 DEF DispatchOther, history
  <2>2. ProcessorTypeOK' /\ SendingWanted'
    BY <1>1, <1>3, <2>1 DEF ProcessorTypeOK
  <2>3. Accounts'
    BY <1>1, <2>1, DecideAccounts DEF SameHistory
  <2> QED
    BY <2>2, <2>3 DEF ProcessorInv
<1>7. CASE AlertConfirmed(w)
  <2>1. /\ Decide(w, "complete") /\ sending' = sending \ {w}
        /\ tried' = [tried EXCEPT ![e] = tried[e] + 1]
        /\ posted' = [posted EXCEPT ![e] = posted[e] + 1]
        /\ confirmed' = confirmed \union {e}
        /\ UNCHANGED <<enabled, slots, limited, silenced, outages>>
    BY <1>7 DEF AlertConfirmed
  <2>2. ProcessorTypeOK' /\ SendingWanted'
    BY <1>1, <1>2, <1>3, <2>1 DEF ProcessorTypeOK
  <2>3. /\ \A f \in Events \ {e} : SameHistory(f)
        /\ tried'[e] = tried[e] + 1 /\ posted'[e] \in posted[e] .. posted[e] + 1 /\ e \in confirmed'
    BY <1>1, <1>2, <2>1 DEF SameHistory
  <2>4. Accounts'
    BY <1>1, <2>1, <2>3, DecideAccounts
  <2> QED
    BY <2>2, <2>4 DEF ProcessorInv
<1>8. CASE AlertFails(w)
  <2>1. /\ Decide(w, "fail") /\ sending' = sending \ {w}
        /\ tried' = [tried EXCEPT ![e] = tried[e] + 1]
        /\ outages < MaxOutages /\ outages' = outages + 1
        /\ UNCHANGED <<enabled, slots, confirmed, limited, silenced>>
    BY <1>8 DEF AlertFails, AfterFailedAlert
  <2>2. PICK arrived \in {0, 1} : posted' = [posted EXCEPT ![e] = posted[e] + arrived]
    BY <1>8 DEF AlertFails
  <2>3. ProcessorTypeOK' /\ SendingWanted'
    BY <1>1, <1>2, <1>3, <2>1, <2>2 DEF ProcessorTypeOK
  <2>4. /\ \A f \in Events \ {e} : SameHistory(f)
        /\ tried'[e] = tried[e] + 1 /\ posted'[e] \in posted[e] .. posted[e] + 1
        /\ e \in confirmed' => e \in confirmed
    BY <1>1, <1>2, <2>1, <2>2 DEF SameHistory
  <2>5. Accounts'
    BY <1>1, <2>1, <2>4, DecideAccounts
  <2> QED
    BY <2>3, <2>5 DEF ProcessorInv
<1>9. CASE AlertSkipped(w)
  <2>1. /\ Decide(w, "complete") /\ sending' = sending \ {w}
        /\ silenced' = silenced \union {e}
        /\ UNCHANGED <<enabled, slots, tried, posted, confirmed, limited, outages>>
    BY <1>9 DEF AlertSkipped
  <2>2. ProcessorTypeOK' /\ SendingWanted'
    BY <1>1, <1>2, <1>3, <2>1 DEF ProcessorTypeOK
  <2>3. Accounts'
    BY <1>1, <2>1, DecideAccounts DEF SameHistory
  <2> QED
    BY <2>2, <2>3 DEF ProcessorInv
<1> QED
  BY <1>4, <1>5, <1>6, <1>7, <1>8, <1>9 DEF Process, ProcessAlone, ProcessorInv

\* The server stops: what is on disk is accounted for by itself.
LEMMA ServerStopsAccounts ==
    ASSUME ProcessorInv, IInv', ServerStops
    PROVE  ProcessorInv'
<1> USE FileQueueAssumption, ProcessorAssumption
<1>1. /\ TypeOK /\ Accounts
      /\ op' = FreeOp /\ work' = [w \in Workers |-> IdleWork] /\ UNCHANGED disk
      /\ slots' = 0 /\ sending' = {}
      /\ enabled' \in BOOLEAN
      /\ UNCHANGED <<tried, posted, confirmed, limited, silenced, outages>>
  BY DEF ServerStops, Crash, ProcessorInv, IInv, history
<1>2. ProcessorTypeOK' /\ SendingWanted'
  BY <1>1 DEF ProcessorInv, ProcessorTypeOK, SendingWanted, IInv
<1>3. \A f \in Events : pushed'[f] # "accepted" => pushed[f] # "accepted"
  BY <1>1 DEF ServerStops, Crash, Locked, ProcessorInv, IInv, OpInPlace, TypeOK
<1>4. \A f \in Events : NothingNew(f) /\ SameHistory(f)
  BY <1>1, <1>3 DEF NothingNew, SameHistory, FreeOp, IdleWork, Readable
<1> QED
  BY <1>1, <1>2, <1>4, AccountKept DEF ProcessorInv, Accounts

LEMMA ProcessorStepKeeps ==
    ASSUME ProcessorInv, IInv', [ProcessorNext]_allVars
    PROVE  ProcessorInv'
<1>1. CASE QueueStep
  <2>1. /\ Accounts' /\ UNCHANGED processorVars
        /\ \A v \in Workers : work[v].step = "dispatch" => work'[v] = work[v]
    BY <1>1, QueueStepAccounts, DispatchUndisturbed DEF ProcessorInv, QueueStep
  <2>2. ProcessorTypeOK'
    BY <2>1 DEF ProcessorInv, ProcessorTypeOK, processorVars, history, IInv
  <2>3. SendingWanted'
    BY <2>1, SendingKept DEF ProcessorInv, ProcessorTypeOK, processorVars
  <2> QED
    BY <2>1, <2>2, <2>3 DEF ProcessorInv
<1>2. CASE \E w \in Workers : Process(w)
  BY <1>2, ProcessAccounts
<1>3. CASE SlotExpires \/ UNCHANGED allVars
  <2>1. /\ UNCHANGED <<disk, op, pushed, work, enabled, sending, outages>>
        /\ UNCHANGED <<tried, posted, confirmed, limited, silenced>>
        /\ slots' \in 0..Limit
    BY <1>3, ProcessorAssumption
       DEF SlotExpires, allVars, vars, processorVars, history, ProcessorInv, ProcessorTypeOK
  <2>2. ProcessorTypeOK' /\ SendingWanted'
    BY <2>1 DEF ProcessorInv, ProcessorTypeOK, SendingWanted, IInv
  <2>3. \A f \in Events : NothingNew(f) /\ SameHistory(f)
    BY <2>1 DEF NothingNew, SameHistory, Readable
  <2> QED
    BY <2>2, <2>3, AccountKept DEF ProcessorInv, Accounts
<1>4. CASE ServerStops
  BY <1>4, ServerStopsAccounts
<1> QED
  BY <1>1, <1>2, <1>3, <1>4 DEF ProcessorNext

\* Everything FileEventQueue promises holds with these processors.
THEOREM ProcessorsUseQueue == ProcessorSpec => Spec
<1>1. ProcessorInit => Init
  BY DEF ProcessorInit
<1>2. [ProcessorNext]_allVars => [Next]_vars
  BY ProcessorTakesQueueSteps
<1> QED
  BY <1>1, <1>2, PTL DEF ProcessorSpec, Spec

LEMMA ProcessorInvariant == ProcessorSpec => []ProcessorInv
<1>1. ProcessorInit /\ IInv => ProcessorInv
  <2> SUFFICES ASSUME ProcessorInit, IInv PROVE ProcessorInv
    OBVIOUS
  <2> USE FileQueueAssumption, ProcessorAssumption DEF ProcessorInit, Init
  <2>1. ProcessorTypeOK /\ SendingWanted
    BY DEF ProcessorTypeOK, SendingWanted, IInv
  <2>2. \A d \in Dirs : Readable(d) = {}
    BY DEF Readable
  <2>3. Accounts
    BY <2>2 DEF Accounts, Account, TriedWithin, CountedOnDisk, CountedInWork, SettledFairly,
                Attempted, InOp, FreeOp, IdleWork, Dirs
  <2> QED
    BY <2>1, <2>3 DEF ProcessorInv
<1>2. ProcessorInv /\ IInv' /\ [ProcessorNext]_allVars => ProcessorInv'
  BY ProcessorStepKeeps
<1> QED
  BY <1>1, <1>2, ProcessorsUseQueue, Invariance, PTL DEF ProcessorSpec

\* The inductive invariant of the processors holds in every state.
THEOREM ProcessorInvariance == ProcessorSpec => []ProcessorIInv
<1>1. ProcessorInv => ProcessorIInv
  <2> SUFFICES ASSUME ProcessorInv PROVE ProcessorIInv
    OBVIOUS
  <2>1. \A e \in Events : TriedWithin(e) /\ CountedOnDisk(e) /\ CountedInWork(e) /\ SettledFairly(e)
    BY DEF ProcessorInv, Accounts, Account
  <2>2. DeadAfterAllAttempts
    BY <2>1 DEF DeadAfterAllAttempts, SettledFairly, Attempted, Readable
  <2>3. CompletedSucceeded
    BY <2>1 DEF CompletedSucceeded, SettledFairly, Readable
  <2> QED
    BY <2>1, <2>2, <2>3 DEF ProcessorInv, ProcessorIInv
<1> QED
  BY <1>1, ProcessorInvariant, PTL

\* Discord posts the alert of an event at most once per attempt.
THEOREM AlwaysPostsBounded == ProcessorSpec => []PostsBounded
<1>1. ProcessorIInv => PostsBounded
  <2> SUFFICES ASSUME ProcessorIInv, NEW e \in Events PROVE posted[e] <= MaxRetries + 1
    BY DEF PostsBounded
  <2>1. TriedWithin(e) /\ posted[e] \in Nat /\ tried[e] \in Nat
    BY DEF ProcessorIInv, ProcessorTypeOK
  <2> QED
    BY <2>1, FileQueueAssumption DEF TriedWithin
<1> QED
  BY <1>1, ProcessorInvariance, PTL

\* A dead letter has failed at every attempt.
THEOREM AlwaysDeadAfterAllAttempts == ProcessorSpec => []DeadAfterAllAttempts
<1>1. ProcessorIInv => DeadAfterAllAttempts
  BY DEF ProcessorIInv
<1> QED
  BY <1>1, ProcessorInvariance, PTL

\* A completed error was told to Discord, unless the limiter refused it or the
\* server had no alerts.
THEOREM AlwaysCompletedSucceeded == ProcessorSpec => []CompletedSucceeded
<1>1. ProcessorIInv => CompletedSucceeded
  BY DEF ProcessorIInv
<1> QED
  BY <1>1, ProcessorInvariance, PTL

=============================================================================
