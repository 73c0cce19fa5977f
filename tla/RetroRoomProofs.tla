--------------------------- MODULE RetroRoomProofs ---------------------------
(***************************************************************************)
(* RetroRoom's invariants hold for every set of members, titles and        *)
(* requests, and a deleted retrospect takes no other with it.              *)
(***************************************************************************)
EXTENDS RetroRoom, TLAPS

\* The initial state satisfies the inductive invariant.
LEMMA InitIInv == Init => IInv
<1> SUFFICES ASSUME Init PROVE IInv
  OBVIOUS
<1>1. TypeOK
  BY DEF Init, TypeOK
<1>2. StoredByDone /\ SearchesRead /\ ReferencesHold /\ TitlesUnique /\ SearchAlwaysNamed
  BY DEF Init, StoredByDone, SearchesRead, ReferencesHold, TitlesUnique, SearchAlwaysNamed
<1> QED
  BY <1>1, <1>2 DEF IInv

\* A step of a request that stores nothing keeps what is stored consistent: it
\* may start a request, which is not yet done, or end or continue one.
LEMMA StoredKept ==
    ASSUME IInv, TypeOK', NEW r \in Requests, pc[r] # "done",
           \A q \in Requests \ {r} : pc'[q] = pc[q] /\ room'[q] = room[q],
           UNCHANGED <<rooms, title, rows, holder, retros, used, withdrawn>>
    PROVE  StoredByDone' /\ ReferencesHold' /\ TitlesUnique'
<1> USE DEF IInv
<1>1. r \notin rows \union retros \union rooms
  BY DEF StoredByDone
<1>2. StoredByDone' /\ ReferencesHold'
  BY <1>1 DEF TypeOK, StoredByDone, ReferencesHold
<1>3. TitlesUnique'
  BY DEF TitlesUnique
<1> QED
  BY <1>2, <1>3

\* A step that leaves the searches alone, and stores new rooms or retrospects
\* only under the name of a request that was not done, keeps what they read.
LEMMA SearchesKept ==
    ASSUME IInv, NEW r \in Requests, pc[r] # "done",
           pc'[r] \notin {"searchTitles", "searchRetros", "found"},
           \A q \in Requests \ {r} :
               /\ pc'[q] = pc[q] /\ room'[q] = room[q]
               /\ seen'[q] = seen[q] /\ named'[q] = named[q],
           rooms' \subseteq rooms \union {r}
    PROVE  SearchesRead' /\ SearchAlwaysNamed'
<1> SUFFICES ASSUME NEW s \in Requests,
                    pc'[s] \in {"searchTitles", "searchRetros", "found"}
             PROVE  /\ \A x \in seen'[s] : pc'[x] = "done"
                    /\ pc'[s] = "searchRetros" => seen'[s] \intersect rooms' \subseteq named'[s]
                    /\ pc'[s] = "found" => \A y \in seen'[s] : room'[y] \in named'[s]
  BY DEF SearchesRead, SearchAlwaysNamed
<1>1. s # r /\ pc'[s] = pc[s] /\ seen'[s] = seen[s] /\ named'[s] = named[s]
  OBVIOUS
<1>2. \A x \in seen[s] : x \in Requests \ {r} /\ pc[x] = "done"
  BY <1>1 DEF IInv, TypeOK, SearchesRead
<1>3. pc[s] = "searchRetros" => seen[s] \intersect rooms \subseteq named[s]
  BY DEF IInv, SearchesRead
<1>4. pc[s] = "found" => \A y \in seen[s] : room[y] \in named[s]
  BY DEF IInv, SearchAlwaysNamed
<1> QED
  BY <1>1, <1>2, <1>3, <1>4

\* A request that passes its checks and is not a search.
LEMMA BeginIInv ==
    ASSUME IInv, NEW r \in Requests, NEW m \in Members, NEW x \in Requests \union {None},
           NEW next \in InFlight \ {"searchTitles", "searchRetros"},
           Begin(r, m, x, next),
           retro' \in [Requests -> Requests \union {None}],
           wanted' \in [Requests -> Titles \union {None}],
           seen' \in [Requests -> SUBSET Requests],
           \A q \in Requests \ {r} : seen'[q] = seen[q],
           UNCHANGED named,
           NoData
    PROVE  IInv'
<1> USE DEF IInv, NoData, roomVars, rowVars, retroVars
<1>1. TypeOK'
  BY DEF TypeOK, Begin
<1>2. /\ pc[r] # "done"
      /\ pc'[r] = next
      /\ \A q \in Requests \ {r} : pc'[q] = pc[q] /\ room'[q] = room[q]
  BY DEF Begin, TypeOK
<1>3. StoredByDone' /\ ReferencesHold' /\ TitlesUnique'
  BY <1>1, <1>2, StoredKept
<1>4. SearchesRead' /\ SearchAlwaysNamed'
  BY <1>2, SearchesKept DEF InFlight
<1> QED
  BY <1>1, <1>3, <1>4

\* A request that goes on without storing anything, and is not a search.
LEMMA ContinueIInv ==
    ASSUME IInv, NEW r \in Requests, pc[r] \in InFlight,
           NEW next \in (InFlight \union Ended) \ {"searchTitles", "searchRetros", "found"},
           Continue(r, next),
           seen' \in [Requests -> SUBSET Requests],
           \A q \in Requests \ {r} : seen'[q] = seen[q],
           position' \in [Requests -> Requests \union {None}],
           UNCHANGED <<room, named, roomVars, rows, holder, retroVars, withdrawn>>
    PROVE  IInv'
<1> USE DEF IInv, roomVars, retroVars
<1>1. TypeOK'
  BY DEF TypeOK, Continue
<1>2. /\ pc[r] # "done"
      /\ pc'[r] = next
      /\ \A q \in Requests \ {r} : pc'[q] = pc[q] /\ room'[q] = room[q]
  BY DEF Continue, TypeOK, InFlight
<1>3. StoredByDone' /\ ReferencesHold' /\ TitlesUnique'
  BY <1>1, <1>2, StoredKept
<1>4. SearchesRead' /\ SearchAlwaysNamed'
  BY <1>2, SearchesKept
<1> QED
  BY <1>1, <1>3, <1>4

\* The first reads of every request.
LEMMA ReceiveIInv ==
    ASSUME IInv, NEW r \in Requests, NEW m \in Members, Receive(r, m)
    PROVE  IInv'
<1> USE DEF IInv, InFlight
<1>0. TypeOK /\ rooms \subseteq Requests /\ retros \subseteq Requests
  BY DEF TypeOK
<1>1. ASSUME NEW t \in Titles, CreateRoomCheck(r, m, t) PROVE IInv'
  BY <1>1, BeginIInv DEF TypeOK, CreateRoomCheck, Ask
<1>2. ASSUME NEW x \in rooms, JoinCheck(r, m, x) PROVE IInv'
  BY <1>0, <1>2, BeginIInv DEF TypeOK, JoinCheck
<1>3. ASSUME NEW asked \in SUBSET rooms, ReorderCheck(r, m, asked) PROVE IInv'
  BY <1>0, <1>3, BeginIInv DEF TypeOK, ReorderCheck
<1>4. ASSUME NEW x \in rooms, NEW t \in Titles, RenameCheck(r, m, x, t) PROVE IInv'
  BY <1>0, <1>4, BeginIInv DEF TypeOK, RenameCheck, Ask
<1>5. ASSUME NEW x \in rooms, DeleteRoomCheck(r, m, x) PROVE IInv'
  BY <1>0, <1>5, BeginIInv DEF TypeOK, DeleteRoomCheck
<1>6. ASSUME NEW x \in rooms, OpenCheck(r, m, x) PROVE IInv'
  BY <1>0, <1>6, BeginIInv DEF TypeOK, OpenCheck
<1>7. ASSUME NEW x \in rooms, ListCheck(r, m, x) PROVE IInv'
  BY <1>0, <1>7, BeginIInv DEF TypeOK, ListCheck
<1>8. ASSUME NEW y \in retros, DeleteCheck(r, m, y) PROVE IInv'
  <2>1. room[y] \in Requests \union {None}
    BY <1>0 DEF TypeOK
  <2>2. retro' \in [Requests -> Requests \union {None}]
    BY <1>0, <1>8 DEF TypeOK, DeleteCheck
  <2> QED
    BY <1>8, <2>1, <2>2, BeginIInv DEF TypeOK, DeleteCheck
<1>9. CASE SearchRooms(r, m)
  <2> USE <1>9 DEF SearchRooms, Begin, NoData, roomVars, rowVars, retroVars
  <2>1. RoomsOf(m) \subseteq rooms
    BY DEF RoomsOf, RowsOf, ReferencesHold
  <2>2. TypeOK'
    BY <1>0, <2>1 DEF TypeOK
  <2>3. /\ pc[r] # "done"
        /\ \A q \in Requests \ {r} : pc'[q] = pc[q] /\ room'[q] = room[q]
    BY DEF TypeOK
  <2>4. StoredByDone' /\ ReferencesHold' /\ TitlesUnique'
    BY <2>2, <2>3, StoredKept
  <2>5. SearchesRead'
    BY <2>1, <2>3 DEF TypeOK, SearchesRead, StoredByDone
  <2>6. SearchAlwaysNamed'
    BY <2>3 DEF TypeOK, SearchAlwaysNamed, SearchesRead
  <2> QED
    BY <2>2, <2>4, <2>5, <2>6
<1> QED
  BY <1>1, <1>2, <1>3, <1>4, <1>5, <1>6, <1>7, <1>8, <1>9 DEF Receive

\* create_retro_room stores a room, and its owner's row, under a title that no
\* other room has at that moment.
LEMMA CreateRoomInsertIInv ==
    ASSUME IInv, NEW r \in Requests, CreateRoomInsert(r)
    PROVE  IInv'
<1> USE DEF IInv
<1>1. CASE TitleFree(r, r) /\ who[r] \notin withdrawn
  <2> USE <1>1 DEF CreateRoomInsert, Continue, Enter, retroVars
  <2>1. TypeOK'
    BY DEF TypeOK, Ended
  <2>2. /\ pc[r] # "done" /\ pc'[r] = "done" /\ room'[r] = r
        /\ \A q \in Requests \ {r} : pc'[q] = pc[q] /\ room'[q] = room[q]
    BY DEF TypeOK
  <2>3. StoredByDone'
    BY <2>2 DEF TypeOK, StoredByDone
  <2>4. ReferencesHold'
    BY <2>2 DEF TypeOK, StoredByDone, ReferencesHold
  <2>5. TitlesUnique'
    BY DEF TypeOK, TitlesUnique, TitleFree, Taken
  <2>6. SearchesRead' /\ SearchAlwaysNamed'
    BY <2>2, SearchesKept
  <2> QED
    BY <2>1, <2>3, <2>4, <2>5, <2>6
<1>2. CASE ~(TitleFree(r, r) /\ who[r] \notin withdrawn)
  <2>1. "failed" \in (InFlight \union Ended) \ {"searchTitles", "searchRetros", "found"}
    BY DEF Ended
  <2>2. pc[r] \in InFlight
    BY DEF CreateRoomInsert, InFlight
  <2> QED
    BY <1>2, <2>1, <2>2, ContinueIInv DEF CreateRoomInsert, TypeOK, roomVars, rowVars
<1> QED
  BY <1>1, <1>2

\* join_retro_room stores a membership of a room and a member that exist.
LEMMA JoinInsertIInv ==
    ASSUME IInv, NEW r \in Requests, JoinInsert(r)
    PROVE  IInv'
<1> USE DEF IInv
<1>1. CASE MayEnter(r, room[r])
  <2> USE <1>1 DEF JoinInsert, Continue, Enter, roomVars, retroVars
  <2>1. TypeOK'
    BY DEF TypeOK, Ended
  <2>2. /\ pc[r] # "done" /\ pc'[r] = "done"
        /\ \A q \in Requests \ {r} : pc'[q] = pc[q]
    BY DEF TypeOK
  <2>3. StoredByDone'
    BY <2>2 DEF TypeOK, StoredByDone
  <2>4. ReferencesHold'
    BY DEF TypeOK, ReferencesHold, MayEnter
  <2>5. TitlesUnique'
    BY DEF TitlesUnique
  <2>6. SearchesRead' /\ SearchAlwaysNamed'
    BY <2>2, SearchesKept
  <2> QED
    BY <2>1, <2>3, <2>4, <2>5, <2>6
<1>2. CASE ~MayEnter(r, room[r])
  <2>1. "failed" \in (InFlight \union Ended) \ {"searchTitles", "searchRetros", "found"}
    BY DEF Ended
  <2>2. pc[r] \in InFlight
    BY DEF JoinInsert, InFlight
  <2> QED
    BY <1>2, <2>1, <2>2, ContinueIInv DEF JoinInsert, TypeOK, rowVars
<1> QED
  BY <1>1, <1>2

\* update_retro_room_name gives a room a title that no other has.
LEMMA RenameUpdateIInv ==
    ASSUME IInv, NEW r \in Requests, RenameUpdate(r)
    PROVE  IInv'
<1> USE DEF IInv
<1>1. CASE room[r] \in rooms /\ TitleFree(r, room[r])
  <2> USE <1>1 DEF RenameUpdate, Continue, rowVars, retroVars
  <2>1. TypeOK'
    BY DEF TypeOK, Ended
  <2>2. /\ pc[r] # "done" /\ pc'[r] = "done"
        /\ \A q \in Requests \ {r} : pc'[q] = pc[q]
    BY DEF TypeOK
  <2>3. StoredByDone' /\ ReferencesHold'
    BY <2>2 DEF TypeOK, StoredByDone, ReferencesHold
  <2>4. TitlesUnique'
    BY DEF TypeOK, TitlesUnique, TitleFree, Taken
  <2>5. SearchesRead' /\ SearchAlwaysNamed'
    BY <2>2, SearchesKept
  <2> QED
    BY <2>1, <2>3, <2>4, <2>5
<1>2. CASE ~(room[r] \in rooms /\ TitleFree(r, room[r]))
  <2>1. "failed" \in (InFlight \union Ended) \ {"searchTitles", "searchRetros", "found"}
    BY DEF Ended
  <2>2. pc[r] \in InFlight
    BY DEF RenameUpdate, InFlight
  <2> QED
    BY <1>2, <2>1, <2>2, ContinueIInv DEF RenameUpdate, TypeOK, roomVars, rowVars
<1> QED
  BY <1>1, <1>2

\* create_retrospect stores a retrospect in a room that exists.
LEMMA OpenTxnIInv ==
    ASSUME IInv, NEW r \in Requests, OpenTxn(r)
    PROVE  IInv'
<1> USE DEF IInv
<1>1. CASE RoomThere(room[r])
  <2> USE <1>1 DEF OpenTxn, Continue, roomVars, rowVars
  <2>1. TypeOK'
    BY DEF TypeOK, Ended
  <2>2. /\ pc[r] # "done" /\ pc'[r] = "done"
        /\ \A q \in Requests \ {r} : pc'[q] = pc[q]
    BY DEF TypeOK
  <2>3. StoredByDone'
    BY <2>2 DEF TypeOK, StoredByDone
  <2>4. ReferencesHold' /\ TitlesUnique'
    BY DEF ReferencesHold, TitlesUnique, RoomThere
  <2>5. SearchesRead' /\ SearchAlwaysNamed'
    BY <2>2, SearchesKept
  <2> QED
    BY <2>1, <2>3, <2>4, <2>5
<1>2. CASE ~RoomThere(room[r])
  <2>1. "failed" \in (InFlight \union Ended) \ {"searchTitles", "searchRetros", "found"}
    BY DEF Ended
  <2>2. pc[r] \in InFlight
    BY DEF OpenTxn, InFlight
  <2> QED
    BY <1>2, <2>1, <2>2, ContinueIInv DEF OpenTxn, TypeOK, roomVars, rowVars, retroVars
<1> QED
  BY <1>1, <1>2

\* A deletion that takes all of a room's retrospects with the room leaves
\* nothing behind that refers to either.
LEMMA RemoveIInv ==
    ASSUME IInv, NEW r \in Requests, pc[r] \in InFlight, Continue(r, "done"),
           NEW gone, NEW lost,
           \A x \in gone : RetrosIn(x) \subseteq lost,
           Remove(gone, lost),
           UNCHANGED <<room, seen, named>>
    PROVE  IInv'
<1> USE DEF IInv, Continue, Remove
<1>1. TypeOK'
  BY DEF TypeOK, Ended
<1>2. /\ pc[r] # "done" /\ pc'[r] = "done"
      /\ \A q \in Requests \ {r} : pc'[q] = pc[q]
  BY DEF TypeOK, InFlight
<1>3. StoredByDone'
  BY <1>2 DEF TypeOK, StoredByDone
<1>4. ReferencesHold' /\ TitlesUnique'
  BY DEF ReferencesHold, TitlesUnique, RetrosIn
<1>5. SearchesRead' /\ SearchAlwaysNamed'
  BY <1>2, SearchesKept
<1> QED
  BY <1>1, <1>3, <1>4, <1>5

\* delete_retro_room and the commit of delete_retrospect.
LEMMA DeletionIInv ==
    ASSUME IInv, NEW r \in Requests, DeleteRoomTxn(r) \/ DeleteCommit(r)
    PROVE  IInv'
<1>1. pc[r] \in InFlight
  BY DEF DeleteRoomTxn, DeleteCommit, InFlight
<1>2. CASE Continue(r, "refused") /\ NoData /\ UNCHANGED <<room, seen, named>>
  <2>1. "refused" \in (InFlight \union Ended) \ {"searchTitles", "searchRetros", "found"}
    BY DEF Ended
  <2> QED
    BY <1>1, <1>2, <2>1, ContinueIInv DEF IInv, TypeOK, NoData, rowVars
<1>3. CASE DeleteRoomTxn(r)
  <2>1. \A x \in {room[r]} : RetrosIn(x) \subseteq RetrosIn(room[r])
    OBVIOUS
  <2> QED
    BY <1>1, <1>2, <1>3, <2>1, RemoveIInv DEF DeleteRoomTxn
<1>4. CASE DeleteCommit(r)
  <2> DEFINE gone == IF LastOne(r) THEN {room[r]} ELSE {}
             lost == {retro[r]} \union (IF LastOne(r) THEN RetrosIn(room[r]) ELSE {})
  <2>1. \A x \in gone : RetrosIn(x) \subseteq lost
    OBVIOUS
  <2> HIDE DEF gone, lost
  <2>2. CASE Continue(r, "done") /\ Remove(gone, lost) /\ UNCHANGED <<room, seen, named>>
    BY <1>1, <2>1, <2>2, RemoveIInv
  <2> QED
    BY <1>2, <1>4, <2>2 DEF DeleteCommit, gone, lost
<1> QED
  BY <1>3, <1>4

\* search_retrospects: the rooms without a title at the second read are gone
\* at the third, and have no retrospects any more.
LEMMA SearchIInv ==
    ASSUME IInv, NEW r \in Requests, SearchTitles(r) \/ SearchRetros(r)
    PROVE  IInv'
<1> USE DEF IInv
<1>1. CASE SearchTitles(r)
  <2> USE <1>1 DEF SearchTitles, Continue, NoData, roomVars, rowVars, retroVars
  <2>1. TypeOK'
    BY DEF TypeOK, InFlight
  <2>2. /\ pc[r] = "searchTitles" /\ pc'[r] = "searchRetros"
        /\ \A q \in Requests \ {r} : pc'[q] = pc[q] /\ room'[q] = room[q]
    BY DEF TypeOK
  <2>3. StoredByDone' /\ ReferencesHold' /\ TitlesUnique'
    BY <2>1, <2>2, StoredKept
  <2>4. SearchesRead'
    BY <2>2 DEF TypeOK, SearchesRead
  <2>5. SearchAlwaysNamed'
    BY <2>2 DEF TypeOK, SearchAlwaysNamed
  <2> QED
    BY <2>1, <2>3, <2>4, <2>5
<1>2. CASE SearchRetros(r)
  <2> USE <1>2 DEF SearchRetros, Continue, NoData, roomVars, rowVars, retroVars
  <2>1. TypeOK'
    BY DEF TypeOK, Ended
  <2>2. /\ pc[r] = "searchRetros" /\ pc'[r] = "found"
        /\ \A q \in Requests \ {r} : pc'[q] = pc[q] /\ room'[q] = room[q]
    BY DEF TypeOK
  <2>3. StoredByDone' /\ ReferencesHold' /\ TitlesUnique'
    BY <2>1, <2>2, StoredKept
  <2>4. seen'[r] = {y \in retros : room[y] \in seen[r]}
    BY DEF TypeOK
  <2>5. \A y \in seen'[r] : pc[y] = "done" /\ y # r /\ room[y] \in named[r]
    BY <2>2, <2>4 DEF StoredByDone, ReferencesHold, SearchesRead
  <2>6. SearchesRead'
    BY <2>2, <2>5 DEF TypeOK, SearchesRead
  <2>7. SearchAlwaysNamed'
    BY <2>2, <2>5 DEF TypeOK, SearchAlwaysNamed
  <2> QED
    BY <2>1, <2>3, <2>6, <2>7
<1> QED
  BY <1>1, <1>2

\* Withdrawals, uses of the assistant and the age of invitations.
LEMMA EnvironmentIInv ==
    ASSUME IInv,
           \/ \E m \in Members : Withdraw(m) \/ \E y \in retros : Guide(m, y)
           \/ \E x \in Requests : ExpireInvite(x)
    PROVE  IInv'
<1> USE DEF IInv, requestVars, roomVars, rowVars, retroVars
<1>1. ASSUME NEW m \in Members, Withdraw(m) PROVE IInv'
  <2> USE <1>1 DEF Withdraw
  <2>1. TypeOK'
    BY DEF TypeOK
  <2>2. StoredByDone' /\ TitlesUnique' /\ SearchesRead' /\ SearchAlwaysNamed'
    BY DEF StoredByDone, TitlesUnique, SearchesRead, SearchAlwaysNamed
  <2>3. ReferencesHold'
    BY RoomAssumption DEF TypeOK, ReferencesHold
  <2> QED
    BY <2>1, <2>2, <2>3
<1>2. ASSUME NEW m \in Members, NEW y \in retros, Guide(m, y) PROVE IInv'
  <2> USE <1>2 DEF Guide
  <2>1. TypeOK'
    BY DEF TypeOK
  <2>2. StoredByDone' /\ TitlesUnique' /\ SearchesRead' /\ SearchAlwaysNamed'
    BY DEF StoredByDone, TitlesUnique, SearchesRead, SearchAlwaysNamed
  <2>3. m \notin withdrawn
    BY DEF MemberOf, RoomsOf, RowsOf, ReferencesHold
  <2>4. ReferencesHold'
    BY <2>3 DEF ReferencesHold
  <2> QED
    BY <2>1, <2>2, <2>4
<1>3. ASSUME NEW x \in Requests, ExpireInvite(x) PROVE IInv'
  BY <1>3 DEF ExpireInvite, TypeOK, StoredByDone, TitlesUnique, SearchesRead,
     SearchAlwaysNamed, ReferencesHold
<1> QED
  BY <1>1, <1>2, <1>3

\* Every step keeps the inductive invariant.
LEMMA StepIInv == IInv /\ [Next]_vars => IInv'
<1> SUFFICES ASSUME IInv, [Next]_vars PROVE IInv'
  OBVIOUS
<1>1. ASSUME NEW r \in Requests, NEW m \in Members, Receive(r, m) PROVE IInv'
  BY <1>1, ReceiveIInv
<1>2. ASSUME NEW r \in Requests, Serve(r) PROVE IInv'
  <2>1. CASE ReorderTxn(r)
    <3>1. position' \in [Requests -> Requests \union {None}]
      BY <2>1 DEF ReorderTxn, IInv, TypeOK
    <3>2. pc[r] \in InFlight /\ (Continue(r, "done") \/ Continue(r, "failed"))
      BY <2>1 DEF ReorderTxn, InFlight
    <3>3. {"done", "failed"} \subseteq
            (InFlight \union Ended) \ {"searchTitles", "searchRetros", "found"}
      BY DEF Ended
    <3> QED
      BY <2>1, <3>1, <3>2, <3>3, ContinueIInv DEF ReorderTxn, IInv, TypeOK
  <2>2. CASE DeleteBegin(r)
    <3>1. RetrosIn(room[r]) \subseteq Requests
      BY DEF IInv, TypeOK, RetrosIn
    <3>2. pc[r] \in InFlight
          /\ "commit" \in (InFlight \union Ended) \ {"searchTitles", "searchRetros", "found"}
      BY <2>2 DEF DeleteBegin, InFlight
    <3> QED
      BY <2>2, <3>1, <3>2, ContinueIInv DEF DeleteBegin, NoData, rowVars, IInv, TypeOK
  <2>3. CASE ListRows(r)
    <3>1. rows \subseteq Requests
      BY DEF IInv, TypeOK
    <3>2. pc[r] \in InFlight
          /\ "namesOf" \in (InFlight \union Ended) \ {"searchTitles", "searchRetros", "found"}
      BY <2>3 DEF ListRows, InFlight
    <3> QED
      BY <2>3, <3>1, <3>2, ContinueIInv DEF ListRows, NoData, rowVars, IInv, TypeOK
  <2>4. CASE ListNames(r)
    <3>1. pc[r] \in InFlight
          /\ "done" \in (InFlight \union Ended) \ {"searchTitles", "searchRetros", "found"}
      BY <2>4 DEF ListNames, InFlight, Ended
    <3> QED
      BY <2>4, <3>1, ContinueIInv DEF ListNames, NoData, rowVars, IInv, TypeOK
  <2> QED
    BY <1>2, <2>1, <2>2, <2>3, <2>4, CreateRoomInsertIInv, JoinInsertIInv, RenameUpdateIInv,
       OpenTxnIInv, DeletionIInv, SearchIInv DEF Serve
<1>3. ASSUME NEW r \in Requests, Abort(r) PROVE IInv'
  <2>1. "failed" \in (InFlight \union Ended) \ {"searchTitles", "searchRetros", "found"}
    BY DEF Ended
  <2> QED
    BY <1>3, <2>1, ContinueIInv DEF Abort, NoData, rowVars, IInv, TypeOK
<1>4. CASE UNCHANGED vars
  BY <1>4 DEF vars, requestVars, roomVars, rowVars, retroVars, IInv, TypeOK, StoredByDone,
     SearchesRead, ReferencesHold, TitlesUnique, SearchAlwaysNamed
<1> QED
  BY <1>1, <1>2, <1>3, <1>4, EnvironmentIInv DEF Next

\* The inductive invariant holds throughout every behaviour.
THEOREM Invariance == Spec => []IInv
<1> QED
  BY InitIInv, StepIInv, PTL DEF Spec

\* No membership, retrospect or use of the assistant outlives what it refers to.
THEOREM ReferencesAlwaysHold == Spec => []ReferencesHold
<1>1. IInv => ReferencesHold
  BY DEF IInv
<1> QED
  BY <1>1, Invariance, PTL

\* No two rooms have one title.
THEOREM TitlesAlwaysUnique == Spec => []TitlesUnique
<1>1. IInv => TitlesUnique
  BY DEF IInv
<1> QED
  BY <1>1, Invariance, PTL

\* A search has the room's name for each retrospect it lists.
THEOREM SearchesNamed == Spec => []SearchAlwaysNamed
<1>1. IInv => SearchAlwaysNamed
  BY DEF IInv
<1> QED
  BY <1>1, Invariance, PTL

\* A step that ends a deletion leaves the retrospects its transaction saw: it
\* takes the room only if it saw no other.
LEMMA StepOthersSurvive ==
    ASSUME IInv, Next, NEW r \in Requests, pc[r] = "commit", pc'[r] = "done"
    PROVE  (seen[r] \ {retro[r]}) \intersect retros \subseteq retros'
<1> USE DEF IInv, TypeOK
<1>1. CASE DeleteCommit(r)
  <2>1. CASE LastOne(r)
    BY <2>1 DEF LastOne
  <2>2. CASE ~LastOne(r)
    BY <1>1, <2>2 DEF DeleteCommit, Remove, NoData, retroVars
  <2> QED
    BY <2>1, <2>2
<1>2. ASSUME NEW q \in Requests, q # r, NEW next, pc' = [pc EXCEPT ![q] = next] PROVE FALSE
  BY <1>2
<1>3. ASSUME NEW next, pc[r] # "commit", pc' = [pc EXCEPT ![r] = next] PROVE FALSE
  BY <1>3
<1>4. ASSUME NEW q \in Requests, NEW m \in Members, Receive(q, m) PROVE FALSE
  <2>1. PICK next : pc[q] = "idle" /\ pc' = [pc EXCEPT ![q] = next]
    BY <1>4 DEF Receive, CreateRoomCheck, JoinCheck, ReorderCheck, RenameCheck,
       DeleteRoomCheck, OpenCheck, ListCheck, DeleteCheck, SearchRooms, Begin
  <2> QED
    BY <1>2, <2>1
<1>5. ASSUME NEW q \in Requests, Serve(q) PROVE DeleteCommit(r)
  <2>1. CASE DeleteCommit(q)
    <3>1. \E next : pc' = [pc EXCEPT ![q] = next]
      BY <2>1 DEF DeleteCommit, Continue
    <3> QED
      BY <1>2, <2>1, <3>1
  <2>2. CASE ~DeleteCommit(q)
    <3>1. \E next : pc[q] # "commit" /\ pc' = [pc EXCEPT ![q] = next]
      BY <1>5, <2>2 DEF Serve, CreateRoomInsert, JoinInsert, ReorderTxn, RenameUpdate,
         DeleteRoomTxn, OpenTxn, DeleteBegin, ListRows, ListNames, SearchTitles, SearchRetros,
         Continue
    <3> QED
      BY <1>2, <1>3, <3>1
  <2> QED
    BY <2>1, <2>2
<1>6. ASSUME NEW q \in Requests, Abort(q) PROVE FALSE
  BY <1>6 DEF Abort, Continue
<1>7. UNCHANGED pc => FALSE
  OBVIOUS
<1>8. ASSUME \/ \E m \in Members : Withdraw(m) \/ \E y \in retros : Guide(m, y)
             \/ \E x \in Requests : ExpireInvite(x)
      PROVE  FALSE
  BY <1>7, <1>8 DEF Withdraw, Guide, ExpireInvite, requestVars
<1> QED
  BY <1>1, <1>4, <1>5, <1>6, <1>8 DEF Next

\* The deletion of a retrospect takes no other that its transaction saw.
THEOREM OthersAlwaysSurvive == Spec => OthersSurvive
<1>1. IInv /\ [Next]_vars =>
        [\A r \in Requests :
            pc[r] = "commit" /\ pc'[r] = "done"
              => (seen[r] \ {retro[r]}) \intersect retros \subseteq retros']_vars
  BY StepOthersSurvive
<1> QED
  BY <1>1, Invariance, PTL DEF Spec, OthersSurvive

=============================================================================
