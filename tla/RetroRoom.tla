----------------------------- MODULE RetroRoom -----------------------------
(***************************************************************************)
(* Retro rooms, their members and the retrospects created in them          *)
(* (codes/server/src/domain/retrospect/service.rs).                        *)
(*                                                                         *)
(* Every request reads what it needs for its decision without a lock and   *)
(* writes in a later statement or transaction; the foreign keys and the    *)
(* unique title in the tables are all that stands between the two.  The    *)
(* reads of one decision are one step.  A room, a membership and a         *)
(* retrospect are named by the request that inserted them, so the OWNER    *)
(* row of a room has the room's name.  A request that is refused by its    *)
(* first reads changes nothing and is not a step.                          *)
(*                                                                         *)
(* A transaction is one step, at its commit, but for delete_retrospect,    *)
(* whose count of the room's other retrospects is a read of the snapshot   *)
(* taken when the transaction began (InnoDB's REPEATABLE READ).            *)
(***************************************************************************)
EXTENDS Naturals, FiniteSets

CONSTANTS
    Members,
    Titles,      \* names a room may get
    Requests,    \* requests that may be served
    None

ASSUME RoomAssumption == None \notin Members \union Titles \union Requests

VARIABLES
    pc,         \* where each request is
    who,        \* the member who makes it
    room,       \* the room it is about
    retro,      \* the retrospect it is about
    wanted,     \* the title it asks for
    seen,       \* what it has read: rooms, memberships or retrospects
    named,      \* the rooms whose titles a search has read
    rooms,      \* rows of the table retro_room
    title,      \* retro_room.title
    expired,    \* rooms whose invitation is seven days old
    rows,       \* rows of the table member_retro_room
    holder,     \* member_retro_room.member_id
    position,   \* the request that last set member_retro_room.order_index
    retros,     \* rows of the table retrospects
    used,       \* rows of the table assistant_usage
    withdrawn   \* members who are no longer in the table member

requestVars == <<pc, who, room, retro, wanted, seen, named>>
roomVars == <<rooms, title, expired>>
rowVars == <<rows, holder, position>>
retroVars == <<retros, used>>
vars == <<requestVars, roomVars, rowVars, retroVars, withdrawn>>

InFlight ==
    {"create", "join", "reorder", "rename", "deleteRoom", "open", "delete",
     "commit", "rowsOf", "namesOf", "searchTitles", "searchRetros"}
Ended == {"done", "found", "refused", "failed"}

TypeOK ==
    /\ pc \in [Requests -> {"idle"} \union InFlight \union Ended]
    /\ who \in [Requests -> Members \union {None}]
    /\ room \in [Requests -> Requests \union {None}]
    /\ retro \in [Requests -> Requests \union {None}]
    /\ wanted \in [Requests -> Titles \union {None}]
    /\ seen \in [Requests -> SUBSET Requests]
    /\ named \in [Requests -> SUBSET Requests]
    /\ rooms \subseteq Requests
    /\ title \in [Requests -> Titles \union {None}]
    /\ expired \subseteq rooms
    /\ rows \subseteq Requests
    /\ holder \in [Requests -> Members \union {None}]
    /\ position \in [Requests -> Requests \union {None}]
    /\ retros \subseteq Requests
    /\ used \subseteq Requests \X Members
    /\ withdrawn \subseteq Members

Init ==
    /\ pc = [r \in Requests |-> "idle"]
    /\ who = [r \in Requests |-> None]
    /\ room = [r \in Requests |-> None]
    /\ retro = [r \in Requests |-> None]
    /\ wanted = [r \in Requests |-> None]
    /\ seen = [r \in Requests |-> {}]
    /\ named = [r \in Requests |-> {}]
    /\ rooms = {}
    /\ title = [r \in Requests |-> None]
    /\ expired = {}
    /\ rows = {}
    /\ holder = [r \in Requests |-> None]
    /\ position = [r \in Requests |-> None]
    /\ retros = {}
    /\ used = {}
    /\ withdrawn = {}

-----------------------------------------------------------------------------

RowsOf(m) == {q \in rows : holder[q] = m}
RoomsOf(m) == {room[q] : q \in RowsOf(m)}
MemberOf(m, x) == x \in RoomsOf(m)
RetrosIn(x) == {y \in retros : room[y] = x}

\* The row that create_retro_room inserts is the only OWNER of the room.
Owns(m, x) == x \in rows /\ holder[x] = m

\* Another room has the title.
Taken(t, x) == \E y \in rooms \ {x} : title[y] = t

\* A member's request passes its checks; what it is about is remembered.
Begin(r, m, x, next) ==
    /\ pc[r] = "idle"
    /\ pc' = [pc EXCEPT ![r] = next]
    /\ who' = [who EXCEPT ![r] = m]
    /\ room' = [room EXCEPT ![r] = x]

Continue(r, next) ==
    /\ pc' = [pc EXCEPT ![r] = next]
    /\ UNCHANGED <<who, retro, wanted>>

Ask(r, t) ==
    /\ wanted' = [wanted EXCEPT ![r] = t]
    /\ UNCHANGED <<retro, seen, named>>

NoData == UNCHANGED <<roomVars, rowVars, retroVars, withdrawn>>

\* Mutant: member_retro_room.member_id has no foreign key.
MayEnter_Anyone(r, x) == x \in rooms

\* The foreign keys of a membership: the room and the member are still there.
MayEnter(r, x) == x \in rooms /\ who[r] \notin withdrawn

\* A row of member_retro_room is inserted for the member of the request.
Enter(r) ==
    /\ rows' = rows \union {r}
    /\ holder' = [holder EXCEPT ![r] = who[r]]
    /\ UNCHANGED position

(***************************************************************************)
(* create_retro_room                                                       *)
(***************************************************************************)

CreateRoomCheck(r, m, t) ==
    /\ ~Taken(t, None)
    /\ Begin(r, m, None, "create")
    /\ Ask(r, t)
    /\ NoData

\* The unique constraint on the title.
TitleFree(r, x) == ~Taken(wanted[r], x)

\* The room and its OWNER row, in one transaction.
CreateRoomInsert(r) ==
    /\ pc[r] = "create"
    /\ IF TitleFree(r, r) /\ who[r] \notin withdrawn
       THEN /\ rooms' = rooms \union {r}
            /\ title' = [title EXCEPT ![r] = wanted[r]]
            /\ room' = [room EXCEPT ![r] = r]
            /\ Enter(r)
            /\ Continue(r, "done")
       ELSE /\ Continue(r, "failed")
            /\ UNCHANGED <<rooms, title, room, rowVars>>
    /\ UNCHANGED <<seen, named, expired, retroVars, withdrawn>>

(***************************************************************************)
(* join_retro_room                                                         *)
(***************************************************************************)

JoinCheck(r, m, x) ==
    /\ x \in rooms \ expired
    /\ ~MemberOf(m, x)
    /\ Begin(r, m, x, "join")
    /\ UNCHANGED <<retro, wanted, seen, named>>
    /\ NoData

\* No constraint refuses a second row of the same member.
JoinInsert(r) ==
    /\ pc[r] = "join"
    /\ IF MayEnter(r, room[r])
       THEN Enter(r) /\ Continue(r, "done")
       ELSE Continue(r, "failed") /\ UNCHANGED rowVars
    /\ UNCHANGED <<room, seen, named, roomVars, retroVars, withdrawn>>

(***************************************************************************)
(* update_retro_room_order                                                 *)
(***************************************************************************)

ReorderCheck(r, m, asked) ==
    /\ asked # {}
    /\ asked \subseteq rooms \intersect RoomsOf(m)
    /\ Begin(r, m, None, "reorder")
    /\ seen' = [seen EXCEPT ![r] = asked]
    /\ UNCHANGED <<retro, wanted, named>>
    /\ NoData

\* One row of the member for each room, whichever the query returns first.
PlacedRows(r) ==
    {chosen \in SUBSET RowsOf(who[r]) :
        /\ {room[q] : q \in chosen} = seen[r]
        /\ Cardinality(chosen) = Cardinality(seen[r])}

\* All rows are updated, or none when one is missing.
ReorderTxn(r) ==
    /\ pc[r] = "reorder"
    /\ \/ \E chosen \in PlacedRows(r) :
            /\ position' = [q \in Requests |->
                              IF q \in chosen THEN r ELSE position[q]]
            /\ Continue(r, "done")
       \/ /\ PlacedRows(r) = {}
          /\ Continue(r, "failed")
          /\ UNCHANGED position
    /\ UNCHANGED <<room, seen, named, roomVars, rows, holder, retroVars, withdrawn>>

(***************************************************************************)
(* update_retro_room_name                                                  *)
(***************************************************************************)

RenameCheck(r, m, x, t) ==
    /\ Owns(m, x)
    /\ ~Taken(t, x)
    /\ Begin(r, m, x, "rename")
    /\ Ask(r, t)
    /\ NoData

\* An UPDATE that finds no row is an error, like one that repeats a title.
RenameUpdate(r) ==
    /\ pc[r] = "rename"
    /\ IF room[r] \in rooms /\ TitleFree(r, room[r])
       THEN /\ title' = [title EXCEPT ![room[r]] = wanted[r]]
            /\ Continue(r, "done")
       ELSE /\ Continue(r, "failed")
            /\ UNCHANGED title
    /\ UNCHANGED <<room, seen, named, rooms, expired, rowVars, retroVars, withdrawn>>

(***************************************************************************)
(* delete_retro_room                                                       *)
(***************************************************************************)

\* What is left when the retrospects in "lost" and, with all that refers to
\* it, the room x of "gone" are deleted.
Remove(gone, lost) ==
    /\ rooms' = rooms \ gone
    /\ expired' = expired \ gone
    /\ rows' = {q \in rows : room[q] \notin gone}
    /\ retros' = retros \ lost
    /\ used' = {u \in used : u[1] \notin lost}
    /\ UNCHANGED <<title, holder, position, withdrawn>>

Guided(lost) == \E u \in used : u[1] \in lost

DeleteRoomCheck(r, m, x) ==
    /\ Owns(m, x)
    /\ Begin(r, m, x, "deleteRoom")
    /\ UNCHANGED <<retro, wanted, seen, named>>
    /\ NoData

\* Everything but assistant_usage is deleted first; a row there, whose foreign
\* key does not cascade, refuses the deletion of its retrospect.
DeleteRoomTxn(r) ==
    /\ pc[r] = "deleteRoom"
    /\ IF Guided(RetrosIn(room[r]))
       THEN Continue(r, "refused") /\ NoData
       ELSE Continue(r, "done") /\ Remove({room[r]}, RetrosIn(room[r]))
    /\ UNCHANGED <<room, seen, named>>

(***************************************************************************)
(* create_retrospect                                                       *)
(***************************************************************************)

OpenCheck(r, m, x) ==
    /\ x \in rooms
    /\ MemberOf(m, x)
    /\ Begin(r, m, x, "open")
    /\ UNCHANGED <<retro, wanted, seen, named>>
    /\ NoData

\* Mutant: retrospects.retrospect_room_id has no foreign key.
RoomThere_Unchecked(x) == TRUE

\* The foreign key of a retrospect.
RoomThere(x) == x \in rooms

\* The retrospect with its blank questions and references, in one transaction.
OpenTxn(r) ==
    /\ pc[r] = "open"
    /\ IF RoomThere(room[r])
       THEN retros' = retros \union {r} /\ Continue(r, "done")
       ELSE Continue(r, "failed") /\ UNCHANGED retros
    /\ UNCHANGED <<room, seen, named, roomVars, rowVars, used, withdrawn>>

(***************************************************************************)
(* delete_retrospect                                                       *)
(***************************************************************************)

\* Any member of the room may.
DeleteCheck(r, m, y) ==
    /\ y \in retros
    /\ MemberOf(m, room[y])
    /\ Begin(r, m, room[y], "delete")
    /\ retro' = [retro EXCEPT ![r] = y]
    /\ UNCHANGED <<wanted, seen, named>>
    /\ NoData

\* The first read of the transaction fixes what its count will see.
DeleteBegin(r) ==
    /\ pc[r] = "delete"
    /\ seen' = [seen EXCEPT ![r] = RetrosIn(room[r])]
    /\ Continue(r, "commit")
    /\ UNCHANGED <<room, named>>
    /\ NoData

\* Mutant: the count includes the deleted retrospect and is compared with it.
LastOne_OffByOne(r) == Cardinality(seen[r] \ {retro[r]}) <= 1

\* other_retro_count is zero.
LastOne(r) == seen[r] \ {retro[r]} = {}

\* The room goes with its last retrospect; ON DELETE CASCADE takes those that
\* were created in it since the transaction began, unless they were guided.
DeleteCommit(r) ==
    /\ pc[r] = "commit"
    /\ LET gone == IF LastOne(r) THEN {room[r]} ELSE {}
           lost == {retro[r]} \union (IF LastOne(r) THEN RetrosIn(room[r]) ELSE {})
       IN  IF Guided(lost \ {retro[r]})
           THEN Continue(r, "refused") /\ NoData
           ELSE Continue(r, "done") /\ Remove(gone, lost)
    /\ UNCHANGED <<room, seen, named>>

(***************************************************************************)
(* list_retro_room_members, list_retro_rooms and list_retrospects,         *)
(* search_retrospects                                                      *)
(***************************************************************************)

ListCheck(r, m, x) ==
    /\ x \in rooms
    /\ MemberOf(m, x)
    /\ Begin(r, m, x, "rowsOf")
    /\ UNCHANGED <<retro, wanted, seen, named>>
    /\ NoData

\* The memberships, or the retrospects and then their participants.
ListRows(r) ==
    /\ pc[r] = "rowsOf"
    /\ seen' = [seen EXCEPT ![r] = {q \in rows : room[q] = room[r] /\ holder[q] # None}]
    /\ Continue(r, "namesOf")
    /\ UNCHANGED <<room, named>>
    /\ NoData

\* Only those whose member is still there are listed.
ListNames(r) ==
    /\ pc[r] = "namesOf"
    /\ seen' = [seen EXCEPT ![r] = {q \in seen[r] : holder[q] # None}]
    /\ Continue(r, "done")
    /\ UNCHANGED <<room, named>>
    /\ NoData

SearchRooms(r, m) ==
    /\ RoomsOf(m) # {}
    /\ Begin(r, m, None, "searchTitles")
    /\ seen' = [seen EXCEPT ![r] = RoomsOf(m)]
    /\ UNCHANGED <<retro, wanted, named>>
    /\ NoData

SearchTitles(r) ==
    /\ pc[r] = "searchTitles"
    /\ named' = [named EXCEPT ![r] = seen[r] \intersect rooms]
    /\ Continue(r, "searchRetros")
    /\ UNCHANGED <<room, seen>>
    /\ NoData

\* The keyword may match all of them.
SearchRetros(r) ==
    /\ pc[r] = "searchRetros"
    /\ seen' = [seen EXCEPT ![r] = {y \in retros : room[y] \in seen[r]}]
    /\ Continue(r, "found")
    /\ UNCHANGED <<room, named>>
    /\ NoData

-----------------------------------------------------------------------------

\* MemberService::withdraw: the memberships stay without their member; a row
\* in assistant_usage refuses it.
Withdraw(m) ==
    /\ m \notin withdrawn
    /\ \A u \in used : u[2] # m
    /\ withdrawn' = withdrawn \union {m}
    /\ holder' = [q \in Requests |-> IF holder[q] = m THEN None ELSE holder[q]]
    /\ UNCHANGED <<requestVars, roomVars, rows, position, retroVars>>

\* generate_assistant_guide records a use (module AssistantGuide).
Guide(m, y) ==
    /\ y \in retros
    /\ MemberOf(m, room[y])
    /\ used' = used \union {<<y, m>>}
    /\ UNCHANGED <<requestVars, roomVars, rowVars, retros, withdrawn>>

\* Seven days pass.
ExpireInvite(x) ==
    /\ x \in rooms \ expired
    /\ expired' = expired \union {x}
    /\ UNCHANGED <<requestVars, rooms, title, rowVars, retroVars, withdrawn>>

\* A database error, the client hung up, the process stopped.
Abort(r) ==
    /\ pc[r] \in InFlight
    /\ Continue(r, "failed")
    /\ UNCHANGED <<room, seen, named>>
    /\ NoData

Receive(r, m) ==
    \/ \E t \in Titles : CreateRoomCheck(r, m, t)
    \/ \E x \in rooms : JoinCheck(r, m, x)
    \/ \E asked \in SUBSET rooms : ReorderCheck(r, m, asked)
    \/ \E x \in rooms, t \in Titles : RenameCheck(r, m, x, t)
    \/ \E x \in rooms : DeleteRoomCheck(r, m, x) \/ OpenCheck(r, m, x) \/ ListCheck(r, m, x)
    \/ \E y \in retros : DeleteCheck(r, m, y)
    \/ SearchRooms(r, m)

Serve(r) ==
    \/ CreateRoomInsert(r) \/ JoinInsert(r) \/ ReorderTxn(r) \/ RenameUpdate(r)
    \/ DeleteRoomTxn(r) \/ OpenTxn(r) \/ DeleteBegin(r) \/ DeleteCommit(r)
    \/ ListRows(r) \/ ListNames(r) \/ SearchTitles(r) \/ SearchRetros(r)

Next ==
    \/ \E r \in Requests, m \in Members : Receive(r, m)
    \/ \E r \in Requests : Serve(r) \/ Abort(r) \/ ExpireInvite(r)
    \/ \E m \in Members : Withdraw(m) \/ \E y \in retros : Guide(m, y)

Spec == Init /\ [][Next]_vars

-----------------------------------------------------------------------------
(***************************************************************************)
(* Properties                                                              *)
(***************************************************************************)

\* No membership and no retrospect is left without its room, no use without
\* its retrospect and no membership with a member who has gone, although
\* deletions and withdrawals run between every check and its write
\* (join_retro_room, create_retrospect, delete_retro_room, delete_retrospect).
ReferencesHold ==
    /\ \A q \in rows \union retros : room[q] \in rooms
    /\ \A u \in used : u[1] \in retros /\ u[2] \notin withdrawn
    /\ \A q \in rows : holder[q] \notin withdrawn

\* Two rooms never have one title, although create_retro_room and
\* update_retro_room_name check it in a step before they write.
TitlesUnique == \A x, y \in rooms : title[x] = title[y] => x = y

\* A search never lists a retrospect without the name of its room: the
\* retrospects are read last, and by then a room that was not named cannot
\* have one (search_retrospects, steps 2 to 4).
SearchAlwaysNamed ==
    \A r \in Requests : pc[r] = "found" => \A y \in seen[r] : room[y] \in named[r]

\* The inductive invariant: what the invariants above rest on.  Whatever is
\* stored was stored by a request that is done, so its room does not change.
StoredByDone ==
    /\ \A q \in rows \union retros \union rooms : pc[q] = "done"
    /\ \A x \in rooms : room[x] = x

\* What a search has read is no older than the requests that stored it, and
\* the rooms it found that still exist have been named before the last read.
SearchesRead ==
    \A r \in Requests :
        /\ pc[r] \in {"searchTitles", "searchRetros", "found"} =>
             \A x \in seen[r] : pc[x] = "done"
        /\ pc[r] = "searchRetros" => seen[r] \intersect rooms \subseteq named[r]

IInv ==
    /\ TypeOK
    /\ StoredByDone
    /\ SearchesRead
    /\ ReferencesHold
    /\ TitlesUnique
    /\ SearchAlwaysNamed

\* The deletion of one retrospect never takes another that was in the room
\* when its transaction began (delete_retrospect, step 12).
OthersSurvive ==
    [][\A r \in Requests :
          pc[r] = "commit" /\ pc'[r] = "done"
            => (seen[r] \ {retro[r]}) \intersect retros \subseteq retros']_vars

=============================================================================
