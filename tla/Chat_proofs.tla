---------------------------- MODULE Chat_proofs ----------------------------
(* What holds of Chat for every value of its constants. *)
EXTENDS Chat, FiniteSetTheorems, SequenceTheorems, TLAPS

Handler == {"idle", "create", "look", "again", "seat", "enter", "send", "write", "commit",
            "query", "read"}

\* Places where a handler needs no room.
Roomless == {"idle", "create", "query", "read"}

\* The part of the state the theorems are about, and its shape.
Typed ==
    /\ rows \in [Room -> [u1 : Member, u2 : Member]]
    /\ conn \in [Socket -> {"off", "auth", "on", "gone", "closed"}]
    /\ data \in [Socket -> BOOLEAN]
    /\ userSockets \in [User -> SUBSET Socket]
    /\ joined \in [Room -> SUBSET Socket]
    /\ DOMAIN req = Socket /\ req = [s \in Socket |-> req[s]]
    /\ \A s \in Socket : req[s].pc \in Handler

\* Who is online and who is shown.
PresenceInv ==
    /\ \A u \in User : userSockets[u] = {s \in Socket : Owner[s] = u /\ data[s]}
    /\ shown = {u \in User : userSockets[u] # {}}
    /\ \A s \in Socket : conn[s] = "on" => data[s]

\* A handler that works on a room has one; the one that is about to let its
\* socket in is that of a member.
RoomInv ==
    /\ \A s \in Socket : req[s].pc \notin Roomless => req[s].room \in Room
    /\ \A s \in Socket : req[s].pc = "enter" => IsMember(Owner[s], req[s].room)
    /\ OnlyMembersHear

\* Rooms are created and seats are taken, nothing else happens to rows.
RowsGrow ==
    \A r \in Room : rows[r] # NoRoom =>
        /\ rows'[r].u1 = rows[r].u1
        /\ rows[r].u2 # Absent => rows'[r].u2 = rows[r].u2

ChatInv == Typed /\ PresenceInv /\ RoomInv

-----------------------------------------------------------------------------
(* Helpers *)

LEMMA OwnerType == \A s \in Socket : Owner[s] \in User /\ Owner[s] # Absent /\ Owner[s] \in Member
BY ChatAssumption DEF Member

\* What a step of the handler of s does to the handlers.
LEMMA ToEffect ==
    ASSUME Typed, NEW s \in Socket, NEW pc \in Handler, NEW room, NEW msg, To(s, pc, room, msg)
    PROVE  /\ DOMAIN req' = Socket /\ req' = [t \in Socket |-> req'[t]]
           /\ req'[s].pc = pc /\ req'[s].room = room
           /\ \A t \in Socket : t # s => req'[t] = req[t]
           /\ \A t \in Socket : req'[t].pc \in Handler
<1>1. req'[s] = Request(pc, room, msg) BY DEF To, Typed
<1>2. \A t \in Socket : t # s => req'[t] = req[t] BY DEF To, Typed
<1>3. req'[s].pc = pc /\ req'[s].room = room BY <1>1 DEF Request
<1>4. DOMAIN req' = Socket /\ req' = [t \in Socket |-> req'[t]] BY DEF To, Typed
<1> QED BY <1>2, <1>3, <1>4 DEF Typed

LEMMA EndsEffect ==
    ASSUME Typed, NEW s \in Socket, Ends(s)
    PROVE  /\ DOMAIN req' = Socket /\ req' = [t \in Socket |-> req'[t]]
           /\ req'[s].pc = "idle"
           /\ \A t \in Socket : t # s => req'[t] = req[t]
           /\ \A t \in Socket : req'[t].pc \in Handler
<1>1. req'[s] = NoRequest BY DEF Ends, Typed
<1>2. \A t \in Socket : t # s => req'[t] = req[t] BY DEF Ends, Typed
<1>3. req'[s].pc = "idle" BY <1>1 DEF Request, NoRequest
<1>4. DOMAIN req' = Socket /\ req' = [t \in Socket |-> req'[t]] BY DEF Ends, Typed
<1> QED BY <1>2, <1>3, <1>4 DEF Typed, Handler

\* A member of a room remains one.
LEMMA MembersStay ==
    ASSUME Typed, RowsGrow
    PROVE  \A u \in User : \A r \in Room : IsMember(u, r) => IsMember(u, r)'
<1> SUFFICES ASSUME NEW u \in User, NEW r \in Room, IsMember(u, r) PROVE IsMember(u, r)' OBVIOUS
<1>1. u # Absent BY ChatAssumption
<1>2. rows[r] # NoRoom BY <1>1 DEF IsMember, NoRoom, Row
<1> QED BY <1>1, <1>2 DEF RowsGrow, IsMember

\* The steps that only move one handler, between places where no room is entered.
LEMMA HandlerMoves ==
    ASSUME Typed, PresenceInv, RoomInv, NEW s \in Socket, UNCHANGED <<rows, presence, joined>>,
           \/ Ends(s)
           \/ \E pc, room, msg :
                 /\ pc \in Handler /\ To(s, pc, room, msg)
                 /\ pc \notin Roomless => room \in Room
                 /\ pc = "enter" => IsMember(Owner[s], room)
    PROVE  ChatInv'
<1>0. UNCHANGED <<rows, conn, data, userSockets, shown, joined>> BY DEF presence
<1>1. /\ DOMAIN req' = Socket /\ req' = [t \in Socket |-> req'[t]]
      /\ \A t \in Socket : t # s => req'[t] = req[t]
      /\ \A t \in Socket : req'[t].pc \in Handler
      /\ req'[s].pc \notin Roomless => req'[s].room \in Room
      /\ req'[s].pc = "enter" => IsMember(Owner[s], req'[s].room)
  <2>1. CASE Ends(s) BY <2>1, EndsEffect DEF Roomless
  <2>2. CASE ~Ends(s)
    <3>1. PICK pc, room, msg :
             /\ pc \in Handler /\ To(s, pc, room, msg)
             /\ pc \notin Roomless => room \in Room
             /\ pc = "enter" => IsMember(Owner[s], room)
      BY <2>2
    <3> QED BY <3>1, ToEffect
  <2> QED BY <2>1, <2>2
<1>2. Typed' BY <1>0, <1>1 DEF Typed
<1>3. PresenceInv' BY <1>0 DEF PresenceInv
<1>4. \A t \in Socket : req'[t].pc \notin Roomless => req'[t].room \in Room
  BY <1>1 DEF RoomInv
<1>5. \A t \in Socket : (req[t].pc = "enter" => IsMember(Owner[t], req[t].room))'
  BY <1>1, <1>0 DEF RoomInv, IsMember
<1>6. OnlyMembersHear' BY <1>0 DEF RoomInv, OnlyMembersHear, IsMember
<1>7. RoomInv' BY <1>4, <1>5, <1>6 DEF RoomInv
<1> QED BY <1>2, <1>3, <1>7 DEF ChatInv
-----------------------------------------------------------------------------
(* Initial states *)

LEMMA InvInit == Init => ChatInv
<1> SUFFICES ASSUME Init PROVE ChatInv OBVIOUS
<1>1. PICK st \in Start :
         /\ rows = st.rows /\ joined = st.joined
         /\ data = [s \in Socket |-> \E r \in Room : s \in st.joined[r]]
  BY DEF Init
<1>2. /\ st.rows \in [Room -> [u1 : Member, u2 : Member]]
      /\ st.joined \in [Room -> SUBSET Socket]
      /\ \A r \in Room : \A k \in st.joined[r] : Owner[k] \in {st.rows[r].u1, st.rows[r].u2}
  BY ChatAssumption
<1>3. data \in [Socket -> BOOLEAN] BY <1>1
<1>4. /\ conn \in [Socket -> {"off", "auth", "on", "gone", "closed"}]
      /\ \A s \in Socket : conn[s] = "on" => data[s]
  BY <1>3 DEF Init
<1>5. /\ userSockets \in [User -> SUBSET Socket]
      /\ \A u \in User : userSockets[u] = {s \in Socket : Owner[s] = u /\ data[s]}
  BY DEF Init
<1>6. \A s \in Socket : req[s].pc = "idle" BY DEF Init, NoRequest, Request
<1>7. DOMAIN req = Socket /\ req = [s \in Socket |-> req[s]] BY DEF Init
<1>8. Typed BY <1>1, <1>2, <1>3, <1>4, <1>5, <1>6, <1>7 DEF Typed, Handler
<1>9. PresenceInv BY <1>4, <1>5 DEF PresenceInv, Init
<1>10. OnlyMembersHear BY <1>1, <1>2 DEF OnlyMembersHear, IsMember
<1> QED BY <1>6, <1>8, <1>9, <1>10 DEF ChatInv, RoomInv, Roomless
-----------------------------------------------------------------------------
(* Connections: the rooms are those of before, a socket may leave them. *)

\* A socket leaves the rooms of socket.io.
LEMMA LeavesEffect ==
    ASSUME Typed, NEW s \in Socket, Leaves(s), UNCHANGED rows, OnlyMembersHear
    PROVE  joined' \in [Room -> SUBSET Socket] /\ OnlyMembersHear'
<1>1. joined' \in [Room -> SUBSET Socket] BY DEF Leaves, Typed
<1>2. \A r \in Room : joined'[r] \subseteq joined[r] BY DEF Leaves, Typed
<1> QED BY <1>1, <1>2 DEF OnlyMembersHear, IsMember

\* Rooms and handlers are left alone.
LEMMA RoomsStay ==
    ASSUME Typed, RoomInv, UNCHANGED <<rows, req>>, OnlyMembersHear'
    PROVE  RoomInv'
BY DEF RoomInv, IsMember

LEMMA ConnectionKeeps ==
    ASSUME ChatInv, NEW s \in Socket, Connection(s)
    PROVE  ChatInv'
<1> USE DEF ChatInv
<1>o. Owner[s] \in User BY OwnerType
<1>1. CASE HandleConnection(s)
  <2>0. UNCHANGED <<rows, data, userSockets, shown, joined, req>> BY <1>1 DEF HandleConnection
  <2>1. conn' \in [Socket -> {"off", "auth", "on", "gone", "closed"}]
        /\ \A t \in Socket : conn'[t] = "on" => conn[t] = "on"
    BY <1>1 DEF HandleConnection, Typed
  <2>2. Typed' BY <2>0, <2>1 DEF Typed
  <2>3. PresenceInv' BY <2>0, <2>1 DEF PresenceInv
  <2>4. RoomInv' BY <2>0 DEF RoomInv, OnlyMembersHear, IsMember
  <2> QED BY <2>2, <2>3, <2>4
<1>2. CASE Authenticated(s)
  <2>0. UNCHANGED <<rows, joined, req>> BY <1>2 DEF Authenticated
  <2>1. /\ conn' \in [Socket -> {"off", "auth", "on", "gone", "closed"}]
        /\ \A t \in Socket : t # s => conn'[t] = conn[t]
    BY <1>2 DEF Authenticated, Typed
  <2>2. /\ data' \in [Socket -> BOOLEAN] /\ data'[s]
        /\ \A t \in Socket : t # s => (data'[t] <=> data[t])
    BY <1>2 DEF Authenticated, Typed
  <2>3. /\ userSockets' \in [User -> SUBSET Socket]
        /\ userSockets'[Owner[s]] = userSockets[Owner[s]] \cup {s}
        /\ \A u \in User : u # Owner[s] => userSockets'[u] = userSockets[u]
    BY <1>2, <1>o DEF Authenticated, Typed
  <2>4. \A u \in User : userSockets'[u] = {t \in Socket : Owner[t] = u /\ data'[t]}
    <3> SUFFICES ASSUME NEW u \in User
                 PROVE  userSockets'[u] = {t \in Socket : Owner[t] = u /\ data'[t]}
      OBVIOUS
    <3>1. userSockets[u] = {t \in Socket : Owner[t] = u /\ data[t]} BY DEF PresenceInv
    <3>2. CASE u = Owner[s] BY <2>2, <2>3, <3>1, <3>2
    <3>3. CASE u # Owner[s] BY <2>2, <2>3, <3>1, <3>3
    <3> QED BY <3>2, <3>3
  <2>5. shown' = {u \in User : userSockets'[u] # {}} BY <1>2 DEF Authenticated
  <2>6. Typed' BY <2>0, <2>1, <2>2, <2>3 DEF Typed
  <2>7. PresenceInv' BY <2>1, <2>2, <2>4, <2>5 DEF PresenceInv
  <2>8. RoomInv' BY <2>0 DEF RoomInv, OnlyMembersHear, IsMember
  <2> QED BY <2>6, <2>7, <2>8
<1>3. CASE Unauthorized(s)
  <2>0. UNCHANGED <<rows, data, userSockets, shown, req>> BY <1>3 DEF Unauthorized
  <2>1. conn' \in [Socket -> {"off", "auth", "on", "gone", "closed"}]
        /\ \A t \in Socket : conn'[t] = "on" => conn[t] = "on"
    BY <1>3 DEF Unauthorized, Typed
  <2>2. joined' \in [Room -> SUBSET Socket] /\ OnlyMembersHear'
    BY <1>3, <2>0, LeavesEffect DEF Unauthorized, RoomInv
  <2>3. Typed' BY <2>0, <2>1, <2>2 DEF Typed
  <2>4. PresenceInv' BY <2>0, <2>1 DEF PresenceInv
  <2> QED BY <2>0, <2>2, <2>3, <2>4, RoomsStay
<1>4. CASE HandleDisconnect(s)
  <2>0. UNCHANGED <<rows, req>> BY <1>4 DEF HandleDisconnect
  <2>1. conn' \in [Socket -> {"off", "auth", "on", "gone", "closed"}]
        /\ conn'[s] # "on" /\ \A t \in Socket : t # s => conn'[t] = conn[t]
    BY <1>4 DEF HandleDisconnect, Typed
  <2>2. joined' \in [Room -> SUBSET Socket] /\ OnlyMembersHear'
    BY <1>4, <2>0, LeavesEffect DEF HandleDisconnect, RoomInv
  <2>3. /\ data' \in [Socket -> BOOLEAN] /\ ~data'[s]
        /\ \A t \in Socket : t # s => (data'[t] <=> data[t])
    BY <1>4 DEF HandleDisconnect, Typed
  <2>4. /\ userSockets' \in [User -> SUBSET Socket]
        /\ \A u \in User : userSockets'[u] = userSockets[u] \ {s}
    <3>1. CASE data[s]
      <4>1. userSockets' = [userSockets EXCEPT ![Owner[s]] = userSockets[Owner[s]] \ {s}]
        BY <1>4, <3>1 DEF HandleDisconnect
      <4>2. \A u \in User : u # Owner[s] => s \notin userSockets[u] BY DEF PresenceInv
      <4> QED BY <4>1, <4>2, <1>o DEF Typed
    <3>2. CASE ~data[s]
      <4>1. userSockets' = userSockets BY <1>4, <3>2 DEF HandleDisconnect
      <4>2. \A u \in User : s \notin userSockets[u] BY <3>2 DEF PresenceInv
      <4> QED BY <4>1, <4>2 DEF Typed
    <3> QED BY <3>1, <3>2
  <2>5. \A u \in User : userSockets'[u] = {t \in Socket : Owner[t] = u /\ data'[t]}
    <3> SUFFICES ASSUME NEW u \in User
                 PROVE  userSockets'[u] = {t \in Socket : Owner[t] = u /\ data'[t]}
      OBVIOUS
    <3>1. userSockets[u] = {t \in Socket : Owner[t] = u /\ data[t]} BY DEF PresenceInv
    <3> QED BY <2>3, <2>4, <3>1
  <2>6. shown' = {u \in User : userSockets'[u] # {}}
    <3>1. CASE data[s]
      <4>1. shown' = ShownAfter(Owner[s], userSockets[Owner[s]] \ {s})
        BY <1>4, <3>1 DEF HandleDisconnect
      <4>2. shown = {u \in User : userSockets[u] # {}} BY DEF PresenceInv
      <4>3. \A u \in User : u # Owner[s] => s \notin userSockets[u] BY DEF PresenceInv
      <4>4. s \in userSockets[Owner[s]] BY <3>1, <1>o DEF PresenceInv
      <4>5. \A u \in User : u # Owner[s] => userSockets'[u] = userSockets[u] BY <2>4, <4>3
      <4>6. userSockets'[Owner[s]] = userSockets[Owner[s]] \ {s} BY <2>4, <1>o
      <4>7. CASE userSockets[Owner[s]] \ {s} = {}
        <5>1. shown' = shown \ {Owner[s]} BY <4>1, <4>7 DEF ShownAfter
        <5> QED BY <5>1, <4>2, <4>5, <4>6, <4>7
      <4>8. CASE userSockets[Owner[s]] \ {s} # {}
        <5>1. shown' = shown BY <4>1, <4>8 DEF ShownAfter
        <5> QED BY <5>1, <4>2, <4>4, <4>5, <4>6, <4>8
      <4> QED BY <4>7, <4>8
    <3>2. CASE ~data[s]
      <4>1. UNCHANGED <<userSockets, shown>> BY <1>4, <3>2 DEF HandleDisconnect
      <4> QED BY <4>1 DEF PresenceInv
    <3> QED BY <3>1, <3>2
  <2>7. Typed' BY <2>0, <2>1, <2>2, <2>3, <2>4 DEF Typed
  <2>8. PresenceInv' BY <2>1, <2>3, <2>5, <2>6 DEF PresenceInv
  <2> QED BY <2>0, <2>2, <2>7, <2>8, RoomsStay
<1> QED BY <1>1, <1>2, <1>3, <1>4 DEF Connection
-----------------------------------------------------------------------------
(* Handlers *)

LEMMA AsksKeeps ==
    ASSUME ChatInv, NEW s \in Socket, Asks(s)
    PROVE  ChatInv' /\ UNCHANGED rows
<1> USE DEF ChatInv
<1>1. CASE AskCreateRoom(s)
  <2>1. "create" \in Handler /\ "create" \in Roomless BY DEF Handler, Roomless
  <2> QED BY <1>1, <2>1, HandlerMoves DEF AskCreateRoom
<1>2. CASE AskNextPage(s)
  <2>1. "query" \in Handler BY DEF Handler
  <2>2. "query" \in Roomless BY DEF Roomless
  <2> QED BY <1>2, <2>1, <2>2, HandlerMoves DEF AskNextPage
<1>3. ASSUME NEW r \in Room, AskJoinRoom(s, r) \/ AskSendMessage(s, r) \/ AskQueryMessages(s, r)
      PROVE  ChatInv' /\ UNCHANGED rows
  <2>1. {"look", "send", "query"} \subseteq Handler BY DEF Handler
  <2>2. CASE AskJoinRoom(s, r) BY <2>2, <2>1, HandlerMoves DEF AskJoinRoom
  <2>3. CASE AskSendMessage(s, r) BY <2>3, <2>1, HandlerMoves DEF AskSendMessage
  <2>4. CASE AskQueryMessages(s, r) BY <2>4, <2>1, HandlerMoves DEF AskQueryMessages
  <2> QED BY <1>3, <2>2, <2>3, <2>4
<1> QED BY <1>1, <1>2, <1>3 DEF Asks

\* A step of the handler of s that writes rows of rooms.
LEMMA RowsWritten ==
    ASSUME ChatInv, NEW s \in Socket, NEW r \in Room,
           rows' \in [Room -> [u1 : Member, u2 : Member]], RowsGrow,
           IsMember(Owner[s], r)', To(s, "enter", r, Absent), UNCHANGED <<presence, joined>>
    PROVE  ChatInv'
<1> USE DEF ChatInv
<1>0. UNCHANGED <<conn, data, userSockets, shown, joined>> BY DEF presence
<1>1. /\ DOMAIN req' = Socket /\ req' = [t \in Socket |-> req'[t]]
      /\ req'[s].room = r
      /\ \A t \in Socket : t # s => req'[t] = req[t]
      /\ \A t \in Socket : req'[t].pc \in Handler
  <2>1. "enter" \in Handler BY DEF Handler
  <2> QED BY <2>1, ToEffect
<1>2. \A u \in User : \A q \in Room : IsMember(u, q) => IsMember(u, q)' BY MembersStay
<1>3. Typed' BY <1>0, <1>1 DEF Typed
<1>4. PresenceInv' BY <1>0 DEF PresenceInv
<1>5. \A t \in Socket : req'[t].pc \notin Roomless => req'[t].room \in Room
  BY <1>1 DEF RoomInv
<1>6. ASSUME NEW t \in Socket, req'[t].pc = "enter" PROVE IsMember(Owner[t], req[t].room)'
  <2>1. CASE t = s BY <1>1, <2>1 DEF IsMember
  <2>2. CASE t # s
    <3>1. req'[t] = req[t] BY <1>1, <2>2
    <3>2. req[t].room \in Room /\ IsMember(Owner[t], req[t].room)
      BY <1>6, <3>1 DEF RoomInv, Roomless
    <3>3. IsMember(Owner[t], req[t].room) => \/ Owner[t] = rows'[req[t].room].u1
                                              \/ Owner[t] = rows'[req[t].room].u2
      BY <1>2, <3>2, OwnerType DEF IsMember
    <3> QED BY <3>1, <3>2, <3>3 DEF IsMember
  <2> QED BY <2>1, <2>2
<1>7. OnlyMembersHear'
  <2> SUFFICES ASSUME NEW q \in Room, NEW t \in joined'[q] PROVE IsMember(Owner[t], q)'
    BY DEF OnlyMembersHear
  <2>1. t \in Socket /\ t \in joined[q] BY <1>0 DEF Typed
  <2>2. IsMember(Owner[t], q) BY <2>1 DEF RoomInv, OnlyMembersHear
  <2> QED BY <1>2, <2>1, <2>2, OwnerType
<1> QED BY <1>3, <1>4, <1>5, <1>6, <1>7 DEF RoomInv

LEMMA CreateRoomKeeps ==
    ASSUME ChatInv, NEW s \in Socket, CreateRoom(s)
    PROVE  ChatInv' /\ RowsGrow
<1> USE DEF ChatInv
<1>1. PICK r \in Unused : rows' = [rows EXCEPT ![r] = Row(Owner[s], Absent)]
                          /\ To(s, "enter", r, Absent)
  BY DEF CreateRoom
<1>2. r \in Room /\ rows[r] = NoRoom BY DEF Unused
<1>3. /\ rows' \in [Room -> [u1 : Member, u2 : Member]]
      /\ rows'[r] = Row(Owner[s], Absent)
      /\ \A q \in Room : q # r => rows'[q] = rows[q]
  BY <1>1, <1>2, OwnerType DEF Typed, Row, Member
<1>4. RowsGrow BY <1>2, <1>3 DEF RowsGrow
<1>5. IsMember(Owner[s], r)' BY <1>3 DEF IsMember, Row
<1> QED BY <1>1, <1>2, <1>3, <1>4, <1>5, RowsWritten DEF CreateRoom

LEMMA JoinReadKeeps ==
    ASSUME ChatInv, NEW s \in Socket, JoinRead(s)
    PROVE  ChatInv' /\ UNCHANGED rows
<1> USE DEF ChatInv
<1>1. req[s].room \in Room BY DEF JoinRead, RoomInv, Roomless
<1>2. {"enter", "again", "seat"} \subseteq Handler BY DEF Handler
<1>3. UNCHANGED <<rows, presence, joined>> BY DEF JoinRead
<1>4. CASE IsMember(Owner[s], req[s].room) /\ To(s, "enter", req[s].room, Absent)
  BY <1>1, <1>2, <1>3, <1>4, HandlerMoves
<1>5. CASE Ends(s) BY <1>3, <1>5, HandlerMoves
<1>6. CASE To(s, "again", req[s].room, Absent) BY <1>1, <1>2, <1>3, <1>6, HandlerMoves
<1>7. CASE To(s, "seat", req[s].room, Absent) BY <1>1, <1>2, <1>3, <1>7, HandlerMoves
<1> QED BY <1>3, <1>4, <1>5, <1>6, <1>7 DEF JoinRead

LEMMA JoinSeatKeeps ==
    ASSUME ChatInv, NEW s \in Socket, JoinSeat(s)
    PROVE  ChatInv' /\ RowsGrow
<1> USE DEF ChatInv
<1>0. req[s].room \in Room BY DEF JoinSeat, RoomInv, Roomless
<1>1. PICK r \in Room : r = req[s].room BY <1>0
<1>2. UNCHANGED <<presence, joined>> BY DEF JoinSeat
<1>3. CASE Vacant(r) /\ ~PairTaken(rows[r].u1, Owner[s])
  <2>1. rows' = [rows EXCEPT ![r] = Row(rows[r].u1, Owner[s])] /\ To(s, "enter", r, Absent)
    BY <1>1, <1>3 DEF JoinSeat
  <2>2. rows[r].u2 = Absent BY <1>3 DEF Vacant
  <2>3. /\ rows' \in [Room -> [u1 : Member, u2 : Member]]
        /\ rows'[r] = Row(rows[r].u1, Owner[s])
        /\ \A q \in Room : q # r => rows'[q] = rows[q]
    BY <2>1, <1>1, OwnerType DEF Typed, Row
  <2>4. rows'[r].u1 = rows[r].u1 /\ rows'[r].u2 = Owner[s] BY <2>3 DEF Row
  <2>5. RowsGrow BY <2>2, <2>3, <2>4 DEF RowsGrow
  <2>6. IsMember(Owner[s], r)' BY <2>4 DEF IsMember
  <2> QED BY <1>1, <1>2, <2>1, <2>3, <2>5, <2>6, RowsWritten
<1>4. CASE ~(Vacant(r) /\ ~PairTaken(rows[r].u1, Owner[s]))
  <2>1. Ends(s) /\ UNCHANGED rows BY <1>1, <1>4 DEF JoinSeat
  <2> QED BY <1>2, <2>1, HandlerMoves DEF RowsGrow
<1> QED BY <1>3, <1>4

LEMMA EnterRoomKeeps ==
    ASSUME ChatInv, NEW s \in Socket, EnterRoom(s)
    PROVE  ChatInv' /\ UNCHANGED rows
<1> USE DEF ChatInv
<1> DEFINE r == req[s].room
<1>0. UNCHANGED <<rows, conn, data, userSockets, shown>> BY DEF EnterRoom, presence
<1>1. r \in Room /\ IsMember(Owner[s], r) BY DEF EnterRoom, RoomInv, Roomless
<1>2. joined' \in [Room -> SUBSET Socket]
      /\ \A q \in Room : \A t \in joined'[q] : t \in joined[q] \/ (t = s /\ q = r)
  <2>1. CASE Connected(s)
    <3>1. joined' = [joined EXCEPT ![r] = joined[r] \cup {s}] BY <2>1 DEF EnterRoom
    <3> QED BY <3>1, <1>1 DEF Typed
  <2>2. CASE ~Connected(s)
    <3>1. joined' = joined BY <2>2 DEF EnterRoom
    <3> QED BY <3>1 DEF Typed
  <2> QED BY <2>1, <2>2
<1>3. /\ DOMAIN req' = Socket /\ req' = [t \in Socket |-> req'[t]]
      /\ req'[s].pc = "idle"
      /\ \A t \in Socket : t # s => req'[t] = req[t]
      /\ \A t \in Socket : req'[t].pc \in Handler
  BY EndsEffect DEF EnterRoom
<1>4. Typed' BY <1>0, <1>2, <1>3 DEF Typed
<1>5. PresenceInv' BY <1>0 DEF PresenceInv
<1>6. OnlyMembersHear' BY <1>0, <1>1, <1>2 DEF OnlyMembersHear, IsMember, RoomInv
<1>7. \A t \in Socket : req'[t].pc \notin Roomless => req'[t].room \in Room
  BY <1>3 DEF RoomInv, Roomless
<1>8. \A t \in Socket : (req[t].pc = "enter" => IsMember(Owner[t], req[t].room))'
  BY <1>0, <1>3 DEF RoomInv, IsMember
<1>9. RoomInv' BY <1>6, <1>7, <1>8 DEF RoomInv
<1> QED BY <1>0, <1>4, <1>5, <1>9

LEMMA HandlesKeeps ==
    ASSUME ChatInv, NEW s \in Socket, Handles(s)
    PROVE  ChatInv' /\ RowsGrow
<1> USE DEF ChatInv
<1>g. UNCHANGED rows => RowsGrow BY DEF RowsGrow
<1>h. {"write", "commit", "read"} \subseteq Handler BY DEF Handler
<1>1. CASE Fails(s) BY <1>1, <1>g, HandlerMoves DEF Fails
<1>2. CASE CommitMessage(s) BY <1>2, <1>g, HandlerMoves DEF CommitMessage
<1>3. CASE GetRoomMessages(s) BY <1>3, <1>g, HandlerMoves DEF GetRoomMessages
<1>4. CASE SendCheck(s)
  <2>1. req[s].room \in Room BY <1>4 DEF SendCheck, RoomInv, Roomless
  <2>2. UNCHANGED <<rows, presence, joined>>
        /\ (Ends(s) \/ To(s, "write", req[s].room, Absent))
    BY <1>4 DEF SendCheck
  <2> QED BY <1>g, <1>h, <2>1, <2>2, HandlerMoves
<1>5. CASE QueryCheck(s)
  <2>1. "read" \in Roomless BY DEF Roomless
  <2>2. UNCHANGED <<rows, presence, joined>>
        /\ (Ends(s) \/ To(s, "read", req[s].room, Absent))
    BY <1>5 DEF QueryCheck
  <2> QED BY <1>g, <1>h, <2>1, <2>2, HandlerMoves
<1>6. CASE CreateMessage(s)
  <2>1. req[s].room \in Room BY <1>6 DEF CreateMessage, RoomInv, Roomless
  <2>2. UNCHANGED <<rows, presence, joined>>
        /\ (Ends(s) \/ \E msg : To(s, "commit", req[s].room, msg))
    BY <1>6 DEF CreateMessage
  <2> QED BY <1>g, <1>h, <2>1, <2>2, HandlerMoves
<1>7. CASE CreateRoom(s) BY <1>7, CreateRoomKeeps
<1>8. CASE JoinRead(s) BY <1>8, <1>g, JoinReadKeeps
<1>9. CASE JoinSeat(s) BY <1>9, JoinSeatKeeps
<1>10. CASE EnterRoom(s) BY <1>10, <1>g, EnterRoomKeeps
<1> QED BY <1>1, <1>2, <1>3, <1>4, <1>5, <1>6, <1>7, <1>8, <1>9, <1>10 DEF Handles
-----------------------------------------------------------------------------
(* The job *)

LEMMA JobKeeps ==
    ASSUME ChatInv, NEW u \in Creator, JobCreatesRooms(u)
    PROVE  ChatInv' /\ RowsGrow
<1> USE DEF ChatInv
<1> DEFINE missing == {c \in Customer \ {u} : ~PairTaken(u, c)}
<1>0. UNCHANGED <<conn, data, userSockets, shown, joined, req>> BY DEF JobCreatesRooms, presence
<1>1. PICK new \in [missing -> Unused] :
         rows' = [r \in Room |-> IF \E c \in missing : new[c] = r
                                   THEN Row(u, CHOOSE c \in missing : new[c] = r) ELSE rows[r]]
  BY DEF JobCreatesRooms
<1>2. missing \subseteq User /\ u \in User BY ChatAssumption
<1>3. \A r \in Room : (\E c \in missing : new[c] = r)
         => (CHOOSE c \in missing : new[c] = r) \in missing
  OBVIOUS
<1>4. rows' \in [Room -> [u1 : Member, u2 : Member]]
  <2>1. \A c \in missing : Row(u, c) \in [u1 : Member, u2 : Member] BY <1>2 DEF Row, Member
  <2> QED BY <1>1, <1>3, <2>1 DEF Typed
<1>5. RowsGrow
  <2> SUFFICES ASSUME NEW r \in Room, rows[r] # NoRoom PROVE rows'[r] = rows[r]
    BY DEF RowsGrow
  <2>1. r \notin Unused BY DEF Unused
  <2> QED BY <1>1, <2>1
<1>6. \A v \in User : \A r \in Room : IsMember(v, r) => IsMember(v, r)' BY <1>5, MembersStay
<1>7. Typed' BY <1>0, <1>4 DEF Typed
<1>8. PresenceInv' BY <1>0 DEF PresenceInv
<1>9. OnlyMembersHear'
  <2> SUFFICES ASSUME NEW q \in Room, NEW t \in joined'[q] PROVE IsMember(Owner[t], q)'
    BY DEF OnlyMembersHear
  <2>1. t \in Socket /\ t \in joined[q] BY <1>0 DEF Typed
  <2>2. IsMember(Owner[t], q) BY <2>1 DEF RoomInv, OnlyMembersHear
  <2> QED BY <1>6, <2>1, <2>2, OwnerType
<1>10. \A t \in Socket : req'[t].pc \notin Roomless => req'[t].room \in Room
  BY <1>0 DEF RoomInv
<1>11. ASSUME NEW t \in Socket, req'[t].pc = "enter" PROVE IsMember(Owner[t], req[t].room)'
  <2>1. req'[t] = req[t] BY <1>0
  <2>2. req[t].room \in Room /\ IsMember(Owner[t], req[t].room)
    BY <1>11, <2>1 DEF RoomInv, Roomless
  <2>3. \/ Owner[t] = rows'[req[t].room].u1
        \/ Owner[t] = rows'[req[t].room].u2
    BY <1>6, <2>2, OwnerType DEF IsMember
  <2> QED BY <2>1, <2>3 DEF IsMember
<1> QED BY <1>5, <1>7, <1>8, <1>9, <1>10, <1>11 DEF RoomInv

-----------------------------------------------------------------------------
(* All steps *)

\* A step that touches neither rows nor sockets nor handlers.
LEMMA InvStays ==
    ASSUME ChatInv, UNCHANGED <<rows, presence, joined, req>>
    PROVE  ChatInv' /\ RowsGrow
<1>0. UNCHANGED <<conn, data, userSockets, shown>> BY DEF presence
<1>1. Typed' BY <1>0 DEF ChatInv, Typed
<1>2. PresenceInv' BY <1>0 DEF ChatInv, PresenceInv
<1>3. RoomInv' BY DEF ChatInv, RoomInv, OnlyMembersHear, IsMember
<1> QED BY <1>1, <1>2, <1>3 DEF ChatInv, RowsGrow

LEMMA InvStep == ChatInv /\ [Next]_vars => ChatInv' /\ RowsGrow
<1> SUFFICES ASSUME ChatInv, [Next]_vars PROVE ChatInv' /\ RowsGrow OBVIOUS
<1>1. ASSUME NEW s \in Socket, Connection(s) PROVE ChatInv' /\ RowsGrow
  <2>1. UNCHANGED rows
    BY <1>1 DEF Connection, HandleConnection, Authenticated, Unauthorized, HandleDisconnect
  <2> QED BY <1>1, <2>1, ConnectionKeeps DEF RowsGrow
<1>2. ASSUME NEW s \in Socket, Asks(s) PROVE ChatInv' /\ RowsGrow
  BY <1>2, AsksKeeps DEF RowsGrow
<1>3. ASSUME NEW s \in Socket, Handles(s) PROVE ChatInv' /\ RowsGrow
  BY <1>3, HandlesKeeps
<1>4. ASSUME NEW u \in Creator, EnqueueRooms(u) \/ JobFails(u) PROVE ChatInv' /\ RowsGrow
  <2>1. UNCHANGED <<rows, presence, joined, req>> BY <1>4 DEF EnqueueRooms, JobFails
  <2> QED BY <2>1, InvStays
<1>5. ASSUME NEW u \in Creator, JobCreatesRooms(u) PROVE ChatInv' /\ RowsGrow
  BY <1>5, JobKeeps
<1>6. CASE Tick \/ UNCHANGED vars
  <2>1. UNCHANGED <<rows, presence, joined, req>> BY <1>6 DEF Tick, vars
  <2> QED BY <2>1, InvStays
<1> QED BY <1>1, <1>2, <1>3, <1>4, <1>5, <1>6 DEF Next

-----------------------------------------------------------------------------
(* The order of messages *)

\* The id of a message is its primary key.
Distinct(S) == \A m, n \in S : m.id = n.id => m = n

LEMMA NewerOrders ==
    ASSUME NEW m \in MessageRecord, NEW n \in MessageRecord
    PROVE  /\ ~Newer(m, m)
           /\ m.id # n.id => Newer(m, n) \/ Newer(n, m)
           /\ Newer(m, n) <=> Behind(n, m)
           /\ ~(Newer(m, n) /\ Newer(n, m))
           /\ \A l \in MessageRecord : Newer(l, m) /\ Newer(m, n) => Newer(l, n)
BY DEF MessageRecord, Newer, Behind

\* A page of NewestFirst(S) has every message of S at the place its newer ones leave.
LEMMA NewestFirstSorts ==
    ASSUME NEW S, S \subseteq MessageRecord, IsFiniteSet(S), Distinct(S)
    PROVE  /\ NewestFirst(S) \in [1..Cardinality(S) -> S]
           /\ \A i, j \in 1..Cardinality(S) : i < j => Newer(NewestFirst(S)[i], NewestFirst(S)[j])
           /\ \A m \in S : \E i \in 1..Cardinality(S) : NewestFirst(S)[i] = m
<1> DEFINE N == Cardinality(S)
           ahead(m) == {n \in S : Newer(n, m)}
           place(m) == Cardinality(ahead(m))
           f == [m \in S |-> place(m) + 1]
           q == NewestFirst(S)
           at(i) == CHOOSE m \in S : place(m) = i - 1
<1>q. q = [i \in 1..N |-> at(i)] BY DEF NewestFirst
<1>0. N \in Nat BY FS_CardinalityType
<1>1. ASSUME NEW m \in S PROVE IsFiniteSet(ahead(m)) /\ place(m) \in Nat /\ place(m) < N
  <2>1. ahead(m) \in SUBSET S /\ m \notin ahead(m) BY NewerOrders
  <2>2. IsFiniteSet(ahead(m)) /\ place(m) <= N /\ place(m) # N
    <3> HIDE DEF ahead
    <3> QED BY <2>1, FS_Subset
  <2>3. place(m) \in Nat BY <2>2, FS_CardinalityType
  <2> QED BY <1>0, <2>2, <2>3
<1>2. ASSUME NEW m \in S, NEW n \in S, Newer(m, n) PROVE place(m) < place(n)
  <2>1. ahead(m) \in SUBSET ahead(n) BY <1>2, NewerOrders
  <2>2. m \in ahead(n) /\ m \notin ahead(m) BY <1>2, NewerOrders
  <2>3. place(m) <= place(n) /\ place(m) # place(n)
    <3>1. IsFiniteSet(ahead(n)) BY <1>1
    <3> HIDE DEF ahead
    <3> QED BY <2>1, <2>2, <3>1, FS_Subset
  <2>4. place(m) \in Nat /\ place(n) \in Nat BY <1>1
  <2> HIDE DEF place
  <2> QED BY <2>3, <2>4
<1>3. ASSUME NEW m \in S, NEW n \in S, place(m) = place(n) PROVE m = n
  <2>1. ~Newer(m, n) /\ ~Newer(n, m)
    <3>1. place(m) \in Nat BY <1>1
    <3>2. Newer(m, n) => place(m) < place(n) BY <1>2
    <3>3. Newer(n, m) => place(n) < place(m) BY <1>2
    <3> HIDE DEF place
    <3> QED BY <1>3, <3>1, <3>2, <3>3
  <2> QED BY <2>1, NewerOrders DEF Distinct
<1>4. f \in Injection(S, 1..N)
  <2>1. f \in [S -> 1..N]
    <3>1. ASSUME NEW m \in S PROVE place(m) + 1 \in 1..N
      <4>1. place(m) \in Nat /\ place(m) < N BY <1>1
      <4> HIDE DEF place
      <4> QED BY <1>0, <4>1
    <3> HIDE DEF place
    <3> QED BY <3>1
  <2>2. ASSUME NEW m \in S, NEW n \in S, f[m] = f[n] PROVE m = n
    <3>1. place(m) \in Nat /\ place(n) \in Nat BY <1>1
    <3>2. place(m) = place(n)
      <4> HIDE DEF place
      <4> QED BY <2>2, <3>1
    <3> QED BY <1>3, <3>2
  <2> HIDE DEF f
  <2> QED BY <2>1, <2>2 DEF Injection, IsInjective
<1>5. f \in Surjection(S, 1..N)
  <2>1. IsFiniteSet(1..N) /\ Cardinality(1..N) = N BY <1>0, FS_Interval
  <2> HIDE DEF f
  <2> QED BY <1>4, <2>1, FS_Injection
<1>6. ASSUME NEW i \in 1..N PROVE q[i] \in S /\ place(q[i]) = i - 1
  <2>1. PICK m \in S : f[m] = i
    <3> HIDE DEF f
    <3> QED BY <1>5 DEF Surjection
  <2>2. place(m) = i - 1
    <3>1. place(m) \in Nat BY <1>1
    <3> HIDE DEF place
    <3> QED BY <2>1, <3>1
  <2>3. q[i] = CHOOSE l \in S : place(l) = i - 1
    <3> HIDE DEF place, q
    <3> QED BY <1>q
  <2> HIDE DEF place, q
  <2> QED BY <2>2, <2>3
<1>7. q \in [1..N -> S]
  <2>1. q = [i \in 1..N |-> q[i]]
    <3> HIDE DEF q, at
    <3> QED BY <1>q
  <2> HIDE DEF q, place
  <2> QED BY <2>1, <1>6
<1>8. ASSUME NEW i \in 1..N, NEW j \in 1..N, i < j PROVE Newer(q[i], q[j])
  <2>1. q[i] \in S /\ q[j] \in S /\ place(q[i]) < place(q[j])
    <3> HIDE DEF place, q
    <3> QED BY <1>6, <1>8, <1>0
  <2>2. q[i] # q[j]
    <3>1. place(q[i]) = i - 1 /\ place(q[j]) = j - 1 BY <1>6
    <3>2. i - 1 # j - 1 BY <1>0, <1>8
    <3> HIDE DEF place, q
    <3> QED BY <3>1, <3>2
  <2>3. ~Newer(q[j], q[i])
    <3>1. Newer(q[j], q[i]) => place(q[j]) < place(q[i]) BY <1>2, <2>1
    <3>2. place(q[j]) \in Nat /\ place(q[i]) \in Nat BY <1>1, <2>1
    <3> HIDE DEF place, q
    <3> QED BY <2>1, <3>1, <3>2
  <2> HIDE DEF q
  <2> QED BY <2>1, <2>2, <2>3, NewerOrders DEF Distinct
<1>9. ASSUME NEW m \in S PROVE \E i \in 1..N : q[i] = m
  <2>1. place(m) + 1 \in 1..N /\ (place(m) + 1) - 1 = place(m)
    <3>1. place(m) \in Nat /\ place(m) < N BY <1>1
    <3> HIDE DEF place
    <3> QED BY <1>0, <3>1
  <2>2. q[place(m) + 1] \in S /\ place(q[place(m) + 1]) = place(m) BY <1>6, <2>1
  <2>3. q[place(m) + 1] = m BY <1>3, <2>2
  <2> QED BY <2>1, <2>3
<1> QED BY <1>7, <1>8, <1>9

-----------------------------------------------------------------------------
(* Sequences of messages *)

Sorted(q) == \A i, j \in DOMAIN q : i < j => Newer(q[i], q[j])
Has(q, m) == \E i \in DOMAIN q : q[i] = m
AllNewer(s, t) == \A i \in DOMAIN s : \A j \in DOMAIN t : Newer(s[i], t[j])

\* A page that is not the last: it is sorted, and what it leaves out is behind it.
LEMMA PageTaken ==
    ASSUME NEW S, S \subseteq MessageRecord, IsFiniteSet(S), Distinct(S),
           NEW n \in Nat \ {0}, n < Cardinality(S),
           NEW got, got = SubSeq(NewestFirst(S), 1, n)
    PROVE  /\ got \in Seq(S) /\ Sorted(got) /\ got[n] \in S
           /\ \A i \in DOMAIN got : got[i] = got[n] \/ Newer(got[i], got[n])
           /\ \A m \in S : Has(got, m) \/ Behind(m, got[n])
<1> DEFINE q == NewestFirst(S)
           N == Cardinality(S)
<1>0. N \in Nat BY FS_CardinalityType
<1>1. /\ q \in [1..N -> S]
      /\ \A i, j \in 1..N : i < j => Newer(q[i], q[j])
      /\ \A m \in S : \E i \in 1..N : q[i] = m
  BY NewestFirstSorts
<1>2. got = SubSeq(q, 1, n) OBVIOUS
<1> HIDE DEF q, N
<1>n. n < N BY DEF N
<1>3. /\ got \in Seq(S) /\ Len(got) = n
      /\ \A i \in 1..n : got[i] = q[i]
  <2>1. \A i \in 1..n : q[i] \in S BY <1>0, <1>1, <1>n
  <2>2. /\ SubSeq(q, 1, n) \in Seq(S)
        /\ Len(SubSeq(q, 1, n)) = IF 1 <= n THEN n - 1 + 1 ELSE 0
        /\ \A i \in 1..(n - 1 + 1) : SubSeq(q, 1, n)[i] = q[1 + i - 1]
    BY <2>1, SubSeqProperties
  <2>3. \A i \in 1..n : 1 + i - 1 = i OBVIOUS
  <2>4. n - 1 + 1 = n /\ 1 <= n OBVIOUS
  <2> QED BY <1>2, <2>2, <2>3, <2>4
<1>4. DOMAIN got = 1..n BY <1>3, LenProperties
<1>5. 1..n \subseteq 1..N /\ n \in 1..n BY <1>0, <1>n
<1>6. Sorted(got) BY <1>1, <1>3, <1>4, <1>5 DEF Sorted
<1>7. got[n] \in S /\ got[n] = q[n] BY <1>1, <1>3, <1>5
<1>8. \A i \in DOMAIN got : got[i] = got[n] \/ Newer(got[i], got[n])
  <2> SUFFICES ASSUME NEW i \in 1..n, i # n PROVE Newer(got[i], got[n]) BY <1>4
  <2>1. i < n OBVIOUS
  <2> QED BY <1>1, <1>3, <1>5, <2>1
<1>9. ASSUME NEW m \in S, ~Has(got, m) PROVE Behind(m, got[n])
  <2>1. PICK i \in 1..N : q[i] = m BY <1>1
  <2>2. i \notin 1..n BY <1>3, <1>4, <1>9, <2>1 DEF Has
  <2>3. n < i BY <1>0, <2>2
  <2>4. Newer(q[n], m) BY <1>1, <1>5, <2>1, <2>3
  <2>5. Newer(got[n], m) BY <1>7, <2>4
  <2> QED BY <1>7, <2>5, NewerOrders
<1> QED BY <1>3, <1>6, <1>7, <1>8, <1>9

\* The last page has everything that is left.
LEMMA LastPage ==
    ASSUME NEW S, S \subseteq MessageRecord, IsFiniteSet(S), Distinct(S),
           NEW got, got = NewestFirst(S)
    PROVE  got \in Seq(S) /\ Sorted(got) /\ \A m \in S : Has(got, m)
<1> DEFINE N == Cardinality(S)
<1>0. N \in Nat BY FS_CardinalityType
<1>1. /\ got \in [1..N -> S]
      /\ \A i, j \in 1..N : i < j => Newer(got[i], got[j])
      /\ \A m \in S : \E i \in 1..N : got[i] = m
  BY NewestFirstSorts
<1> HIDE DEF N
<1>2. DOMAIN got = 1..N BY <1>1
<1>3. got \in Seq(S) BY <1>0, <1>1, SeqDef
<1> QED BY <1>1, <1>2, <1>3 DEF Sorted, Has

\* Pages put together.
LEMMA PagesJoin ==
    ASSUME NEW s \in Seq(MessageRecord), NEW t \in Seq(MessageRecord), Sorted(s), Sorted(t),
           AllNewer(s, t), NEW all, all = s \o t
    PROVE  /\ all \in Seq(MessageRecord) /\ Sorted(all)
           /\ \A m : Has(all, m) <=> Has(s, m) \/ Has(t, m)
<1>1. /\ Len(s) \in Nat /\ DOMAIN s = 1..Len(s)
      /\ Len(t) \in Nat /\ DOMAIN t = 1..Len(t)
  BY LenProperties
<1>2. /\ all \in Seq(MessageRecord) /\ Len(all) = Len(s) + Len(t)
      /\ \A i \in 1..(Len(s) + Len(t)) : all[i] = IF i <= Len(s) THEN s[i] ELSE t[i - Len(s)]
  BY ConcatProperties
<1>3. DOMAIN all = 1..(Len(s) + Len(t)) BY <1>2, LenProperties
<1>4. ASSUME NEW i \in DOMAIN all
      PROVE  \/ i \in DOMAIN s /\ all[i] = s[i]
             \/ i - Len(s) \in DOMAIN t /\ i > Len(s) /\ all[i] = t[i - Len(s)]
  BY <1>1, <1>2, <1>3
<1>5. ASSUME NEW i \in DOMAIN all, NEW j \in DOMAIN all, i < j PROVE Newer(all[i], all[j])
  <2>1. i \in Int /\ j \in Int /\ Len(s) \in Int BY <1>1, <1>3
  <2>2. CASE j \in DOMAIN s /\ all[j] = s[j]
    <3>1. i \in DOMAIN s /\ all[i] = s[i] BY <1>1, <1>2, <1>3, <1>5, <2>2
    <3> QED BY <1>5, <2>2, <3>1 DEF Sorted
  <2>3. CASE j - Len(s) \in DOMAIN t /\ j > Len(s) /\ all[j] = t[j - Len(s)]
    <3>1. CASE i \in DOMAIN s /\ all[i] = s[i] BY <2>3, <3>1 DEF AllNewer
    <3>2. CASE i - Len(s) \in DOMAIN t /\ all[i] = t[i - Len(s)]
      <4>1. i - Len(s) < j - Len(s) BY <1>5, <2>1
      <4> QED BY <2>3, <3>2, <4>1 DEF Sorted
    <3> QED BY <1>4, <3>1, <3>2
  <2> QED BY <1>4, <2>2, <2>3
<1>6. ASSUME NEW i \in DOMAIN s PROVE i \in DOMAIN all /\ all[i] = s[i]
  BY <1>1, <1>2, <1>3
<1>7. ASSUME NEW i \in DOMAIN t PROVE i + Len(s) \in DOMAIN all /\ all[i + Len(s)] = t[i]
  <2>1. i + Len(s) \in 1..(Len(s) + Len(t)) /\ ~(i + Len(s) <= Len(s)) /\ (i + Len(s)) - Len(s) = i
    BY <1>1
  <2> QED BY <1>2, <1>3, <2>1
<1>8. ASSUME NEW m PROVE Has(all, m) <=> Has(s, m) \/ Has(t, m)
  <2>1. ASSUME Has(all, m) PROVE Has(s, m) \/ Has(t, m)
    <3>1. PICK i \in DOMAIN all : all[i] = m BY <2>1 DEF Has
    <3> QED BY <1>4, <3>1 DEF Has
  <2>2. Has(s, m) => Has(all, m) BY <1>6 DEF Has
  <2>3. ASSUME Has(t, m) PROVE Has(all, m)
    <3>1. PICK i \in DOMAIN t : t[i] = m BY <2>3 DEF Has
    <3>2. i + Len(s) \in DOMAIN all /\ all[i + Len(s)] = m BY <1>7, <3>1
    <3> QED BY <3>2 DEF Has
  <2> QED BY <2>1, <2>2, <2>3
<1> QED BY <1>2, <1>5, <1>8 DEF Sorted

-----------------------------------------------------------------------------
(* The page that is read *)

PageRecord ==
    [room : Room \cup {Absent}, todo : {"none", "first", "more", "done"},
     cursor : MessageRecord \cup {Absent}, seen : Seq(MessageRecord),
     start : SUBSET MessageRecord]

\* What a client has seen is sorted and before its cursor; what it has to see yet
\* is in the room and behind the cursor.
PageInv(p) ==
    /\ p \in PageRecord
    /\ Sorted(p.seen)
    /\ p.todo \in {"none", "first"} => p.seen = <<>> /\ p.start = {} /\ p.cursor = Absent
    /\ p.todo = "done" => \A m \in p.start : Has(p.seen, m)
    /\ p.todo = "more" =>
          /\ p.cursor # Absent
          /\ \A i \in DOMAIN p.seen : p.seen[i] = p.cursor \/ Newer(p.seen[i], p.cursor)
          /\ \A m \in p.start : Has(p.seen, m) \/ (m \in messages /\ m.room = p.room
                                                     /\ Behind(m, p.cursor))

\* A page got of what there is to see is added to what was seen.
LEMMA PageAdded ==
    ASSUME NEW p, p \in PageRecord, Sorted(p.seen),
           NEW found, found \subseteq MessageRecord,
           \A i \in DOMAIN p.seen : \A m \in found : Newer(p.seen[i], m),
           NEW got, got \in Seq(found), Sorted(got)
    PROVE  /\ p.seen \o got \in Seq(MessageRecord) /\ Sorted(p.seen \o got)
           /\ \A m : Has(p.seen \o got, m) <=> Has(p.seen, m) \/ Has(got, m)
<1> DEFINE seen == p.seen
<1>1. seen \in Seq(MessageRecord) BY DEF PageRecord
<1>2. \A j \in DOMAIN got : got[j] \in found BY LenProperties, ElementOfSeq
<1>3. got \in Seq(MessageRecord) BY SeqMonotonic
<1>4. AllNewer(seen, got) BY <1>2 DEF AllNewer
<1>5. Sorted(seen) OBVIOUS
<1> HIDE DEF seen
<1>6. /\ seen \o got \in Seq(MessageRecord) /\ Sorted(seen \o got)
      /\ \A m : Has(seen \o got, m) <=> Has(seen, m) \/ Has(got, m)
  BY <1>1, <1>3, <1>4, <1>5, PagesJoin
<1> QED BY <1>6 DEF seen

\* There is more: the last message got is the next cursor.
LEMMA MoreFits ==
    ASSUME NEW p, p \in PageRecord, Sorted(p.seen),
           NEW found, found \subseteq MessageRecord,
           \A m \in found : m \in messages /\ m.room = p.room,
           \A i \in DOMAIN p.seen : \A m \in found : Newer(p.seen[i], m),
           NEW got, got \in Seq(found), Sorted(got),
           NEW c \in found,
           \A i \in DOMAIN got : got[i] = c \/ Newer(got[i], c),
           \A m \in found : Has(got, m) \/ Behind(m, c),
           NEW start, start \subseteq MessageRecord,
           \A m \in start : Has(p.seen, m) \/ m \in found
    PROVE  PageInv(Pages(p.room, "more", c, p.seen \o got, start))
<1> DEFINE all == p.seen \o got
           new == Pages(p.room, "more", c, all, start)
<1>1. /\ all \in Seq(MessageRecord) /\ Sorted(all)
      /\ \A m : Has(all, m) <=> Has(p.seen, m) \/ Has(got, m)
  BY PageAdded
<1> HIDE DEF all
<1>2. ASSUME NEW i \in DOMAIN all PROVE all[i] = c \/ Newer(all[i], c)
  <2>1. Has(p.seen, all[i]) \/ Has(got, all[i]) BY <1>1 DEF Has
  <2> QED BY <2>1 DEF Has
<1>3. ASSUME NEW m \in start
      PROVE  Has(all, m) \/ (m \in messages /\ m.room = p.room /\ Behind(m, c))
  BY <1>1
<1>4. c \in MessageRecord /\ c # Absent BY ChatAssumption
<1>5. /\ new.room = p.room /\ new.todo = "more" /\ new.cursor = c
      /\ new.seen = all /\ new.start = start
  BY DEF Pages
<1>6. new \in PageRecord BY <1>1, <1>4 DEF PageRecord, Pages
<1> HIDE DEF new
<1>7. PageInv(new) BY <1>1, <1>2, <1>3, <1>4, <1>5, <1>6 DEF PageInv
<1> USE DEF new, all
<1> QED BY <1>7

\* There is nothing more.
LEMMA LastFits ==
    ASSUME NEW p, p \in PageRecord, Sorted(p.seen),
           NEW found, found \subseteq MessageRecord,
           \A i \in DOMAIN p.seen : \A m \in found : Newer(p.seen[i], m),
           NEW got, got \in Seq(found), Sorted(got), \A m \in found : Has(got, m),
           NEW start, start \subseteq MessageRecord,
           \A m \in start : Has(p.seen, m) \/ m \in found
    PROVE  PageInv(Pages(p.room, "done", Absent, p.seen \o got, start))
<1> DEFINE all == p.seen \o got
           new == Pages(p.room, "done", Absent, all, start)
<1>1. /\ all \in Seq(MessageRecord) /\ Sorted(all)
      /\ \A m : Has(all, m) <=> Has(p.seen, m) \/ Has(got, m)
  BY PageAdded
<1> HIDE DEF all
<1>2. \A m \in start : Has(all, m) BY <1>1
<1>3. new.todo = "done" /\ new.seen = all /\ new.start = start BY DEF Pages
<1>4. new \in PageRecord BY <1>1 DEF PageRecord, Pages
<1> HIDE DEF new
<1>5. PageInv(new) BY <1>1, <1>2, <1>3, <1>4 DEF PageInv
<1> USE DEF new, all
<1> QED BY <1>5

\* The query of a page, whichever it is: its messages are behind those the client
\* has seen, and with what it leaves out they are all there is to see yet.
LEMMA PageIsRead ==
    ASSUME messages \subseteq MessageRecord, IsFiniteSet(messages), Distinct(messages),
           NEW p, PageInv(p), p.todo \in {"first", "more"},
           NEW inRoom, inRoom = {m \in messages : m.room = p.room},
           NEW found, found = {m \in inRoom : p.cursor = Absent \/ Behind(m, p.cursor)},
           NEW hasMore \in BOOLEAN, hasMore <=> Cardinality(found) > Limit,
           NEW got, got = IF hasMore THEN SubSeq(NewestFirst(found), 1, Limit)
                          ELSE NewestFirst(found),
           NEW start, start = IF p.todo = "first" THEN inRoom ELSE p.start
    PROVE  PageInv(Pages(p.room, IF hasMore THEN "more" ELSE "done",
                         IF hasMore THEN got[Limit] ELSE Absent, p.seen \o got, start))
<1>1. /\ found \subseteq messages /\ found \subseteq MessageRecord
      /\ IsFiniteSet(found) /\ Distinct(found)
  <2>1. found \subseteq messages OBVIOUS
  <2>2. IsFiniteSet(found) BY <2>1, FS_Subset
  <2> QED BY <2>1, <2>2 DEF Distinct
<1>2. p.seen \in Seq(MessageRecord) /\ Sorted(p.seen) /\ p.start \subseteq MessageRecord
      /\ p.room \in Room \cup {Absent} /\ p.cursor \in MessageRecord \cup {Absent}
  BY DEF PageInv, PageRecord
<1>3. ASSUME NEW i \in DOMAIN p.seen, NEW m \in found PROVE Newer(p.seen[i], m)
  <2>1. CASE p.todo = "first"
    <3>1. p.seen = <<>> BY <2>1 DEF PageInv
    <3> QED BY <3>1
  <2>2. CASE p.todo = "more"
    <3>1. p.cursor \in MessageRecord /\ Behind(m, p.cursor) BY <1>2, <2>2 DEF PageInv
    <3>2. p.seen[i] \in MessageRecord BY <1>2, LenProperties, ElementOfSeq
    <3>3. p.seen[i] = p.cursor \/ Newer(p.seen[i], p.cursor) BY <2>2 DEF PageInv
    <3>4. m \in MessageRecord BY <1>1
    <3>5. Newer(p.cursor, m) BY <3>1, <3>4, NewerOrders
    <3> QED BY <3>1, <3>2, <3>3, <3>4, <3>5, NewerOrders
  <2> QED BY <2>1, <2>2
<1>4. ASSUME NEW m \in start PROVE Has(p.seen, m) \/ m \in found
  <2>1. CASE p.todo = "first" BY <2>1 DEF PageInv
  <2>2. CASE p.todo = "more" BY <2>2 DEF PageInv
  <2> QED BY <2>1, <2>2
<1>5. start \subseteq MessageRecord BY <1>2
<1>6. p \in PageRecord BY DEF PageInv
<1>7. CASE hasMore
  <2>1. Limit \in Nat \ {0} /\ Limit < Cardinality(found)
    <3>1. Limit \in Nat \ {0} BY ChatAssumption
    <3>2. Cardinality(found) \in Nat BY <1>1, FS_CardinalityType
    <3>3. Cardinality(found) > Limit BY <1>7
    <3> QED BY <3>1, <3>2, <3>3
  <2>2. got = SubSeq(NewestFirst(found), 1, Limit) BY <1>7
  <2>3. /\ got \in Seq(found) /\ Sorted(got) /\ got[Limit] \in found
        /\ \A i \in DOMAIN got : got[i] = got[Limit] \/ Newer(got[i], got[Limit])
        /\ \A m \in found : Has(got, m) \/ Behind(m, got[Limit])
    BY <1>1, <2>1, <2>2, PageTaken
  <2>4. \A m \in found : m \in messages /\ m.room = p.room OBVIOUS
  <2>5. PageInv(Pages(p.room, "more", got[Limit], p.seen \o got, start))
    BY <1>1, <1>2, <1>3, <1>4, <1>5, <1>6, <2>3, <2>4, MoreFits
  <2> QED BY <1>7, <2>5
<1>8. CASE ~hasMore
  <2>1. got = NewestFirst(found) BY <1>8
  <2>2. got \in Seq(found) /\ Sorted(got) /\ \A m \in found : Has(got, m)
    BY <1>1, <2>1, LastPage
  <2>3. PageInv(Pages(p.room, "done", Absent, p.seen \o got, start))
    BY <1>1, <1>2, <1>3, <1>4, <1>5, <1>6, <2>2, LastFits
  <2> QED BY <1>8, <2>3
<1> QED BY <1>7, <1>8

-----------------------------------------------------------------------------
(* Messages, pages and the rest of the state *)

\* The shape of what no other invariant is about.
ReqRecord == [pc : Handler, room : Room \cup {Absent}, msg : MessageRecord \cup {Absent}]

RestTyped ==
    /\ now \in Nat /\ begun \in Nat
    /\ last \in [Room -> Int \cup {Absent}]
    /\ req \in [Socket -> ReqRecord]
    /\ job \in [Creator -> [st : {"none", "queued", "failed"}, tries : 0..3]]
    /\ \A u \in Creator : job[u].st = "queued" => job[u].tries <= 2

\* No two messages have the same id, those included that are about to be committed.
Writing(s) == req[s].pc = "commit"

MessagesInv ==
    /\ messages \subseteq MessageRecord /\ IsFiniteSet(messages) /\ Distinct(messages)
    /\ \A s \in Socket : Writing(s) =>
          req[s].msg \in MessageRecord /\ \A m \in messages : m.id # req[s].msg.id
    /\ \A s, t \in Socket : s # t /\ Writing(s) /\ Writing(t) => req[s].msg.id # req[t].msg.id

Reading(s) == req[s].pc \in {"query", "read"}

PagesInv ==
    /\ page \in [Socket -> PageRecord]
    /\ \A s \in Socket : PageInv(page[s])
    /\ \A s \in Socket : Reading(s) => page[s].todo \in {"first", "more"}

RestInv == RestTyped /\ MessagesInv /\ PagesInv

LEMMA RestInit == Init => RestInv
<1> SUFFICES ASSUME Init PROVE RestInv OBVIOUS
<1>1. PICK st \in Start : last = st.last /\ messages = st.messages BY DEF Init
<1>2. /\ last \in [Room -> Int \cup {Absent}] /\ messages \subseteq MessageRecord
      /\ IsFiniteSet(messages) /\ Distinct(messages)
  BY <1>1, ChatAssumption DEF Distinct
<1>3. \A s \in Socket : req[s] = [pc |-> "idle", room |-> Absent, msg |-> Absent]
  BY DEF Init, NoRequest, Request
<1>4. req \in [Socket -> ReqRecord] BY <1>3 DEF Init, ReqRecord, Handler
<1>5. /\ job \in [Creator -> [st : {"none", "queued", "failed"}, tries : 0..3]]
      /\ \A u \in Creator : job[u].tries = 0
  BY DEF Init, Job
<1>6. RestTyped BY <1>2, <1>4, <1>5 DEF RestTyped, Init
<1>7. MessagesInv BY <1>2, <1>3 DEF MessagesInv, Writing
<1>8. PageInv(NoPages) /\ NoPages \in PageRecord
  <2>1. <<>> \in Seq(MessageRecord) /\ DOMAIN <<>> = {} BY EmptySeq
  <2>2. NoPages \in PageRecord BY <2>1 DEF NoPages, Pages, PageRecord
  <2>3. /\ NoPages.todo = "none" /\ NoPages.seen = <<>> /\ NoPages.start = {}
        /\ NoPages.cursor = Absent
    BY DEF NoPages, Pages
  <2>4. Sorted(NoPages.seen) BY <2>1, <2>3 DEF Sorted
  <2> QED BY <2>2, <2>3, <2>4 DEF PageInv
<1>9. PagesInv
  <2>1. page = [s \in Socket |-> NoPages] BY DEF Init
  <2>2. \A s \in Socket : ~Reading(s) BY <1>3 DEF Reading
  <2> QED BY <1>8, <2>1, <2>2 DEF PagesInv
<1> QED BY <1>6, <1>7, <1>9 DEF RestInv

\* Handlers begin, go on and end; no message is written.
LEMMA ReqMoves ==
    ASSUME RestTyped, MessagesInv, NEW s \in Socket, UNCHANGED messages,
           \/ Ends(s)
           \/ \E pc \in Handler \ {"commit"} : \E room \in Room \cup {Absent} : To(s, pc, room, Absent)
    PROVE  /\ req' \in [Socket -> ReqRecord] /\ MessagesInv'
           /\ \A t \in Socket : t # s => req'[t] = req[t]
<1>1. PICK new \in ReqRecord : req' = [req EXCEPT ![s] = new] /\ new.pc # "commit"
  <2>1. CASE Ends(s)
    <3>1. NoRequest \in ReqRecord BY DEF NoRequest, Request, ReqRecord, Handler
    <3>2. NoRequest.pc # "commit" BY DEF NoRequest, Request
    <3> QED BY <2>1, <3>1, <3>2 DEF Ends
  <2>2. CASE ~Ends(s)
    <3>1. PICK pc \in Handler \ {"commit"}, room \in Room \cup {Absent} : To(s, pc, room, Absent)
      BY <2>2
    <3>2. Request(pc, room, Absent) \in ReqRecord BY DEF Request, ReqRecord
    <3>3. Request(pc, room, Absent).pc = pc BY DEF Request
    <3> QED BY <3>1, <3>2, <3>3 DEF To
  <2> QED BY <2>1, <2>2
<1>2. req' \in [Socket -> ReqRecord] /\ req'[s] = new /\ \A t \in Socket : t # s => req'[t] = req[t]
  BY <1>1 DEF RestTyped
<1>3. \A t \in Socket : Writing(t)' => Writing(t) /\ req'[t] = req[t]
  BY <1>1, <1>2 DEF Writing
<1>4. MessagesInv' BY <1>3 DEF MessagesInv
<1> QED BY <1>2, <1>4

\* The pages are those of before; messages may have come.
LEMMA PagesStay ==
    ASSUME PagesInv, UNCHANGED page, messages \subseteq messages',
           \A t \in Socket : Reading(t)' => Reading(t) \/ page[t].todo \in {"first", "more"}
    PROVE  PagesInv'
<1>1. ASSUME NEW t \in Socket PROVE PageInv(page[t])'
  <2>1. PageInv(page[t]) BY DEF PagesInv
  <2> QED BY <2>1 DEF PageInv
<1> QED BY <1>1 DEF PagesInv

\* The steps of a handler that move it and nothing else these invariants are about.
LEMMA RestMoves ==
    ASSUME RestInv, NEW s \in Socket, UNCHANGED <<now, last, messages, page, job>>, begun' \in Nat,
           \/ Ends(s)
           \/ \E pc \in Handler \ {"commit"} : \E room \in Room \cup {Absent} :
                 /\ To(s, pc, room, Absent)
                 /\ pc \in {"query", "read"} => page[s].todo \in {"first", "more"}
    PROVE  RestInv'
<1> USE DEF RestInv
<1>1. /\ req' \in [Socket -> ReqRecord] /\ MessagesInv'
      /\ \A t \in Socket : t # s => req'[t] = req[t]
  BY ReqMoves
<1>2. RestTyped' BY <1>1 DEF RestTyped
<1>3. Reading(s)' => page[s].todo \in {"first", "more"}
  <2>1. CASE Ends(s)
    <3>1. req'[s] = NoRequest BY <2>1 DEF Ends, RestTyped
    <3>2. NoRequest.pc = "idle" BY DEF NoRequest, Request
    <3> QED BY <3>1, <3>2 DEF Reading
  <2>2. CASE ~Ends(s)
    <3>1. PICK pc \in Handler \ {"commit"}, room \in Room \cup {Absent} :
             /\ To(s, pc, room, Absent)
             /\ pc \in {"query", "read"} => page[s].todo \in {"first", "more"}
      BY <2>2
    <3>2. req'[s] = Request(pc, room, Absent) BY <3>1 DEF To, RestTyped
    <3>3. Request(pc, room, Absent).pc = pc BY DEF Request
    <3> QED BY <3>1, <3>2, <3>3 DEF Reading
  <2> QED BY <2>1, <2>2
<1>4. \A t \in Socket : Reading(t)' => Reading(t) \/ page[t].todo \in {"first", "more"}
  BY <1>1, <1>3 DEF Reading
<1>5. PagesInv' BY <1>4, PagesStay
<1> QED BY <1>1, <1>2, <1>5

\* Steps that leave handlers, messages and pages alone.
LEMMA RestStays ==
    ASSUME RestInv, UNCHANGED <<last, messages, req, page>>, now' \in Nat, begun' \in Nat,
           job' \in [Creator -> [st : {"none", "queued", "failed"}, tries : 0..3]],
           \A u \in Creator : job'[u].st = "queued" => job'[u].tries <= 2
    PROVE  RestInv'
<1> USE DEF RestInv
<1>1. RestTyped' BY DEF RestTyped
<1>2. MessagesInv' BY DEF MessagesInv, Writing
<1>3. PagesInv'
  <2>1. \A t \in Socket : Reading(t)' => Reading(t) BY DEF Reading
  <2> QED BY <2>1, PagesStay
<1> QED BY <1>1, <1>2, <1>3

\* The client starts over; the page it asks for is the newest.
LEMMA AskQueryKeepsRest ==
    ASSUME RestInv, NEW s \in Socket, NEW r \in Room, AskQueryMessages(s, r)
    PROVE  RestInv'
<1> USE DEF RestInv
<1> DEFINE new == Pages(r, "first", Absent, <<>>, {})
<1>0. /\ UNCHANGED <<now, last, messages, job>> /\ begun' = begun + 1
      /\ To(s, "query", r, Absent) /\ page' = [page EXCEPT ![s] = new]
  BY DEF AskQueryMessages, Begins
<1>1. /\ req' \in [Socket -> ReqRecord] /\ MessagesInv'
      /\ \A t \in Socket : t # s => req'[t] = req[t]
  <2>1. "query" \in Handler \ {"commit"} BY DEF Handler
  <2> QED BY <1>0, <2>1, ReqMoves
<1>2. begun' \in Nat BY <1>0 DEF RestTyped
<1>3. RestTyped' BY <1>0, <1>1, <1>2 DEF RestTyped
<1>4. new \in PageRecord /\ PageInv(new) /\ new.todo = "first"
  <2>1. <<>> \in Seq(MessageRecord) /\ DOMAIN <<>> = {} BY EmptySeq
  <2>2. new \in PageRecord BY <2>1 DEF Pages, PageRecord
  <2>3. /\ new.todo = "first" /\ new.seen = <<>> /\ new.start = {} /\ new.cursor = Absent
    BY DEF Pages
  <2>4. Sorted(new.seen) BY <2>1, <2>3 DEF Sorted
  <2> HIDE DEF new
  <2> QED BY <2>2, <2>3, <2>4 DEF PageInv
<1> HIDE DEF new
<1>5. /\ page' \in [Socket -> PageRecord] /\ page'[s] = new
      /\ \A t \in Socket : t # s => page'[t] = page[t]
  BY <1>0, <1>4 DEF PagesInv
<1>6. ASSUME NEW t \in Socket PROVE PageInv(page[t])'
  <2>1. PageInv(page'[t]) BY <1>4, <1>5 DEF PagesInv
  <2>2. UNCHANGED messages BY <1>0
  <2> QED BY <2>1, <2>2 DEF PageInv
<1>7. \A t \in Socket : Reading(t)' => page'[t].todo \in {"first", "more"}
  BY <1>1, <1>4, <1>5 DEF PagesInv, Reading
<1>8. PagesInv' BY <1>5, <1>6, <1>7 DEF PagesInv
<1> QED BY <1>1, <1>3, <1>8

LEMMA GetRoomMessagesKeepsRest ==
    ASSUME RestInv, NEW s \in Socket, GetRoomMessages(s)
    PROVE  RestInv'
<1> USE DEF RestInv
<1> DEFINE p == page[s]
           inRoom == {m \in messages : m.room = p.room}
           found == {m \in inRoom : p.cursor = Absent \/ Behind(m, p.cursor)}
           hasMore == Cardinality(found) > Limit
           got == IF hasMore THEN SubSeq(NewestFirst(found), 1, Limit) ELSE NewestFirst(found)
           start == IF p.todo = "first" THEN inRoom ELSE p.start
           new == Pages(p.room, IF hasMore THEN "more" ELSE "done",
                        IF hasMore THEN got[Limit] ELSE Absent, p.seen \o got, start)
<1>0. /\ UNCHANGED <<now, last, messages, job, begun>> /\ Ends(s)
      /\ page' = [page EXCEPT ![s] = new] /\ Reading(s)
  BY DEF GetRoomMessages, Reading
<1>1. /\ req' \in [Socket -> ReqRecord] /\ MessagesInv'
      /\ \A t \in Socket : t # s => req'[t] = req[t]
  BY <1>0, ReqMoves
<1>2. RestTyped' BY <1>0, <1>1 DEF RestTyped
<1>3. PageInv(new)
  <2>1. PageInv(p) /\ p.todo \in {"first", "more"} BY <1>0 DEF PagesInv
  <2>2. messages \subseteq MessageRecord /\ IsFiniteSet(messages) /\ Distinct(messages)
    BY DEF MessagesInv
  <2> HIDE DEF p
  <2>3. hasMore \in BOOLEAN OBVIOUS
  <2> QED BY <2>1, <2>2, <2>3, PageIsRead
<1> HIDE DEF new
<1>4. new \in PageRecord BY <1>3 DEF PageInv
<1>5. /\ page' \in [Socket -> PageRecord] /\ page'[s] = new
      /\ \A t \in Socket : t # s => page'[t] = page[t]
  BY <1>0, <1>4 DEF PagesInv
<1>6. ASSUME NEW t \in Socket PROVE PageInv(page[t])'
  <2>1. PageInv(page'[t]) BY <1>3, <1>5 DEF PagesInv
  <2>2. UNCHANGED messages BY <1>0
  <2> QED BY <2>1, <2>2 DEF PageInv
<1>7. ~Reading(s)'
  <2>1. req'[s] = NoRequest BY <1>0 DEF Ends, RestTyped
  <2>2. NoRequest.pc = "idle" BY DEF NoRequest, Request
  <2> QED BY <2>1, <2>2 DEF Reading
<1>8. \A t \in Socket : Reading(t)' => page'[t].todo \in {"first", "more"}
  BY <1>1, <1>5, <1>7 DEF PagesInv, Reading
<1>9. PagesInv' BY <1>5, <1>6, <1>8 DEF PagesInv
<1> QED BY <1>1, <1>2, <1>9

\* A message gets an id no other has.
LEMMA CreateMessageKeepsRest ==
    ASSUME ChatInv, RestInv, NEW s \in Socket, CreateMessage(s)
    PROVE  RestInv'
<1> USE DEF RestInv
<1> DEFINE r == req[s].room
<1>0. UNCHANGED <<now, last, messages, page, job, begun>> BY DEF CreateMessage
<1>b. begun' \in Nat BY <1>0 DEF RestTyped
<1>r. r \in Room BY DEF CreateMessage, ChatInv, RoomInv, Roomless
<1>1. CASE Ends(s) BY <1>0, <1>1, <1>b, RestMoves
<1>2. CASE ~Ends(s)
  <2>1. PICK i \in Id : /\ \A m \in messages : m.id # i
                        /\ \A t \in Socket : Writing(t) => req[t].msg.id # i
                        /\ To(s, "commit", r, Message(r, i, now, Owner[s]))
    BY <1>2 DEF CreateMessage, Writing
  <2> DEFINE msg == Message(r, i, now, Owner[s])
  <2>2. msg \in MessageRecord /\ msg.id = i
    <3>1. i \in Int BY ChatAssumption
    <3>2. now \in Int BY DEF RestTyped
    <3> QED BY <3>1, <3>2, <1>r, OwnerType DEF Message, MessageRecord
  <2> HIDE DEF msg
  <2>3. Request("commit", r, msg) \in ReqRecord
    BY <1>r, <2>2 DEF Request, ReqRecord, Handler
  <2>4. req' = [req EXCEPT ![s] = Request("commit", r, msg)] BY <2>1 DEF To, msg
  <2>5. /\ req' \in [Socket -> ReqRecord] /\ req'[s] = Request("commit", r, msg)
        /\ \A t \in Socket : t # s => req'[t] = req[t]
    BY <2>3, <2>4 DEF RestTyped
  <2>6. req'[s].pc = "commit" /\ req'[s].msg = msg BY <2>5 DEF Request
  <2>7. RestTyped' BY <1>0, <2>5 DEF RestTyped
  <2>8. \A t \in Socket : t # s => (Writing(t)' <=> Writing(t)) BY <2>5 DEF Writing
  <2>9. MessagesInv'
    <3>1. ASSUME NEW t \in Socket, Writing(t)'
          PROVE  req'[t].msg \in MessageRecord /\ \A m \in messages : m.id # req'[t].msg.id
      BY <2>1, <2>2, <2>5, <2>6, <2>8, <3>1 DEF MessagesInv
    <3>2. ASSUME NEW t \in Socket, NEW u \in Socket, t # u, Writing(t)', Writing(u)'
          PROVE  req'[t].msg.id # req'[u].msg.id
      BY <2>1, <2>2, <2>5, <2>6, <2>8, <3>2 DEF MessagesInv
    <3>3. UNCHANGED messages BY <1>0
    <3> QED BY <3>1, <3>2, <3>3 DEF MessagesInv
  <2>10. \A t \in Socket : Reading(t)' => Reading(t) BY <2>5, <2>6 DEF Reading
  <2>11. PagesInv' BY <1>0, <2>10, PagesStay
  <2> QED BY <2>7, <2>9, <2>11
<1> QED BY <1>1, <1>2

LEMMA CommitMessageKeepsRest ==
    ASSUME ChatInv, RestInv, NEW s \in Socket, CommitMessage(s)
    PROVE  RestInv'
<1> USE DEF RestInv
<1> DEFINE msg == req[s].msg
<1>0. /\ UNCHANGED <<now, page, job, begun>> /\ Writing(s) /\ Ends(s)
      /\ messages' = messages \cup {msg}
      /\ last' = [last EXCEPT ![req[s].room] = msg.at]
  BY DEF CommitMessage, Writing
<1>1. msg \in MessageRecord /\ \A m \in messages : m.id # msg.id
  BY <1>0 DEF MessagesInv
<1>2. NoRequest \in ReqRecord /\ NoRequest.pc = "idle"
  BY DEF NoRequest, Request, ReqRecord, Handler
<1>3. /\ req' \in [Socket -> ReqRecord] /\ req'[s] = NoRequest
      /\ \A t \in Socket : t # s => req'[t] = req[t]
  BY <1>0, <1>2 DEF Ends, RestTyped
<1>4. last' \in [Room -> Int \cup {Absent}]
  <2>1. msg.at \in Int BY <1>1 DEF MessageRecord
  <2> QED BY <1>0, <2>1 DEF RestTyped
<1>5. RestTyped' BY <1>0, <1>3, <1>4 DEF RestTyped
<1>6. /\ messages' \subseteq MessageRecord /\ IsFiniteSet(messages') /\ Distinct(messages')
  <2>1. IsFiniteSet(messages') BY <1>0, FS_AddElement DEF MessagesInv
  <2>2. messages' \subseteq MessageRecord BY <1>0, <1>1 DEF MessagesInv
  <2>3. Distinct(messages') BY <1>0, <1>1 DEF MessagesInv, Distinct
  <2> QED BY <2>1, <2>2, <2>3
<1>7. ~Writing(s)' /\ ~Reading(s)' BY <1>2, <1>3 DEF Writing, Reading
<1>8. MessagesInv'
  <2>1. ASSUME NEW t \in Socket, Writing(t)'
        PROVE  t # s /\ Writing(t) /\ req'[t] = req[t]
    BY <1>3, <1>7, <2>1 DEF Writing
  <2>2. ASSUME NEW t \in Socket, Writing(t)'
        PROVE  req'[t].msg \in MessageRecord /\ \A m \in messages' : m.id # req'[t].msg.id
    <3>1. t # s /\ Writing(t) /\ req'[t] = req[t] BY <2>1, <2>2
    <3>2. msg.id # req[t].msg.id BY <1>0, <3>1 DEF MessagesInv
    <3>3. req[t].msg \in MessageRecord /\ \A m \in messages : m.id # req[t].msg.id
      BY <3>1 DEF MessagesInv
    <3> QED BY <1>0, <3>1, <3>2, <3>3
  <2>3. ASSUME NEW t \in Socket, NEW u \in Socket, t # u, Writing(t)', Writing(u)'
        PROVE  req'[t].msg.id # req'[u].msg.id
    BY <2>1, <2>3 DEF MessagesInv
  <2> QED BY <1>6, <2>2, <2>3 DEF MessagesInv
<1>9. PagesInv'
  <2>1. \A t \in Socket : Reading(t)' => Reading(t) BY <1>3, <1>7 DEF Reading
  <2>2. messages \subseteq messages' BY <1>0
  <2> QED BY <1>0, <2>1, <2>2, PagesStay
<1> QED BY <1>5, <1>8, <1>9

LEMMA AsksKeepRest ==
    ASSUME RestInv, NEW s \in Socket, Asks(s)
    PROVE  RestInv'
<1>1. begun \in Nat BY DEF RestInv, RestTyped
<1>2. CASE AskCreateRoom(s)
  <2>1. "create" \in Handler \ {"commit"} BY DEF Handler
  <2>2. UNCHANGED <<now, last, messages, page, job>> /\ begun' \in Nat /\ To(s, "create", Absent, Absent)
    BY <1>1, <1>2 DEF AskCreateRoom, Begins
  <2> QED BY <2>1, <2>2, RestMoves
<1>3. CASE AskNextPage(s)
  <2>1. "query" \in Handler \ {"commit"} BY DEF Handler
  <2>2. page[s].room \in Room \cup {Absent} BY DEF RestInv, PagesInv, PageRecord
  <2>3. /\ UNCHANGED <<now, last, messages, page, job>> /\ begun' \in Nat
        /\ To(s, "query", page[s].room, Absent) /\ page[s].todo = "more"
    BY <1>1, <1>3 DEF AskNextPage
  <2> QED BY <2>1, <2>2, <2>3, RestMoves
<1>4. ASSUME NEW r \in Room, AskJoinRoom(s, r) \/ AskSendMessage(s, r) \/ AskQueryMessages(s, r)
      PROVE  RestInv'
  <2>1. {"look", "send"} \subseteq Handler \ {"commit"} BY DEF Handler
  <2>2. CASE AskJoinRoom(s, r)
    <3>1. UNCHANGED <<now, last, messages, page, job>> /\ begun' \in Nat /\ To(s, "look", r, Absent)
      BY <1>1, <2>2 DEF AskJoinRoom, Begins
    <3> QED BY <2>1, <3>1, RestMoves
  <2>3. CASE AskSendMessage(s, r)
    <3>1. UNCHANGED <<now, last, messages, page, job>> /\ begun' \in Nat /\ To(s, "send", r, Absent)
      BY <1>1, <2>3 DEF AskSendMessage, Begins
    <3> QED BY <2>1, <3>1, RestMoves
  <2>4. CASE AskQueryMessages(s, r) BY <2>4, AskQueryKeepsRest
  <2> QED BY <1>4, <2>2, <2>3, <2>4
<1> QED BY <1>2, <1>3, <1>4 DEF Asks

LEMMA HandlesKeepRest ==
    ASSUME ChatInv, RestInv, NEW s \in Socket, Handles(s)
    PROVE  RestInv'
<1> DEFINE r == req[s].room
           Quiet == UNCHANGED <<now, last, messages, page, job>> /\ begun' \in Nat
<1>0. begun \in Nat BY DEF RestInv, RestTyped
<1>r. r \in Room \cup {Absent} BY DEF RestInv, RestTyped, ReqRecord
<1>h. {"again", "seat", "enter", "write", "read"} \subseteq Handler \ {"commit"} BY DEF Handler
<1>1. CASE Fails(s)
  <2>1. Quiet /\ Ends(s) BY <1>0, <1>1 DEF Fails
  <2> QED BY <2>1, RestMoves
<1>2. CASE CreateRoom(s)
  <2>1. PICK n \in Unused : Quiet /\ To(s, "enter", n, Absent) BY <1>0, <1>2 DEF CreateRoom
  <2>2. n \in Room BY DEF Unused
  <2> QED BY <1>h, <2>1, <2>2, RestMoves
<1>3. CASE JoinRead(s)
  <2>1. Quiet /\ \/ Ends(s)
                 \/ \E pc \in {"again", "seat", "enter"} : To(s, pc, r, Absent)
    BY <1>0, <1>3 DEF JoinRead
  <2> QED BY <1>h, <1>r, <2>1, RestMoves
<1>4. CASE JoinSeat(s)
  <2>1. Quiet /\ (Ends(s) \/ To(s, "enter", r, Absent)) BY <1>0, <1>4 DEF JoinSeat
  <2> QED BY <1>h, <1>r, <2>1, RestMoves
<1>5. CASE EnterRoom(s)
  <2>1. Quiet /\ Ends(s) BY <1>0, <1>5 DEF EnterRoom
  <2> QED BY <2>1, RestMoves
<1>6. CASE SendCheck(s)
  <2>1. Quiet /\ (Ends(s) \/ To(s, "write", r, Absent)) BY <1>0, <1>6 DEF SendCheck
  <2> QED BY <1>h, <1>r, <2>1, RestMoves
<1>7. CASE QueryCheck(s)
  <2>1. Quiet /\ (Ends(s) \/ To(s, "read", r, Absent)) BY <1>0, <1>7 DEF QueryCheck
  <2>2. page[s].todo \in {"first", "more"}
    BY <1>7 DEF QueryCheck, Reading, RestInv, PagesInv
  <2> QED BY <1>h, <1>r, <2>1, <2>2, RestMoves
<1>8. CASE CreateMessage(s) BY <1>8, CreateMessageKeepsRest
<1>9. CASE CommitMessage(s) BY <1>9, CommitMessageKeepsRest
<1>10. CASE GetRoomMessages(s) BY <1>10, GetRoomMessagesKeepsRest
<1> QED BY <1>1, <1>2, <1>3, <1>4, <1>5, <1>6, <1>7, <1>8, <1>9, <1>10 DEF Handles

LEMMA JobKeepsRest ==
    ASSUME RestInv, NEW u \in Creator, EnqueueRooms(u) \/ JobCreatesRooms(u) \/ JobFails(u)
    PROVE  RestInv'
<1> DEFINE JobRecord == [st : {"none", "queued", "failed"}, tries : 0..3]
<1>0. /\ begun \in Nat /\ now \in Nat /\ job \in [Creator -> JobRecord]
      /\ \A v \in Creator : job[v].st = "queued" => job[v].tries <= 2
  BY DEF RestInv, RestTyped
<1>1. UNCHANGED <<now, last, messages, req, page>> /\ begun' \in Nat
  BY <1>0 DEF EnqueueRooms, JobCreatesRooms, JobFails
<1>2. \/ job' = job
      \/ \E st \in {"none", "queued", "failed"}, n \in 0..3 :
            (st = "queued" => n <= 2) /\ job' = [job EXCEPT ![u] = Job(st, n)]
  <2>1. CASE EnqueueRooms(u) BY <2>1 DEF EnqueueRooms
  <2>2. CASE JobCreatesRooms(u) BY <2>2 DEF JobCreatesRooms
  <2>3. CASE JobFails(u)
    <3>1. job[u].st = "queued" /\ job[u].tries \in 0..2 BY <1>0, <2>3 DEF JobFails
    <3>2. job' = [job EXCEPT ![u] = Job(IF job[u].tries < 2 THEN "queued" ELSE "failed",
                                        job[u].tries + 1)]
      BY <2>3 DEF JobFails
    <3>3. CASE job[u].tries < 2
      <4>1. job' = [job EXCEPT ![u] = Job("queued", job[u].tries + 1)] BY <3>2, <3>3
      <4>2. job[u].tries + 1 \in 0..3 /\ job[u].tries + 1 <= 2 BY <3>1, <3>3
      <4> QED BY <4>1, <4>2
    <3>4. CASE ~(job[u].tries < 2)
      <4>1. job' = [job EXCEPT ![u] = Job("failed", job[u].tries + 1)] BY <3>2, <3>4
      <4>2. job[u].tries + 1 \in 0..3 BY <3>1
      <4> QED BY <4>1, <4>2
    <3> QED BY <3>3, <3>4
  <2> QED BY <2>1, <2>2, <2>3
<1>3. /\ job' \in [Creator -> JobRecord]
      /\ \A v \in Creator : job'[v].st = "queued" => job'[v].tries <= 2
  <2>1. CASE job' = job BY <1>0, <2>1
  <2>2. ASSUME NEW st \in {"none", "queued", "failed"}, NEW n \in 0..3,
               st = "queued" => n <= 2, job' = [job EXCEPT ![u] = Job(st, n)]
        PROVE  /\ job' \in [Creator -> JobRecord]
               /\ \A v \in Creator : job'[v].st = "queued" => job'[v].tries <= 2
    BY <1>0, <2>2 DEF Job
  <2> QED BY <1>2, <2>1, <2>2
<1> QED BY <1>0, <1>1, <1>3, RestStays

LEMMA RestStep ==
    ASSUME ChatInv, RestInv, [Next]_vars
    PROVE  RestInv'
<1>0. /\ begun \in Nat /\ now \in Nat
      /\ job \in [Creator -> [st : {"none", "queued", "failed"}, tries : 0..3]]
      /\ \A u \in Creator : job[u].st = "queued" => job[u].tries <= 2
  BY DEF RestInv, RestTyped
<1>1. ASSUME NEW s \in Socket, Connection(s) PROVE RestInv'
  <2>1. UNCHANGED <<now, last, messages, req, page, job, begun>>
    BY <1>1 DEF Connection, HandleConnection, Authenticated, Unauthorized, HandleDisconnect
  <2> QED BY <1>0, <2>1, RestStays
<1>2. ASSUME NEW s \in Socket, Asks(s) PROVE RestInv' BY <1>2, AsksKeepRest
<1>3. ASSUME NEW s \in Socket, Handles(s) PROVE RestInv' BY <1>3, HandlesKeepRest
<1>4. ASSUME NEW u \in Creator, EnqueueRooms(u) \/ JobCreatesRooms(u) \/ JobFails(u)
      PROVE  RestInv'
  BY <1>4, JobKeepsRest
<1>5. CASE Tick \/ UNCHANGED vars
  <2>1. UNCHANGED <<last, messages, req, page, job, begun>> /\ now' \in Nat
    BY <1>0, <1>5 DEF Tick, vars
  <2> QED BY <1>0, <2>1, RestStays
<1> QED BY <1>1, <1>2, <1>3, <1>4, <1>5 DEF Next

-----------------------------------------------------------------------------
(* Theorems *)

THEOREM ChatCorrect == Spec => []ChatInv
<1>1. Init => ChatInv BY InvInit
<1>2. ChatInv /\ [Next]_vars => ChatInv' BY InvStep
<1> QED BY <1>1, <1>2, PTL DEF Spec

\* The clients are shown exactly the users who have an authenticated socket.
THEOREM PresenceTrueHolds == Spec => []PresenceTrue
<1>1. ASSUME ChatInv PROVE PresenceTrue
  <2> USE <1>1 DEF ChatInv
  <2>1. shown = {Owner[s] : s \in {x \in Socket : data[x]}}
    <3>1. \A u \in User : userSockets[u] # {} <=> \E s \in Socket : Owner[s] = u /\ data[s]
      BY DEF PresenceInv
    <3>2. \A s \in Socket : Owner[s] \in User BY OwnerType
    <3>3. shown = {u \in User : userSockets[u] # {}} BY DEF PresenceInv
    <3> QED BY <3>1, <3>2, <3>3
  <2> QED BY <2>1 DEF PresenceInv, PresenceTrue
<1> QED BY <1>1, ChatCorrect, PTL

\* The sockets that hear a room are those of its members.
THEOREM OnlyMembersHearHolds == Spec => []OnlyMembersHear
<1>1. ChatInv => OnlyMembersHear BY DEF ChatInv, RoomInv
<1> QED BY <1>1, ChatCorrect, PTL

\* The seat of a room is given once.
THEOREM SeatKeptHolds == Spec => SeatKept
<1>1. ASSUME ChatInv, [Next]_vars
      PROVE  \A r \in Room \ Unused :
                /\ rows'[r].u1 = rows[r].u1
                /\ rows[r].u2 # Absent => rows'[r].u2 = rows[r].u2
  <2>1. RowsGrow BY <1>1, InvStep
  <2> QED BY <2>1 DEF RowsGrow, Unused
<1>2. ChatInv /\ [Next]_vars
        => [\A r \in Room \ Unused :
                /\ rows'[r].u1 = rows[r].u1
                /\ rows[r].u2 # Absent => rows'[r].u2 = rows[r].u2]_vars
  BY <1>1
<1> QED BY <1>2, ChatCorrect, PTL DEF Spec, SeatKept

\* The invariant of the whole state.
THEOREM RestCorrect == Spec => [](ChatInv /\ RestInv)
<1>1. Init => ChatInv /\ RestInv BY InvInit, RestInit
<1>2. ChatInv /\ RestInv /\ [Next]_vars => (ChatInv /\ RestInv)' BY InvStep, RestStep
<1> QED BY <1>1, <1>2, PTL DEF Spec

\* The state keeps its shape; a job is tried three times.
THEOREM TypeCorrect == Spec => []TypeOK
<1>1. ASSUME ChatInv, RestInv PROVE TypeOK
  <2>1. /\ now \in Nat /\ begun \in Nat /\ last \in [Room -> Int \cup {Absent}]
        /\ req \in [Socket -> ReqRecord]
        /\ job \in [Creator -> [st : {"none", "queued", "failed"}, tries : 0..3]]
    BY <1>1 DEF RestInv, RestTyped
  <2>2. messages \subseteq MessageRecord /\ page \in [Socket -> PageRecord]
    BY <1>1 DEF RestInv, MessagesInv, PagesInv
  <2>3. /\ rows \in [Room -> [u1 : Member, u2 : Member]]
        /\ conn \in [Socket -> {"off", "auth", "on", "gone", "closed"}]
        /\ data \in [Socket -> BOOLEAN]
        /\ userSockets \in [User -> SUBSET Socket]
        /\ joined \in [Room -> SUBSET Socket]
        /\ shown \subseteq User
    BY <1>1 DEF ChatInv, Typed, PresenceInv
  <2> QED BY <2>1, <2>2, <2>3 DEF TypeOK, ReqRecord, Handler, PageRecord
<1> QED BY <1>1, RestCorrect, PTL

\* A client that pages through a room misses nothing that was there when it began,
\* and gets the messages newest first and once.
THEOREM PagesCompleteHolds == Spec => []PagesComplete
<1>1. ASSUME RestInv PROVE PagesComplete
  <2> SUFFICES ASSUME NEW s \in Socket
               PROVE  LET p == page[s] IN
                      /\ \A i, j \in DOMAIN p.seen : i < j => Newer(p.seen[i], p.seen[j])
                      /\ p.todo = "done" => \A m \in p.start : \E i \in DOMAIN p.seen : p.seen[i] = m
    BY DEF PagesComplete
  <2>1. PageInv(page[s]) BY <1>1 DEF RestInv, PagesInv
  <2> QED BY <2>1 DEF PageInv, Sorted, Has
<1> QED BY <1>1, RestCorrect, PTL
=============================================================================
