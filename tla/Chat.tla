-------------------------------- MODULE Chat --------------------------------
(***************************************************************************)
(* The chat: gateways/chat.gateway.ts, chat.service.ts, chat.repository.ts *)
(* and the queue that creates rooms.                                       *)
(*                                                                         *)
(* One process keeps, in memory, who is online (userSockets) and which     *)
(* sockets hear a room; rows of rooms and messages are in the database.    *)
(* A socket has one request at a time, and each await of its handler is a  *)
(* step.  Moments are milliseconds: several messages may share one.        *)
(***************************************************************************)
EXTENDS Integers, FiniteSets, Sequences

CONSTANTS
    User,
    Creator,      \* admins who have rooms created for all customers
    Customer,     \* users of the role USER
    Socket,
    Owner,        \* Socket: the user its token names
    Room,         \* ids of rooms
    Id,           \* ids of messages, in the order of their text
    Limit,        \* messages on a page
    Start,        \* what may have gone before: rooms, messages, sockets in rooms
    Absent,       \* NULL
    Faults,       \* {"db"} if statements may fail
    LastMoment,   \* bound on the clock
    MaxRequests   \* bound on the requests

Member == User \cup {Absent}
Row(u1, u2) == [u1 |-> u1, u2 |-> u2]
NoRoom == Row(Absent, Absent)
Message(room, id, at, from) == [room |-> room, id |-> id, at |-> at, from |-> from]
MessageRecord == [room : Room, id : Int, at : Int, from : User]

ASSUME ChatAssumption ==
    /\ Creator \subseteq User /\ Customer \subseteq User
    /\ Owner \in [Socket -> User]
    /\ Absent \notin User \cup MessageRecord
    /\ Id \subseteq Int /\ Limit \in Nat \ {0}
    /\ \A s \in Start :
          /\ s.rows \in [Room -> [u1 : Member, u2 : Member]]
          /\ s.last \in [Room -> Int \cup {Absent}] /\ s.messages \subseteq MessageRecord
          /\ IsFiniteSet(s.messages) /\ \A m, n \in s.messages : m.id = n.id => m = n
          /\ s.joined \in [Room -> SUBSET Socket]
          /\ \A r \in Room : \A k \in s.joined[r] : Owner[k] \in {s.rows[r].u1, s.rows[r].u2}
    /\ LastMoment \in Nat /\ MaxRequests \in Nat

VARIABLES
    now,
    rows,         \* Room: user1Id, user2Id
    last,         \* Room: lastMessageAt
    messages,     \* Message: what is committed
    conn,         \* the connection of each socket
    data,         \* client.data.userId is set
    userSockets,  \* sockets of the users who are online
    shown,        \* users the clients have last been told are online
    joined,       \* sockets in the rooms of socket.io
    req,          \* the handler that runs for a socket
    page,         \* a client that pages through a room
    job,          \* the job create-chat-rooms of each creator
    begun         \* how many requests have begun

presence == <<conn, data, userSockets, shown>>
vars == <<now, rows, last, messages, presence, joined, req, page, job, begun>>

Request(pc, room, msg) == [pc |-> pc, room |-> room, msg |-> msg]
NoRequest == Request("idle", Absent, Absent)

\* The pages a client got of a room: what is left to do, the last cursor, the
\* messages seen; start is what the room held when the first page was read.
Pages(room, todo, cursor, seen, start) ==
    [room |-> room, todo |-> todo, cursor |-> cursor, seen |-> seen, start |-> start]
NoPages == Pages(Absent, "none", Absent, <<>>, {})

Job(st, tries) == [st |-> st, tries |-> tries]

IsMember(u, r) == u = rows[r].u1 \/ u = rows[r].u2

\* Room @@unique([user1Id, user2Id])
PairTaken(u1, u2) == \E r \in Room : rows[r] = Row(u1, u2)

Unused == {r \in Room : rows[r] = NoRoom}

-----------------------------------------------------------------------------
Init ==
    /\ now = 1
    /\ \E st \in Start :
         /\ rows = st.rows /\ last = st.last /\ messages = st.messages
         /\ joined = st.joined
         /\ data = [s \in Socket |-> \E r \in Room : s \in st.joined[r]]
    /\ conn = [s \in Socket |-> IF data[s] THEN "on" ELSE "off"]
    /\ userSockets = [u \in User |-> {s \in Socket : Owner[s] = u /\ data[s]}]
    /\ shown = {u \in User : userSockets[u] # {}}
    /\ req = [s \in Socket |-> NoRequest]
    /\ page = [s \in Socket |-> NoPages]
    /\ job = [u \in Creator |-> Job("none", 0)]
    /\ begun = 0

Tick ==
    /\ now < LastMoment
    /\ now' = now + 1
    /\ UNCHANGED <<rows, last, messages, presence, joined, req, page, job, begun>>

-----------------------------------------------------------------------------
(* Connections.  conn: off, auth (being authenticated), on, gone             *)
(* (disconnected while being authenticated), closed.                         *)

Connected(s) == conn[s] \in {"auth", "on"}

HandleConnection(s) ==
    /\ conn[s] = "off"
    /\ conn' = [conn EXCEPT ![s] = "auth"]
    /\ UNCHANGED <<now, rows, last, messages, data, userSockets, shown, joined, req, page, job, begun>>

\* The token is good; everybody is told who is online.  Nobody looks whether the
\* socket is still there.
Authenticated(s) ==
    /\ conn[s] \in {"auth", "gone"}
    /\ conn' = [conn EXCEPT ![s] = IF @ = "auth" THEN "on" ELSE "closed"]
    /\ data' = [data EXCEPT ![s] = TRUE]
    /\ userSockets' = [userSockets EXCEPT ![Owner[s]] = @ \cup {s}]
    /\ shown' = {u \in User : userSockets'[u] # {}}
    /\ UNCHANGED <<now, rows, last, messages, joined, req, page, job, begun>>

\* socket.io takes a socket that closes out of its rooms.
Leaves(s) == joined' = [r \in Room |-> joined[r] \ {s}]

\* The token is refused: client.disconnect.
Unauthorized(s) ==
    /\ conn[s] \in {"auth", "gone"}
    /\ conn' = [conn EXCEPT ![s] = "closed"]
    /\ Leaves(s)
    /\ UNCHANGED <<now, rows, last, messages, data, userSockets, shown, req, page, job, begun>>

\* Mutant: a user is shown offline when any socket of theirs closes.
ShownAfter_Any(u, left) == shown \ {u}

\* chat:userOffline goes out when the last socket of the user closed.
ShownAfter(u, left) == IF left = {} THEN shown \ {u} ELSE shown

HandleDisconnect(s) ==
    LET u == Owner[s]
        left == userSockets[u] \ {s}
    IN
    /\ Connected(s)
    /\ conn' = [conn EXCEPT ![s] = IF @ = "auth" THEN "gone" ELSE "closed"]
    /\ IF data[s]
         THEN /\ userSockets' = [userSockets EXCEPT ![u] = left]
              /\ data' = [data EXCEPT ![s] = FALSE]
              /\ shown' = ShownAfter(u, left)
         ELSE UNCHANGED <<data, userSockets, shown>>
    /\ Leaves(s)
    /\ UNCHANGED <<now, rows, last, messages, req, page, job, begun>>

-----------------------------------------------------------------------------
(* Requests *)

\* A request may come before its socket is authenticated: the handler then
\* authenticates it once more.
Begins(s) ==
    /\ Connected(s) /\ req[s] = NoRequest
    /\ begun < MaxRequests /\ begun' = begun + 1

To(s, pc, room, msg) == req' = [req EXCEPT ![s] = Request(pc, room, msg)]
Ends(s) == req' = [req EXCEPT ![s] = NoRequest]

AskCreateRoom(s) ==
    /\ Begins(s)
    /\ To(s, "create", Absent, Absent)
    /\ UNCHANGED <<now, rows, last, messages, presence, joined, page, job>>

AskJoinRoom(s, r) ==
    /\ Begins(s) /\ r \notin Unused
    /\ To(s, "look", r, Absent)
    /\ UNCHANGED <<now, rows, last, messages, presence, joined, page, job>>

AskSendMessage(s, r) ==
    /\ Begins(s) /\ r \notin Unused
    /\ To(s, "send", r, Absent)
    /\ UNCHANGED <<now, rows, last, messages, presence, joined, page, job>>

\* The client starts at the newest page.
AskQueryMessages(s, r) ==
    /\ Begins(s) /\ r \notin Unused
    /\ To(s, "query", r, Absent)
    /\ page' = [page EXCEPT ![s] = Pages(r, "first", Absent, <<>>, {})]
    /\ UNCHANGED <<now, rows, last, messages, presence, joined, job>>

\* The client asks for the page after the last one.
AskNextPage(s) ==
    /\ Connected(s) /\ req[s] = NoRequest /\ page[s].todo = "more"
    /\ To(s, "query", page[s].room, Absent)
    /\ UNCHANGED <<now, rows, last, messages, presence, joined, page, job, begun>>

\* The token is refused, a statement fails, the transaction is rolled back.
Fails(s) ==
    /\ req[s].pc \notin {"idle", "enter"}
    /\ "db" \in Faults \/ ~data[s]
    /\ Ends(s)
    /\ UNCHANGED <<now, rows, last, messages, presence, joined, page, job, begun>>

CreateRoom(s) ==
    /\ req[s].pc = "create"
    /\ \E r \in Unused :
         /\ rows' = [rows EXCEPT ![r] = Row(Owner[s], Absent)]
         /\ To(s, "enter", r, Absent)
    /\ UNCHANGED <<now, last, messages, presence, joined, page, job, begun>>

\* joinRoom looks at the room twice: in the service and in the transaction.
JoinRead(s) ==
    LET r == req[s].room IN
    /\ req[s].pc \in {"look", "again"}
    /\ \/ IsMember(Owner[s], r) /\ To(s, "enter", r, Absent)
       \/ ~IsMember(Owner[s], r) /\ rows[r].u2 # Absent /\ Ends(s)
       \/ /\ ~IsMember(Owner[s], r) /\ rows[r].u2 = Absent
          /\ To(s, IF req[s].pc = "look" THEN "again" ELSE "seat", r, Absent)
    /\ UNCHANGED <<now, rows, last, messages, presence, joined, page, job, begun>>

\* Mutant: the update goes by what was read.
Vacant_AsRead(r) == TRUE

\* where: { id: roomId, user2Id: null }
Vacant(r) == rows[r].u2 = Absent

\* Mutant: the count of updated rows is not looked at.
JoinSeat_Uncounted(s) ==
    LET r == req[s].room IN
    /\ req[s].pc = "seat"
    /\ rows' = IF Vacant(r) /\ ~PairTaken(rows[r].u1, Owner[s])
                 THEN [rows EXCEPT ![r] = Row(@.u1, Owner[s])] ELSE rows
    /\ To(s, "enter", r, Absent)
    /\ UNCHANGED <<now, last, messages, presence, joined, page, job, begun>>

JoinSeat(s) ==
    LET r == req[s].room IN
    /\ req[s].pc = "seat"
    /\ IF Vacant(r) /\ ~PairTaken(rows[r].u1, Owner[s])
         THEN /\ rows' = [rows EXCEPT ![r] = Row(@.u1, Owner[s])]
              /\ To(s, "enter", r, Absent)
         ELSE Ends(s) /\ UNCHANGED rows
    /\ UNCHANGED <<now, last, messages, presence, joined, page, job, begun>>

\* client.join(room.id): nothing on a socket that has closed.
EnterRoom(s) ==
    /\ req[s].pc = "enter"
    /\ joined' = IF Connected(s) THEN [joined EXCEPT ![req[s].room] = @ \cup {s}] ELSE joined
    /\ Ends(s)
    /\ UNCHANGED <<now, rows, last, messages, presence, page, job, begun>>

IsInRoom(s, r) == s \in joined[r]

SendCheck(s) ==
    /\ req[s].pc = "send"
    /\ IF IsInRoom(s, req[s].room) THEN To(s, "write", req[s].room, Absent) ELSE Ends(s)
    /\ UNCHANGED <<now, rows, last, messages, presence, joined, page, job, begun>>

\* createMessage: the row gets its createdAt now and is seen once it is committed,
\* with the lastMessageAt of the room: that of the sender who commits last.
CreateMessage(s) ==
    LET r == req[s].room
        taken == {m.id : m \in messages} \cup {req[t].msg.id : t \in {x \in Socket : req[x].pc = "commit"}}
    IN
    /\ req[s].pc = "write"
    /\ IF IsMember(Owner[s], r)
         THEN \E i \in Id \ taken : To(s, "commit", r, Message(r, i, now, Owner[s]))
         ELSE Ends(s)
    /\ UNCHANGED <<now, rows, last, messages, presence, joined, page, job, begun>>

CommitMessage(s) ==
    /\ req[s].pc = "commit"
    /\ messages' = messages \cup {req[s].msg}
    /\ last' = [last EXCEPT ![req[s].room] = req[s].msg.at]
    /\ Ends(s)
    /\ UNCHANGED <<now, rows, presence, joined, page, job, begun>>

QueryCheck(s) ==
    /\ req[s].pc = "query"
    /\ IF IsInRoom(s, req[s].room) THEN To(s, "read", req[s].room, Absent) ELSE Ends(s)
    /\ UNCHANGED <<now, rows, last, messages, presence, joined, page, job, begun>>

\* orderBy: createdAt desc, id desc
Newer(m, n) == m.at > n.at \/ (m.at = n.at /\ m.id > n.id)

\* Mutant: the cursor is a moment only.
Behind_Moment(m, c) == m.at < c.at

\* buildRoomMessagesQuery: createdAt < cursor's, or the same and a smaller id.
Behind(m, c) == m.at < c.at \/ (m.at = c.at /\ m.id < c.id)

\* findMany: a message is behind those that are newer.
NewestFirst(S) ==
    [i \in 1..Cardinality(S) |-> CHOOSE m \in S : Cardinality({n \in S : Newer(n, m)}) = i - 1]

GetRoomMessages(s) ==
    LET p == page[s]
        inRoom == {m \in messages : m.room = p.room}
        found == {m \in inRoom : p.cursor = Absent \/ Behind(m, p.cursor)}
        hasMore == Cardinality(found) > Limit
        all == NewestFirst(found)
        got == IF hasMore THEN SubSeq(all, 1, Limit) ELSE all
    IN
    /\ req[s].pc = "read"
    /\ page' = [page EXCEPT ![s] =
           Pages(p.room, IF hasMore THEN "more" ELSE "done",
                 IF hasMore THEN got[Limit] ELSE Absent,
                 p.seen \o got, IF p.todo = "first" THEN inRoom ELSE p.start)]
    /\ Ends(s)
    /\ UNCHANGED <<now, rows, last, messages, presence, joined, job, begun>>

-----------------------------------------------------------------------------
(* The job that creates a room with every customer *)

\* The id of the job is the creator's: a request while the job waits, or after it
\* failed for good (removeOnFail: false), adds nothing.
EnqueueRooms(u) ==
    /\ begun < MaxRequests /\ begun' = begun + 1
    /\ job' = IF job[u].st = "none" THEN [job EXCEPT ![u] = Job("queued", 0)] ELSE job
    /\ UNCHANGED <<now, rows, last, messages, presence, joined, req, page>>

\* createMany, skipDuplicates
JobCreatesRooms(u) ==
    LET missing == {c \in Customer \ {u} : ~PairTaken(u, c)} IN
    /\ job[u].st = "queued"
    /\ \E new \in [missing -> Unused] :
         /\ \A c, d \in missing : c # d => new[c] # new[d]
         /\ rows' = [r \in Room |-> IF \E c \in missing : new[c] = r
                                      THEN Row(u, CHOOSE c \in missing : new[c] = r) ELSE rows[r]]
    /\ job' = [job EXCEPT ![u] = Job("none", 0)]
    /\ UNCHANGED <<now, last, messages, presence, joined, req, page, begun>>

\* Mutant: a failed job is tried without end.
JobFails_Endless(u) ==
    /\ "db" \in Faults /\ job[u].st = "queued"
    /\ job' = [job EXCEPT ![u] = Job("queued", @.tries + 1)]
    /\ UNCHANGED <<now, rows, last, messages, presence, joined, req, page, begun>>

\* attempts: 3
JobFails(u) ==
    /\ "db" \in Faults /\ job[u].st = "queued"
    /\ job' = [job EXCEPT ![u] = Job(IF @.tries < 2 THEN "queued" ELSE "failed", @.tries + 1)]
    /\ UNCHANGED <<now, rows, last, messages, presence, joined, req, page, begun>>

-----------------------------------------------------------------------------
Connection(s) ==
    \/ HandleConnection(s) \/ Authenticated(s) \/ Unauthorized(s) \/ HandleDisconnect(s)

Asks(s) ==
    \/ AskCreateRoom(s) \/ AskNextPage(s)
    \/ \E r \in Room : AskJoinRoom(s, r) \/ AskSendMessage(s, r) \/ AskQueryMessages(s, r)

Handles(s) ==
    \/ Fails(s) \/ CreateRoom(s) \/ JoinRead(s) \/ JoinSeat(s) \/ EnterRoom(s)
    \/ SendCheck(s) \/ CreateMessage(s) \/ CommitMessage(s) \/ QueryCheck(s) \/ GetRoomMessages(s)

Next ==
    \/ Tick
    \/ \E s \in Socket : Connection(s) \/ Asks(s) \/ Handles(s)
    \/ \E u \in Creator : EnqueueRooms(u) \/ JobCreatesRooms(u) \/ JobFails(u)

Spec == Init /\ [][Next]_vars
-----------------------------------------------------------------------------
\* Shape of the state.
TypeOK ==
    /\ now \in Nat /\ begun \in Nat
    /\ rows \in [Room -> [u1 : Member, u2 : Member]]
    /\ last \in [Room -> Int \cup {Absent}] /\ messages \subseteq MessageRecord
    /\ conn \in [Socket -> {"off", "auth", "on", "gone", "closed"}]
    /\ data \in [Socket -> BOOLEAN]
    /\ userSockets \in [User -> SUBSET Socket]
    /\ shown \subseteq User
    /\ joined \in [Room -> SUBSET Socket]
    /\ req \in [Socket ->
          [pc : {"idle", "create", "look", "again", "seat", "enter", "send", "write", "commit",
                 "query", "read"},
           room : Room \cup {Absent}, msg : MessageRecord \cup {Absent}]]
    /\ page \in [Socket ->
          [room : Room \cup {Absent}, todo : {"none", "first", "more", "done"},
           cursor : MessageRecord \cup {Absent}, seen : Seq(MessageRecord),
           start : SUBSET MessageRecord]]
    /\ job \in [Creator -> [st : {"none", "queued", "failed"}, tries : 0..3]]

\* chat.gateway.ts:41,65 "chat:userOnline", "chat:userOffline": the clients are
\* shown exactly the users who have a socket, one with several sockets stays
\* online until the last has closed, and no socket counts that is not
\* authenticated.  (A socket that closes while it is being authenticated counts
\* for ever: it is "closed" with data set.)
PresenceTrue ==
    /\ shown = {Owner[s] : s \in {x \in Socket : data[x]}}
    /\ \A s \in Socket : conn[s] = "on" => data[s]
    /\ \A u \in User : userSockets[u] = {s \in Socket : Owner[s] = u /\ data[s]}

\* chat.repository.ts:122 "Room is no longer available": of several users who
\* join a room at the same time one gets the seat, and nobody takes it over.
SeatKept ==
    [][\A r \in Room \ Unused :
          /\ rows'[r].u1 = rows[r].u1
          /\ rows[r].u2 # Absent => rows'[r].u2 = rows[r].u2]_vars

\* The sockets that hear a room are those of its two members, whatever joins,
\* disconnects and failures come together.
OnlyMembersHear == \A r \in Room : \A s \in joined[r] : IsMember(Owner[s], r)

\* chat.repository.ts:164-185: a client that goes from page to page while others
\* write gets the messages newest first and none twice, and, when it is through,
\* every message that was there when it read the first page, also where several
\* share a moment.
PagesComplete ==
    \A s \in Socket :
        LET p == page[s] IN
        /\ \A i, j \in DOMAIN p.seen : i < j => Newer(p.seen[i], p.seen[j])
        /\ p.todo = "done" => \A m \in p.start : \E i \in DOMAIN p.seen : p.seen[i] = m
=============================================================================
