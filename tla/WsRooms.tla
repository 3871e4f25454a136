------------------------------- MODULE WsRooms -------------------------------
(* WebSocket clients and rooms (src/ws/server.ts).  Membership is kept twice,*)
(* in the client's own set and in the server's room map, and changed by      *)
(* application code that may still hold a client whose socket has gone or    *)
(* whose server has been closed: connection handlers are not awaited.        *)
(*                                                                           *)
(* External, as the ws library behaves towards this code: a socket stops     *)
(* delivering when it starts closing and its close event comes later;        *)
(* close() on the server stops accepting and calls back after the last       *)
(* close event.                                                              *)
EXTENDS FiniteSets, Integers

CONSTANTS Client,   \* connections, each with its own id
          Room

ASSUME ClientAssumption == IsFiniteSet(Client)

VARIABLES
    socket,        \* socket[c]: the connection of client c
    clients,       \* KinaraWebsocket.clients
    rooms,         \* KinaraWebsocket.rooms
    own,           \* own[c]: client.rooms
    socketServer,  \* the WebSocketServer
    late,          \* history: c joined the room when it was no longer a client
    last           \* the last emit: its room, who got it, what it returned

roomVars == <<socket, clients, rooms, own, socketServer, late, last>>

RoomsTypeOK ==
    /\ socket \in [Client -> {"none", "open", "closing", "closed"}]
    /\ clients \subseteq Client
    /\ rooms \in [Room -> SUBSET Client]
    /\ own \in [Client -> SUBSET Room]
    /\ socketServer \in {"none", "attached", "closing", "closed"}
    /\ late \subseteq Client \X Room
    /\ last \in [to : SUBSET Room, got : SUBSET Client, sent : 0..Cardinality(Client)]

RoomsInit ==
    /\ socket = [c \in Client |-> "none"]
    /\ clients = {}
    /\ rooms = [r \in Room |-> {}]
    /\ own = [c \in Client |-> {}]
    /\ socketServer = "none"
    /\ late = {}
    /\ last = [to |-> {}, got |-> {}, sent |-> 0]

Attach ==
    /\ socketServer = "none"
    /\ socketServer' = "attached"
    /\ UNCHANGED <<socket, clients, rooms, own, late, last>>

\* A connection: register(), then every handler is started with the client.
Connect(c) ==
    /\ socketServer = "attached" /\ socket[c] = "none"
    /\ socket' = [socket EXCEPT ![c] = "open"]
    /\ clients' = clients \cup {c}
    /\ UNCHANGED <<rooms, own, socketServer, late, last>>

\* client.join and client.leave: code that was once given c may call them at any
\* time.  A faulty leave forgets the client's own set.
Join(c, r) ==
    /\ socket[c] # "none"
    /\ own' = [own EXCEPT ![c] = @ \cup {r}]
    /\ rooms' = [rooms EXCEPT ![r] = @ \cup {c}]
    /\ late' = IF c \in clients THEN late ELSE late \cup {<<c, r>>}
    /\ UNCHANGED <<socket, clients, socketServer, last>>

LeaveRoomOnly(c, r) ==
    /\ socket[c] # "none"
    /\ rooms' = [rooms EXCEPT ![r] = @ \ {c}]
    /\ UNCHANGED <<socket, clients, own, socketServer, late, last>>
Leave(c, r) ==
    /\ socket[c] # "none"
    /\ own' = [own EXCEPT ![c] = @ \ {r}]
    /\ rooms' = [rooms EXCEPT ![r] = @ \ {c}]
    /\ UNCHANGED <<socket, clients, socketServer, late, last>>

\* The peer starts to close or vanishes: what is sent now goes nowhere.
Drop(c) ==
    /\ socket[c] = "open"
    /\ socket' = [socket EXCEPT ![c] = "closing"]
    /\ UNCHANGED <<clients, rooms, own, socketServer, late, last>>

\* The close event: leave the rooms of the client's own set, then the client map.
CloseForgetsRooms(c) ==
    /\ socket[c] = "closing"
    /\ socket' = [socket EXCEPT ![c] = "closed"]
    /\ clients' = clients \ {c}
    /\ UNCHANGED <<rooms, own, socketServer, late, last>>
SocketClosed(c) ==
    /\ socket[c] = "closing"
    /\ socket' = [socket EXCEPT ![c] = "closed"]
    /\ rooms' = [r \in Room |-> IF r \in own[c] THEN rooms[r] \ {c} ELSE rooms[r]]
    /\ clients' = clients \ {c}
    /\ UNCHANGED <<own, socketServer, late, last>>

\* emit(event, payload, room) or, with no room, broadcast: one send per id that is
\* still a client; the count includes ids that are not.
Emit(to) ==
    LET ids == IF to = {} THEN clients ELSE UNION {rooms[r] : r \in to}
    IN  /\ last' = [to |-> to, sent |-> Cardinality(ids),
                    got |-> {c \in ids \cap clients : socket[c] = "open"}]
        /\ UNCHANGED <<socket, clients, rooms, own, socketServer, late>>

CloseBegins ==
    /\ socketServer = "attached"
    /\ socketServer' = "closing"
    /\ UNCHANGED <<socket, clients, rooms, own, late, last>>

\* The callback of socketServer.close, then both maps are cleared.  (With no server
\* attached close() finds both empty.)
CloseEnds ==
    /\ socketServer = "closing" /\ \A c \in Client : socket[c] \in {"none", "closed"}
    /\ socketServer' = "closed"
    /\ clients' = {}
    /\ rooms' = [r \in Room |-> {}]
    /\ UNCHANGED <<socket, own, late, last>>

RoomsNext ==
    \/ Attach \/ CloseBegins \/ CloseEnds
    \/ \E c \in Client : Connect(c) \/ Drop(c) \/ SocketClosed(c)
    \/ \E c \in Client, r \in Room : Join(c, r) \/ Leave(c, r)
    \/ \E to \in {{}} \cup {{r} : r \in Room} : Emit(to)

RoomsSpec == RoomsInit /\ [][RoomsNext]_roomVars
-----------------------------------------------------------------------------
(* Properties                                                                *)

Hearing == {c \in Client : socket[c] = "open"}
Members == {m \in clients \X Room : m[2] \in own[m[1]]}
Heard == [to |-> last.to, by |-> last.got]

Membership == INSTANCE RoomMembership WITH
    present <- clients, hearing <- Hearing, member <- Members, heard <- Heard

\* The two records, the server and the ghosts implement one membership relation: a
\* client that goes leaves every room, and an emit is heard by the open members.
MembershipSpec == Membership!MSpec

\* For a connected client the room map and its own set say the same thing, so its
\* close event empties every room of it.
MembershipAgrees ==
    \A c \in clients, r \in Room : c \in rooms[r] <=> r \in own[c]

\* An id of no connected client is in a room only because application code joined
\* it after the socket had gone: nothing else leaves a ghost behind.  A ghost stays
\* until its code leaves again or the server is closed.
GhostsAreLateJoins ==
    \A r \in Room : \A c \in rooms[r] \ clients : <<c, r>> \in late

\* An emit reaches every open client that is in the room by its own account, and
\* no one outside it.
EmitReachesTheRoom ==
    [][\A r \in Room : last' # last /\ last'.to = {r} =>
          last'.got = {c \in clients : r \in own[c] /\ socket[c] = "open"}]_roomVars
=============================================================================
