---------------------------- MODULE RemoteProofs ----------------------------
(* What holds of the two servers that remote clients talk to, for any       *)
(* clients, rooms, callers, services, errors and attempts: WebSocket rooms  *)
(* (WsRooms), and retried unary gRPC calls (RpcCalls).                      *)
EXTENDS WsRooms, FiniteSetTheorems, RpcCalls, TLAPS

-----------------------------------------------------------------------------
(* WsRooms: the two records of room membership agree, and an emit to a      *)
(* room reaches who is in it.                                               *)

\* A connection that has not been made is in no room; who is a client has a socket
\* that is open or closing, and only they.
Connections ==
    /\ \A c \in Client : socket[c] = "none" =>
           own[c] = {} /\ \A r \in Room : c \notin rooms[r]
    /\ \A c \in Client : c \in clients <=> socket[c] \in {"open", "closing"}

RoomsInv == RoomsTypeOK /\ Connections /\ MembershipAgrees /\ GhostsAreLateJoins

\* The initial state satisfies the invariant.
LEMMA RoomsInitially == RoomsInit => RoomsInv
  <1> SUFFICES ASSUME RoomsInit PROVE RoomsInv
      OBVIOUS
  <1>1. Cardinality(Client) \in Nat
      BY ClientAssumption, FS_CardinalityType
  <1>2. RoomsTypeOK
      BY <1>1 DEF RoomsInit, RoomsTypeOK
  <1>3. Connections /\ MembershipAgrees /\ GhostsAreLateJoins
      BY DEF RoomsInit, Connections, MembershipAgrees, GhostsAreLateJoins
  <1> QED BY <1>2, <1>3 DEF RoomsInv

\* join and leave change the client's own set and the room map together.
LEMMA JoinKeeps ==
    ASSUME RoomsInv, NEW c \in Client, NEW r \in Room, Join(c, r)
    PROVE  RoomsInv'
  <1> USE DEF RoomsInv, Join
  <1>1. RoomsTypeOK'
    <2>1. own' \in [Client -> SUBSET Room]
        BY DEF RoomsTypeOK
    <2>2. rooms' \in [Room -> SUBSET Client]
        BY DEF RoomsTypeOK
    <2>3. late' \subseteq Client \X Room
        BY DEF RoomsTypeOK
    <2> QED BY <2>1, <2>2, <2>3 DEF RoomsTypeOK
  <1>2. Connections'
      BY DEF RoomsTypeOK, Connections
  <1>3. MembershipAgrees'
      BY DEF RoomsTypeOK, MembershipAgrees
  <1>4. GhostsAreLateJoins'
    <2> SUFFICES ASSUME NEW q \in Room, NEW d \in rooms'[q] \ clients
                 PROVE  <<d, q>> \in late'
        BY DEF GhostsAreLateJoins
    <2>1. CASE d = c /\ q = r
        BY <2>1
    <2>2. CASE ~(d = c /\ q = r)
      <3>1. d \in rooms[q]
          BY <2>2 DEF RoomsTypeOK
      <3> QED BY <3>1 DEF GhostsAreLateJoins
    <2> QED BY <2>1, <2>2
  <1> QED BY <1>1, <1>2, <1>3, <1>4

\* leave changes both records too.
LEMMA LeaveIInv ==
    ASSUME RoomsInv, NEW c \in Client, NEW r \in Room, Leave(c, r)
    PROVE  RoomsInv'
  <1> USE DEF RoomsInv, Leave
  <1>1. RoomsTypeOK'
    <2>1. own' \in [Client -> SUBSET Room]
        BY DEF RoomsTypeOK
    <2>2. rooms' \in [Room -> SUBSET Client]
        BY DEF RoomsTypeOK
    <2> QED BY <2>1, <2>2 DEF RoomsTypeOK
  <1>2. Connections'
      BY DEF RoomsTypeOK, Connections
  <1>3. MembershipAgrees'
      BY DEF RoomsTypeOK, MembershipAgrees
  <1>4. GhostsAreLateJoins'
    <2>1. \A q \in Room : rooms'[q] \subseteq rooms[q]
        BY DEF RoomsTypeOK
    <2> QED BY <2>1 DEF GhostsAreLateJoins
  <1> QED BY <1>1, <1>2, <1>3, <1>4

\* A new client is in no room by either record.
LEMMA ConnectIInv ==
    ASSUME RoomsInv, NEW c \in Client, Connect(c)
    PROVE  RoomsInv'
  <1> USE DEF RoomsInv, Connect
  <1>1. RoomsTypeOK'
    <2>1. socket' \in [Client -> {"none", "open", "closing", "closed"}]
        BY DEF RoomsTypeOK
    <2> QED BY <2>1 DEF RoomsTypeOK
  <1>2. Connections'
      BY DEF RoomsTypeOK, Connections
  <1>3. MembershipAgrees'
      BY DEF RoomsTypeOK, Connections, MembershipAgrees
  <1>4. GhostsAreLateJoins'
      BY DEF GhostsAreLateJoins
  <1> QED BY <1>1, <1>2, <1>3, <1>4

\* Membership does not depend on the socket until its close event.
LEMMA DropIInv ==
    ASSUME RoomsInv, NEW c \in Client, Drop(c)
    PROVE  RoomsInv'
  <1> USE DEF RoomsInv, Drop
  <1>1. RoomsTypeOK'
    <2>1. socket' \in [Client -> {"none", "open", "closing", "closed"}]
        BY DEF RoomsTypeOK
    <2> QED BY <2>1 DEF RoomsTypeOK
  <1>2. Connections'
      BY DEF RoomsTypeOK, Connections
  <1>3. (MembershipAgrees /\ GhostsAreLateJoins)'
      BY DEF MembershipAgrees, GhostsAreLateJoins
  <1> QED BY <1>1, <1>2, <1>3

\* The close event leaves the rooms of the client's own set: by MembershipAgrees,
\* all it is in.
LEMMA SocketClosedIInv ==
    ASSUME RoomsInv, NEW c \in Client, SocketClosed(c)
    PROVE  RoomsInv'
  <1> USE DEF RoomsInv, SocketClosed
  <1>0. /\ \A r \in Room : rooms'[r] = IF r \in own[c] THEN rooms[r] \ {c} ELSE rooms[r]
        /\ rooms' \in [Room -> SUBSET Client]
        /\ socket' \in [Client -> {"none", "open", "closing", "closed"}]
        /\ socket'[c] = "closed" /\ \A d \in Client \ {c} : socket'[d] = socket[d]
      BY DEF RoomsTypeOK
  <1>1. RoomsTypeOK'
      BY <1>0 DEF RoomsTypeOK
  <1>2. Connections'
      BY <1>0 DEF RoomsTypeOK, Connections
  <1>3. MembershipAgrees'
      BY <1>0 DEF RoomsTypeOK, MembershipAgrees
  <1>4. GhostsAreLateJoins'
    <2> SUFFICES ASSUME NEW r \in Room, NEW d \in rooms'[r] \ clients'
                 PROVE  <<d, r>> \in late
        BY DEF GhostsAreLateJoins
    <2>1. d \in rooms[r] /\ (d = c => r \notin own[c])
        BY <1>0
    <2>2. d \notin clients
        BY <2>1 DEF MembershipAgrees
    <2> QED BY <2>1, <2>2 DEF GhostsAreLateJoins
  <1> QED BY <1>1, <1>2, <1>3, <1>4

\* An emit changes what it reports and nothing else.
LEMMA EmitKeeps ==
    ASSUME RoomsInv, NEW to \in {{}} \cup {{r} : r \in Room}, Emit(to)
    PROVE  RoomsInv'
  <1> USE DEF RoomsInv
  <1> DEFINE ids == IF to = {} THEN clients ELSE UNION {rooms[r] : r \in to}
  <1>1. RoomsTypeOK'
    <2>1. to \subseteq Room /\ ids \subseteq Client
        BY DEF RoomsTypeOK
    <2>2. Cardinality(ids) \in 0..Cardinality(Client)
        BY <2>1, ClientAssumption, FS_Subset, FS_CardinalityType
    <2>3. {c \in ids \cap clients : socket[c] = "open"} \subseteq Client
        BY <2>1
    <2>4. last' \in [to : SUBSET Room, got : SUBSET Client, sent : 0..Cardinality(Client)]
        BY <2>1, <2>2, <2>3 DEF Emit
    <2> QED BY <2>4 DEF RoomsTypeOK, Emit
  <1>2. (Connections /\ MembershipAgrees /\ GhostsAreLateJoins)'
      BY DEF Emit, Connections, MembershipAgrees, GhostsAreLateJoins
  <1> QED BY <1>1, <1>2

\* attach changes no membership; close() clears the map when no client is left.
LEMMA ServerIInv ==
    ASSUME RoomsInv, Attach \/ CloseBegins \/ CloseEnds
    PROVE  RoomsInv'
  <1> USE DEF RoomsInv
  <1>1. CASE Attach \/ CloseBegins
      BY <1>1 DEF Attach, CloseBegins, RoomsTypeOK, Connections, MembershipAgrees, GhostsAreLateJoins
  <1>2. CASE CloseEnds
    <2>1. RoomsTypeOK'
        BY <1>2 DEF CloseEnds, RoomsTypeOK
    <2>2. (Connections /\ MembershipAgrees /\ GhostsAreLateJoins)'
        BY <1>2 DEF CloseEnds, RoomsTypeOK, Connections, MembershipAgrees, GhostsAreLateJoins
    <2> QED BY <2>1, <2>2
  <1> QED BY <1>1, <1>2

\* Every step, and a stutter, keeps the invariant.
LEMMA RoomsStep == RoomsInv /\ [RoomsNext]_roomVars => RoomsInv'
  <1> SUFFICES ASSUME RoomsInv, [RoomsNext]_roomVars PROVE RoomsInv'
      OBVIOUS
  <1>1. CASE RoomsNext
      BY <1>1, JoinKeeps, LeaveIInv, ConnectIInv, DropIInv, SocketClosedIInv, EmitKeeps,
         ServerIInv DEF RoomsNext
  <1>2. CASE UNCHANGED roomVars
      BY <1>2 DEF roomVars, RoomsInv, RoomsTypeOK, Connections, MembershipAgrees, GhostsAreLateJoins
  <1> QED BY <1>1, <1>2
-----------------------------------------------------------------------------
\* The inductive invariant holds throughout: the two
\* membership records stay in step (src/ws/server.ts).
THEOREM RoomsInvariant == RoomsSpec => []RoomsInv
  BY RoomsInitially, RoomsStep, PTL DEF RoomsSpec

\* Every reachable state of clients and rooms has its type.
THEOREM RoomTypes == RoomsSpec => []RoomsTypeOK
  <1>1. RoomsInv => RoomsTypeOK
      BY DEF RoomsInv
  <1> QED BY <1>1, RoomsInvariant, PTL

\* For every connected client KinaraWebsocket.rooms and client.rooms agree.
THEOREM RecordsAgree == RoomsSpec => []MembershipAgrees
  <1>1. RoomsInv => MembershipAgrees
      BY DEF RoomsInv
  <1> QED BY <1>1, RoomsInvariant, PTL

\* The close event leaves no id behind: only a join after it can (register()).
THEOREM NoOtherGhosts == RoomsSpec => []GhostsAreLateJoins
  <1>1. RoomsInv => GhostsAreLateJoins
      BY DEF RoomsInv
  <1> QED BY <1>1, RoomsInvariant, PTL

\* KinaraWebsocket.emit to a room is received by exactly the open clients whose own
\* set has the room.
THEOREM RoomIsReached == RoomsSpec => EmitReachesTheRoom
  <1> DEFINE Reached == \A r \in Room : last' # last /\ last'.to = {r} =>
                 last'.got = {c \in clients : r \in own[c] /\ socket[c] = "open"}
  <1>1. RoomsInv /\ [RoomsNext]_roomVars => [Reached]_roomVars
    <2> SUFFICES ASSUME RoomsInv, RoomsNext, NEW r \in Room, last' # last, last'.to = {r}
                 PROVE  last'.got = {c \in clients : r \in own[c] /\ socket[c] = "open"}
        OBVIOUS
    <2>1. PICK to : Emit(to)
        BY DEF RoomsNext, Attach, CloseBegins, CloseEnds, Connect, Drop, SocketClosed, Join, Leave
    <2>2. to = {r}
        BY <2>1 DEF Emit
    <2>3. last'.got = {c \in rooms[r] \cap clients : socket[c] = "open"}
        BY <2>1, <2>2 DEF Emit
    <2> QED BY <2>3 DEF RoomsInv, MembershipAgrees
  <1> QED BY <1>1, RoomsInvariant, PTL DEF RoomsSpec, EmitReachesTheRoom

-----------------------------------------------------------------------------
(* The step simulation: WsRooms implements RoomMembership.                  *)

\* Nobody has come when nothing is attached.
LEMMA NobodyCame == RoomsInit => Membership!MInit
  BY DEF RoomsInit, Membership!MInit, Hearing, Members, Heard

\* join by a client enters the relation; by a ghost it is nothing to it.
LEMMA JoinEnters ==
    ASSUME RoomsInv, NEW c \in Client, NEW r \in Room, Join(c, r)
    PROVE  [Membership!MNext]_(Membership!mvars)
  <1>1. UNCHANGED <<clients, Hearing, Heard>>
      BY DEF Join, Hearing, Heard
  <1>2. \A d \in Client, q \in Room :
            q \in own'[d] <=> q \in own[d] \/ (d = c /\ q = r)
      BY DEF Join, RoomsInv, RoomsTypeOK
  <1>3. clients \subseteq Client
      BY DEF RoomsInv, RoomsTypeOK
  <1>4. CASE c \in clients
    <2>1. Members' = Members \cup {<<c, r>>}
        BY <1>1, <1>2, <1>3, <1>4 DEF Members
    <2>2. Membership!Enter(c, r)
        BY <1>1, <1>4, <2>1 DEF Membership!Enter
    <2> QED BY <2>2 DEF Membership!MNext
  <1>5. CASE c \notin clients
    <2>1. Members' = Members
        BY <1>1, <1>2, <1>3, <1>5 DEF Members
    <2> QED BY <1>1, <2>1 DEF Membership!mvars
  <1> QED BY <1>4, <1>5

\* leave takes the pair out, if it was in.
LEMMA LeaveExits ==
    ASSUME RoomsInv, NEW c \in Client, NEW r \in Room, Leave(c, r)
    PROVE  [Membership!MNext]_(Membership!mvars)
  <1>1. UNCHANGED <<clients, Hearing, Heard>>
      BY DEF Leave, Hearing, Heard
  <1>2. \A d \in Client, q \in Room :
            q \in own'[d] <=> q \in own[d] /\ ~(d = c /\ q = r)
      BY DEF Leave, RoomsInv, RoomsTypeOK
  <1>3. clients \subseteq Client
      BY DEF RoomsInv, RoomsTypeOK
  <1>4. Members' = Members \ {<<c, r>>}
      BY <1>1, <1>2, <1>3 DEF Members
  <1>5. Membership!Exit(c, r)
      BY <1>1, <1>4 DEF Membership!Exit
  <1> QED BY <1>5 DEF Membership!MNext

\* register(): a connection that was never made is no client and has no rooms.
LEMMA ConnectComes ==
    ASSUME RoomsInv, NEW c \in Client, Connect(c)
    PROVE  [Membership!MNext]_(Membership!mvars)
  <1>1. c \notin clients /\ clients' = clients \cup {c} /\ own[c] = {}
      BY DEF Connect, RoomsInv, Connections
  <1>2. Hearing' = Hearing \cup {c}
      BY DEF Connect, Hearing, RoomsInv, RoomsTypeOK
  <1>3. Members' = Members /\ Heard' = Heard
      BY <1>1 DEF Connect, Members, Heard
  <1>4. Membership!Come(c)
      BY <1>1, <1>2, <1>3 DEF Membership!Come
  <1> QED BY <1>4 DEF Membership!MNext

\* A socket that starts to close hears no more; its close event takes the client away,
\* out of every room.
LEMMA SocketGoes ==
    ASSUME RoomsInv, NEW c \in Client, Drop(c) \/ SocketClosed(c)
    PROVE  [Membership!MNext]_(Membership!mvars)
  <1>1. CASE Drop(c)
    <2>1. Hearing' = Hearing \ {c}
        BY <1>1 DEF Drop, Hearing, RoomsInv, RoomsTypeOK
    <2>2. UNCHANGED <<clients, Members, Heard>>
        BY <1>1 DEF Drop, Members, Heard
    <2>3. Membership!FallSilent(c)
        BY <2>1, <2>2 DEF Membership!FallSilent
    <2> QED BY <2>3 DEF Membership!MNext
  <1>2. CASE SocketClosed(c)
    <2>1. UNCHANGED <<Hearing, Heard>> /\ c \notin Hearing
        BY <1>2 DEF SocketClosed, Hearing, Heard, RoomsInv, RoomsTypeOK
    <2>2. clients' = clients \ {c} /\ own' = own
        BY <1>2 DEF SocketClosed
    <2>3. Members' = {m \in Members : m[1] # c}
        BY <2>2 DEF Members
    <2>4. Membership!Go(c)
        BY <2>1, <2>2, <2>3 DEF Membership!Go
    <2> QED BY <2>4 DEF Membership!MNext
  <1> QED BY <1>1, <1>2

\* emit goes by the room map; by MembershipAgrees its clients are the members.
LEMMA EmitSends ==
    ASSUME RoomsInv, NEW to \in {{}} \cup {{r} : r \in Room}, Emit(to)
    PROVE  [Membership!MNext]_(Membership!mvars)
  <1> DEFINE ids == IF to = {} THEN clients ELSE UNION {rooms[r] : r \in to}
  <1>1. UNCHANGED <<clients, Hearing, Members>>
      BY DEF Emit, Hearing, Members
  <1>2. Heard' = [to |-> to, by |-> {c \in ids \cap clients : socket[c] = "open"}]
      BY DEF Emit, Heard
  <1>3. Hearing \subseteq clients
      BY DEF Hearing, RoomsInv, Connections
  <1>4. ASSUME NEW c \in clients, NEW r \in Room
        PROVE  c \in rooms[r] <=> <<c, r>> \in Members
      BY <1>4 DEF Members, RoomsInv, MembershipAgrees
  <1>5. {c \in ids \cap clients : socket[c] = "open"}
            = {c \in Hearing : to = {} \/ \E r \in to : <<c, r>> \in Members}
    <2>1. CASE to = {}
        BY <1>3, <2>1 DEF Hearing, RoomsInv, RoomsTypeOK
    <2>2. CASE to # {}
      <3>1. PICK r \in Room : to = {r}
          BY <2>2
      <3>2. ids = rooms[r]
          BY <3>1
      <3> QED BY <1>3, <1>4, <3>1, <3>2 DEF Hearing, RoomsInv, RoomsTypeOK
    <2> QED BY <2>1, <2>2
  <1>6. Membership!Send(to)
      BY <1>1, <1>2, <1>5 DEF Membership!Send
  <1> QED BY <1>6 DEF Membership!MNext

\* attach and close() are nothing to the relation: when the server has closed its last
\* client has gone.
LEMMA ServerIsNothing ==
    ASSUME RoomsInv, Attach \/ CloseBegins \/ CloseEnds
    PROVE  [Membership!MNext]_(Membership!mvars)
  <1>1. UNCHANGED <<socket, own, last>>
      BY DEF Attach, CloseBegins, CloseEnds
  <1>2. clients' = clients
    <2>1. CASE CloseEnds
        BY <2>1 DEF CloseEnds, RoomsInv, RoomsTypeOK, Connections
    <2> QED BY <2>1 DEF Attach, CloseBegins
  <1> QED BY <1>1, <1>2 DEF Membership!mvars, Hearing, Members, Heard

\* KinaraWebsocket, with two records of who is in which room, a server that closes and
\* clients that outlive their sockets, implements the one relation: who goes is in no
\* room, and an emit is heard by exactly the open members (src/ws/server.ts).
THEOREM RoomsAreOneRelation == RoomsSpec => MembershipSpec
  <1>1. RoomsInv /\ [RoomsNext]_roomVars => [Membership!MNext]_(Membership!mvars)
    <2> SUFFICES ASSUME RoomsInv, [RoomsNext]_roomVars
                 PROVE  [Membership!MNext]_(Membership!mvars)
        OBVIOUS
    <2>1. CASE RoomsNext
        BY <2>1, JoinEnters, LeaveExits, ConnectComes, SocketGoes, EmitSends, ServerIsNothing
        DEF RoomsNext
    <2>2. CASE UNCHANGED roomVars
        BY <2>2 DEF roomVars, Membership!mvars, Hearing, Members, Heard
    <2> QED BY <2>1, <2>2
  <1>2. Membership!MInit /\ [][Membership!MNext]_(Membership!mvars) => MembershipSpec
      BY DEF MembershipSpec, Membership!MSpec
  <1> QED BY <1>1, <1>2, NobodyCame, RoomsInvariant, PTL DEF RoomsSpec

-----------------------------------------------------------------------------
(* RpcCalls                                                                 *)

\* Nothing is ahead of retry()'s counter: whatever is under way, runs or ran
\* belongs to a turn of the loop that has begun.
Begun ==
    /\ \A a \in wire \cup running \cup ran : a[2] <= attempt[a[1]]
    /\ \A r \in replies : r.of[2] <= attempt[r.of[1]]

\* A handler that was called runs or has called back, and only a handler's
\* callback says "value".
Accounted ==
    /\ ran = running \cup answered
    /\ \A r \in replies : r.what = "value" => r.of \in answered

\* Where retry() is in its loop.
Counted ==
    \A c \in Caller :
        /\ phase[c] = "idle" => attempt[c] = 0
        /\ phase[c] = "sleeping" => attempt[c] < Times

\* What it has when it is done.
Done ==
    \A c \in Caller :
        /\ phase[c] = "resolved" =>
               outcome[c].of = attempt[c] /\ <<c, outcome[c].of>> \in answered
        /\ phase[c] = "rejected" => outcome[c].of = Times /\ outcome[c].what # "value"

IInv == TypeOK /\ Begun /\ Accounted /\ Counted /\ Done

LEMMA Initially == Init => IInv
  BY RpcAssumption DEF Init, IInv, TypeOK, Begun, Accounted, Counted, Done,
     Nothing, Outcome, Target

\* The server's own steps touch no call.
LEMMA ServerKeeps == IInv /\ ServerStep => IInv'
  <1> SUFFICES ASSUME IInv, ServerStep PROVE IInv'
    OBVIOUS
  <1> USE RpcAssumption DEF IInv, TypeOK, network, callers
  <1>1. UNCHANGED <<network, callers>>
    BY DEF ServerStep, Add, AddFails, Listen, CloseStart, CloseDone
  <1>2. TypeOK'
    BY <1>1 DEF ServerStep, Add, AddFails, Listen, CloseStart, CloseDone
  <1>3. Begun' /\ Accounted' /\ Counted' /\ Done'
    BY <1>1 DEF Begun, Accounted, Counted, Done
  <1>4. QED
    BY <1>2, <1>3

LEMMA NetworkKeeps == IInv /\ NetworkStep => IInv'
  <1> SUFFICES ASSUME IInv, NetworkStep PROVE IInv'
    OBVIOUS
  <1> USE RpcAssumption DEF IInv, TypeOK, serverVars, callers, Begun, Accounted, Counted,
        Done, Attempt
  <1>1. ASSUME NEW a \in Attempt, Arrive(a) PROVE IInv'
    BY <1>1 DEF Arrive
  <1>2. ASSUME NEW a \in Attempt, Refused(a) PROVE IInv'
    <2>1. PICK what \in Outcome : Sends(a, what) /\ what # "value"
      BY <1>2 DEF Refused, Outcome, Failure
    <2>2. TypeOK'
      BY <1>2, <2>1 DEF Refused, Sends, Reply
    <2>3. Begun' /\ Accounted'
      BY <1>2, <2>1 DEF Refused, Sends, Reply
    <2>4. Counted' /\ Done'
      BY <1>2 DEF Refused
    <2>5. QED
      BY <2>2, <2>3, <2>4
  <1>3. ASSUME NEW a \in Attempt, HandlerEnds(a) PROVE IInv'
    <2>1. UNCHANGED replies \/ \E what \in Outcome : Sends(a, what)
      BY <1>3 DEF HandlerEnds, Outcome, Failure
    <2>2. TypeOK'
      BY <1>3, <2>1 DEF HandlerEnds, Sends, Reply
    <2>3. Begun' /\ Accounted'
      BY <1>3, <2>1 DEF HandlerEnds, Sends, Reply
    <2>4. Counted' /\ Done'
      BY <1>3 DEF HandlerEnds
    <2>5. QED
      BY <2>2, <2>3, <2>4
  <1>4. ASSUME NEW a \in Attempt, LoseRequest(a) PROVE IInv'
    BY <1>4 DEF LoseRequest
  <1>5. ASSUME NEW a \in Attempt, Cut(a) PROVE IInv'
    BY <1>5 DEF Cut
  <1>6. ASSUME NEW r \in replies, LoseReply(r) PROVE IInv'
    BY <1>6 DEF LoseReply
  <1>7. QED
    BY <1>1, <1>2, <1>3, <1>4, <1>5, <1>6 DEF NetworkStep

\* A turn of the loop begins when the counter may still go up, and puts at most
\* the request of this turn on its way.
LEMMA TurnKeeps ==
    ASSUME IInv, NEW c \in Caller, NEW s \in Target, NEW n \in 1..Times,
           Turn(c, s, n), n = attempt[c] + 1, phase[c] \in {"idle", "sleeping"},
           target' \in [Caller -> Target], UNCHANGED <<serverVars, connected, outcome>>
    PROVE  IInv'
  <1> USE RpcAssumption DEF IInv, TypeOK, serverVars, Turn, Unary, Attempt
  <1>1. TypeOK'
    <2>1. n \in 0..Times /\ wire' \subseteq Attempt
      OBVIOUS
    <2>2. /\ attempt' \in [Caller -> 0..Times]
          /\ phase' \in [Caller -> {"idle", "waiting", "sleeping", "resolved", "rejected"}]
      BY <2>1
    <2>3. QED
      BY <2>1, <2>2
  <1>2. Begun'
    BY DEF Begun, Reply
  <1>3. Accounted'
    BY DEF Accounted
  <1>4. Counted' /\ Done'
    BY DEF Counted, Done
  <1>5. QED
    BY <1>1, <1>2, <1>3, <1>4

\* The end of a turn: what it gave is of this turn.
LEMMA EndKeeps ==
    ASSUME IInv, NEW c \in Caller, NEW n \in 0..Times, NEW what \in Outcome,
           phase[c] = "waiting", n = attempt[c], Hears(c, n, what),
           \/ /\ what = "value" /\ <<c, n>> \in answered
              /\ phase' = [phase EXCEPT ![c] = "resolved"]
           \/ what # "value" /\ Fails(c, n, what),
           replies' \subseteq replies,
           UNCHANGED <<serverVars, wire, streams, running, ran, answered, connected, attempt, target>>
    PROVE  IInv'
  <1> USE RpcAssumption DEF IInv, TypeOK, serverVars, Hears, Fails
  <1>1. TypeOK'
    <2>1. phase' \in [Caller -> {"idle", "waiting", "sleeping", "resolved", "rejected"}]
      OBVIOUS
    <2>2. outcome' \in [Caller -> [of : 0..Times, what : Outcome]]
      <3>1. [of |-> n, what |-> what] \in [of : 0..Times, what : Outcome]
        OBVIOUS
      <3>2. QED
        BY <3>1
    <2>3. replies' \subseteq Reply
      OBVIOUS
    <2>4. QED
      BY <2>1, <2>2, <2>3
  <1>2. Begun' /\ Accounted'
    BY DEF Begun, Accounted
  <1>3. phase'[c] # "idle" /\ (phase'[c] = "sleeping" => attempt[c] < Times)
    OBVIOUS
  <1>4. \A x \in Caller : x # c => phase'[x] = phase[x] /\ outcome'[x] = outcome[x]
    OBVIOUS
  <1>5. Counted'
    BY <1>3, <1>4 DEF Counted
  <1>6. outcome'[c] = [of |-> n, what |-> what]
    OBVIOUS
  <1>7. Done'
    <2>1. what # "value" /\ phase'[c] = "rejected" => n = Times
      <3>1. n < Times => (what # "value" => phase'[c] = "sleeping")
        OBVIOUS
      <3>2. n < Times \/ n = Times
        <4>1. n \in 0..Times /\ Times \in Nat
          OBVIOUS
        <4> HIDE DEF IInv, TypeOK
        <4>2. QED
          BY <4>1
      <3>3. QED
        BY <3>1, <3>2
    <2>2. what = "value" => phase'[c] = "resolved"
      OBVIOUS
    <2>3. what # "value" => phase'[c] \in {"sleeping", "rejected"}
      OBVIOUS
    <2>4. QED
      BY <1>4, <1>6, <2>1, <2>2, <2>3 DEF Done
  <1>8. QED
    BY <1>1, <1>2, <1>5, <1>7

LEMMA CallerKeeps == IInv /\ CallerStep => IInv'
  <1> SUFFICES ASSUME IInv, CallerStep PROVE IInv'
    OBVIOUS
  <1>1. ASSUME NEW c \in Caller, NEW s \in Target, Begin(c, s) PROVE IInv'
    BY <1>1, TurnKeeps, RpcAssumption DEF Begin, IInv, TypeOK, Counted
  <1>2. ASSUME NEW c \in Caller, Wake(c) PROVE IInv'
    BY <1>2, TurnKeeps, RpcAssumption DEF Wake, IInv, TypeOK, Counted
  <1>3. ASSUME NEW c \in Caller, Breaks(c) PROVE IInv'
    BY <1>3, EndKeeps, RpcAssumption DEF Breaks, Fails, IInv, TypeOK, Outcome, Failure, network
  <1>4. ASSUME NEW c \in Caller, TimesOut(c) PROVE IInv'
    BY <1>4, EndKeeps, RpcAssumption DEF TimesOut, Armed, Fails, IInv, TypeOK, Outcome, Failure, network
  <1>5. ASSUME NEW r \in replies, Answer(r) PROVE IInv'
    <2> DEFINE c == r.of[1]
               n == r.of[2]
    <2>1. c \in Caller /\ n \in 0..Times /\ r.what \in Outcome /\ r.of = <<c, n>>
      BY RpcAssumption DEF IInv, TypeOK, Reply, Attempt
    <2>2. phase[c] = "waiting" /\ n = attempt[c] /\ Hears(c, n, r.what)
      BY <1>5 DEF Answer, Awaited, Fails
    <2>3. \/ /\ r.what = "value" /\ <<c, n>> \in answered
             /\ phase' = [phase EXCEPT ![c] = "resolved"]
          \/ r.what # "value" /\ Fails(c, n, r.what)
      BY <1>5, <2>1 DEF Answer, IInv, Accounted
    <2>4. replies' \subseteq replies
          /\ UNCHANGED <<serverVars, wire, streams, running, ran, answered, connected, attempt, target>>
      BY <1>5 DEF Answer
    <2>5. QED
      BY <2>1, <2>2, <2>3, <2>4, EndKeeps
  <1>6. ASSUME CloseClient PROVE IInv'
    BY <1>6 DEF CloseClient, IInv, TypeOK, serverVars, network, Begun, Accounted, Counted, Done
  <1>7. QED
    BY <1>1, <1>2, <1>3, <1>4, <1>5, <1>6 DEF CallerStep

LEMMA StepKeeps == IInv /\ [Next]_vars => IInv'
  <1>1. IInv /\ UNCHANGED vars => IInv'
    BY DEF vars, serverVars, network, callers, IInv, TypeOK, Begun, Accounted, Counted, Done
  <1>2. QED
    BY <1>1, ServerKeeps, NetworkKeeps, CallerKeeps DEF Next

LEMMA Invariance == Spec => []IInv
  BY Initially, StepKeeps, PTL DEF Spec

\* What a retried call returns or throws is of its last attempt, and no run of its
\* handler is younger than the one whose value was returned (retry, timeout).
THEOREM LastAttemptDecides == Spec => []OutcomeIsOfLastAttempt
  <1>1. IInv => OutcomeIsOfLastAttempt
    BY DEF IInv, Begun, Done, OutcomeIsOfLastAttempt
  <1>2. QED
    BY <1>1, Invariance, PTL

\* Every reachable state of callers, network and server has its type: no attempt goes
\* beyond what retry() may make.
THEOREM RpcTypes == Spec => []TypeOK
  <1>1. IInv => TypeOK
    BY DEF IInv
  <1>2. QED
    BY <1>1, Invariance, PTL
=============================================================================
