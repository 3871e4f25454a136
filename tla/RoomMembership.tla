--------------------------- MODULE RoomMembership ---------------------------
(* What rooms promise (src/ws/server.ts), with one relation in place of the  *)
(* two records the code keeps, no server and no members who are not clients: *)
(* a client hears what is sent to a room exactly if it entered, has not left *)
(* and is connected.                                                         *)
EXTENDS Integers

CONSTANTS Client, Room

VARIABLES present,   \* the registered clients
          hearing,   \* those whose socket is open
          member,    \* who is in which room
          heard      \* the last emit: its room, none for all, and who heard it

mvars == <<present, hearing, member, heard>>

MInit ==
    /\ present = {} /\ hearing = {} /\ member = {}
    /\ heard = [to |-> {}, by |-> {}]

Come(c) ==
    /\ c \notin present
    /\ present' = present \cup {c} /\ hearing' = hearing \cup {c}
    /\ UNCHANGED <<member, heard>>

Enter(c, r) ==
    /\ c \in present
    /\ member' = member \cup {<<c, r>>}
    /\ UNCHANGED <<present, hearing, heard>>

Exit(c, r) ==
    /\ member' = member \ {<<c, r>>}
    /\ UNCHANGED <<present, hearing, heard>>

FallSilent(c) ==
    /\ hearing' = hearing \ {c}
    /\ UNCHANGED <<present, member, heard>>

\* Who goes is in no room from then on.
Go(c) ==
    /\ c \notin hearing
    /\ present' = present \ {c}
    /\ member' = {m \in member : m[1] # c}
    /\ UNCHANGED <<hearing, heard>>

Send(to) ==
    /\ heard' = [to |-> to,
                 by |-> {c \in hearing : to = {} \/ \E r \in to : <<c, r>> \in member}]
    /\ UNCHANGED <<present, hearing, member>>

MNext ==
    \/ \E c \in Client : Come(c) \/ FallSilent(c) \/ Go(c)
    \/ \E c \in Client, r \in Room : Enter(c, r) \/ Exit(c, r)
    \/ \E to \in {{}} \cup {{r} : r \in Room} : Send(to)

MSpec == MInit /\ [][MNext]_mvars
=============================================================================
