----------------------------- MODULE RabbitDriver -----------------------------
(* The RabbitMQ event driver (src/events/drivers/rabbitmq.ts) under          *)
(* overlapping calls and faults.  connect() fills two fields in two steps,   *)
(* close() empties them behind two awaits, on() and emit() call connect()    *)
(* and read the channel field after it.                                      *)
(*                                                                           *)
(* External, as amqplib behaves towards this code: calls on a closed channel *)
(* or connection reject; closing a connection, or losing it, closes its      *)
(* channel.  What the broker makes of messages is left out.                  *)
EXTENDS Integers, FiniteSets

CONSTANTS Task,      \* callers of the driver, one call at a time each
          Ops,       \* the calls they make
          Faults,    \* what may fail outside the driver
          MaxConn,   \* bound on connections dialled
          MaxSlips   \* bound on overlaps and failures that may cost a connection

ASSUME RabbitAssumption ==
    /\ IsFiniteSet(Task)
    /\ Ops \subseteq {"connect", "on", "onWildcard", "emit", "close"}
    /\ Faults \subseteq {"dial", "channel", "loss"}
    /\ MaxConn \in Nat /\ MaxSlips \in Nat

Null == 0
Conn == 1..MaxConn            \* a connection; its one channel has its number
Field == 0..MaxConn

VARIABLES
    dialled,      \* connections dialled so far
    connection,   \* the driver's connection field
    channel,      \* the driver's channel field
    openConns,    \* connections that are up
    openChans,    \* channels that are up
    call,         \* call[t]: the operation, its await and the object it holds
    slips,        \* history: connects and closes begun while another was under way,
                  \* and channels that could not be opened
    shaken,       \* history: since a lone close() resolved, two calls ran at once with
                  \* one connecting or closing, or a channel failed or was lost
    rejected      \* history: since then, the driver rejected a call

driver == <<connection, channel>>
broker == <<dialled, openConns, openChans>>
history == <<slips, shaken, rejected>>
vars == <<dialled, connection, channel, openConns, openChans, call, slips, shaken, rejected>>

Resting == [op |-> "connect", pc |-> "idle", holds |-> Null]

TypeOK ==
    /\ dialled \in 0..MaxConn
    /\ connection \in Field /\ channel \in Field
    /\ openConns \subseteq 1..dialled /\ openChans \subseteq openConns
    /\ call \in [Task -> [op : {"connect", "on", "onWildcard", "emit", "close"},
                          pc : {"idle", "dialing", "opening", "ready",
                                "exchange", "queue", "binding", "consume",
                                "closingChannel", "closingConnection"},
                          holds : Field]]
    /\ slips \in 0..MaxSlips
    /\ shaken \in BOOLEAN /\ rejected \in BOOLEAN

Init ==
    /\ dialled = 0 /\ connection = Null /\ channel = Null
    /\ openConns = {} /\ openChans = {}
    /\ call = [t \in Task |-> Resting]
    /\ slips = 0 /\ shaken = FALSE /\ rejected = FALSE
-----------------------------------------------------------------------------
Goto(t, pc, c) == call' = [call EXCEPT ![t] = [op |-> @.op, pc |-> pc, holds |-> c]]

\* A call resolves, or fails for what it was given or for the network; it fails by the
\* state the driver is in.
Return(t) == call' = [call EXCEPT ![t] = Resting] /\ UNCHANGED rejected
Reject(t) == call' = [call EXCEPT ![t] = Resting] /\ rejected' = TRUE

Busy(t) == call[t].pc # "idle"
Connecting(t) == call[t].pc \in {"dialing", "opening"}
Closing(t) == call[t].pc \in {"closingChannel", "closingConnection"}

\* Noted as a connect or a close begins.
Overlaps == \E u \in Task : Connecting(u) \/ Closing(u)
Slip == slips < MaxSlips /\ slips' = slips + 1

\* The test connect() makes, and one that is never satisfied.
Unconnected == FALSE
Connected == channel # Null

\* connect(): with a channel there is nothing to do, else dial.
Start(t, op) ==
    /\ ~Busy(t) /\ op \in Ops \ {"close"}
    /\ Connected \/ dialled < MaxConn
    /\ call' = [call EXCEPT ![t] = [op |-> op, holds |-> Null,
           pc |-> IF Connected THEN "ready" ELSE "dialing"]]
    /\ IF ~Connected /\ Overlaps THEN Slip ELSE UNCHANGED slips
    /\ shaken' = (shaken \/ \E u \in Task : Busy(u) /\ (channel = Null \/ Closing(u)))
    /\ UNCHANGED <<driver, broker, rejected>>

\* amqplib.connect resolves: the connection field is overwritten.
Dialled(t) ==
    /\ call[t].pc = "dialing" /\ dialled < MaxConn
    /\ dialled' = dialled + 1
    /\ openConns' = openConns \cup {dialled + 1}
    /\ connection' = dialled + 1
    /\ Goto(t, "opening", dialled + 1)
    /\ UNCHANGED <<channel, openChans, history>>

\* createChannel of the connection this call dialled resolves.
ChannelOpened(t) ==
    /\ call[t].pc = "opening" /\ call[t].holds \in openConns
    /\ openChans' = openChans \cup {call[t].holds}
    /\ channel' = call[t].holds
    /\ Goto(t, "ready", Null)
    /\ UNCHANGED <<connection, dialled, openConns, history>>

\* The import or the dial rejects.
DialFails(t) ==
    /\ call[t].pc = "dialing" /\ "dial" \in Faults
    /\ Return(t)
    /\ UNCHANGED <<driver, broker, slips, shaken>>

\* createChannel rejects on a connection that stays up, and that the field still names.
ChannelFails(t) ==
    /\ call[t].pc = "opening" /\ call[t].holds \in openConns /\ "channel" \in Faults
    /\ Return(t)
    /\ Slip /\ shaken' = TRUE
    /\ UNCHANGED <<driver, broker>>

\* It rejects since the connection was closed or lost meanwhile.
ConnectionGone(t) ==
    /\ call[t].pc = "opening" /\ call[t].holds \notin openConns
    /\ Reject(t)
    /\ UNCHANGED <<driver, broker, slips, shaken>>

\* After `await this.connect()`: a bare connect is done; on and emit read the channel
\* field now, and name the exchange, which refuses a wildcard before the channel is used.
Ready(t) ==
    /\ call[t].pc = "ready"
    /\ CASE call[t].op \in {"connect", "onWildcard"} -> Return(t)
         [] call[t].op \in {"on", "emit"} /\ channel = Null -> Reject(t)
         [] OTHER -> Goto(t, "exchange", channel) /\ UNCHANGED rejected
    /\ UNCHANGED <<driver, broker, slips, shaken>>

\* The awaits of on() on the channel it holds; emit() has the first, and publishes
\* when it is answered.
Await(t, at) == call[t].pc = at /\ call[t].holds \in openChans
Unmoved == UNCHANGED <<driver, broker, slips, shaken>>

AssertExchange(t) ==
    /\ Await(t, "exchange")
    /\ IF call[t].op = "emit" THEN Return(t)
         ELSE Goto(t, "queue", call[t].holds) /\ UNCHANGED rejected
    /\ Unmoved
AssertQueue(t) ==
    Await(t, "queue") /\ Goto(t, "binding", call[t].holds) /\ UNCHANGED rejected /\ Unmoved
BindQueue(t) ==
    Await(t, "binding") /\ Goto(t, "consume", call[t].holds) /\ UNCHANGED rejected /\ Unmoved
Consume(t) == Await(t, "consume") /\ Return(t) /\ Unmoved

\* The channel on() or emit() holds was closed under it, between any two awaits.
ChannelGone(t) ==
    /\ call[t].pc \in {"exchange", "queue", "binding", "consume"}
    /\ call[t].holds \notin openChans
    /\ Reject(t)
    /\ Unmoved
-----------------------------------------------------------------------------
(* close(), and a connection that goes by itself                             *)

\* `await this.channel?.close()` with the channel of now, or with none.
CloseStart(t) ==
    /\ "close" \in Ops /\ ~Busy(t)
    /\ call' = [call EXCEPT ![t] =
           [op |-> "close", pc |-> "closingChannel", holds |-> channel]]
    /\ IF Overlaps THEN Slip ELSE UNCHANGED slips
    /\ shaken' = (shaken \/ \E u \in Task : Busy(u))
    /\ UNCHANGED <<driver, broker, rejected>>

\* The channel is closed; `this.connection?.close()` with the connection of now.
ChannelClosed(t) ==
    /\ call[t].pc = "closingChannel"
    /\ call[t].holds \in openChans \cup {Null}
    /\ openChans' = openChans \ {call[t].holds}
    /\ Goto(t, "closingConnection", connection)
    /\ UNCHANGED <<driver, dialled, openConns, history>>

\* The connection is closed and both fields are emptied; a faulty close empties
\* only the connection.
ForgetConnection == connection' = Null /\ UNCHANGED channel
ForgetFields == connection' = Null /\ channel' = Null

Disconnect(c) ==
    /\ openConns' = openConns \ {c}
    /\ openChans' = openChans \ {c}

ConnectionClosed(t) ==
    /\ call[t].pc = "closingConnection"
    /\ call[t].holds \in openConns \cup {Null}
    /\ Disconnect(call[t].holds)
    /\ ForgetFields
    /\ call' = [call EXCEPT ![t] = Resting]
    /\ LET alone == \A u \in Task \ {t} : ~Busy(u)
       IN  shaken' = (shaken /\ ~alone) /\ rejected' = (rejected /\ ~alone)
    /\ UNCHANGED <<dialled, slips>>

\* Closing what is closed already rejects: close() rejects where it is and the fields
\* stay.
CloseRejects(t) ==
    /\ \/ call[t].pc = "closingChannel" /\ call[t].holds \notin openChans \cup {Null}
       \/ call[t].pc = "closingConnection" /\ call[t].holds \notin openConns \cup {Null}
    /\ Reject(t)
    /\ Unmoved

\* The broker or the network ends a connection; nothing tells the driver, which keeps
\* the channel in its field, so that connect() has nothing to do.
Loss(c) ==
    /\ "loss" \in Faults /\ c \in openConns
    /\ Disconnect(c)
    /\ shaken' = TRUE
    /\ UNCHANGED <<driver, dialled, call, slips, rejected>>

Step(t) ==
    \/ \E op \in Ops : Start(t, op)
    \/ Dialled(t) \/ ChannelOpened(t) \/ DialFails(t) \/ ChannelFails(t) \/ ConnectionGone(t)
    \/ Ready(t) \/ AssertExchange(t) \/ AssertQueue(t) \/ BindQueue(t) \/ Consume(t)
    \/ ChannelGone(t)
    \/ CloseStart(t) \/ ChannelClosed(t) \/ ConnectionClosed(t) \/ CloseRejects(t)

Next == (\E t \in Task : Step(t)) \/ \E c \in Conn : Loss(c)

Spec == Init /\ [][Next]_vars
-----------------------------------------------------------------------------
(* Properties                                                                *)

Quiet == \A t \in Task : ~Busy(t)

\* A connection that is up and that the driver's field does not name is one close()
\* will never reach.  However calls overlap and fail and connections are lost, each
\* connect or close that begins while another is under way costs one of them at most,
\* and so does each channel that could not be opened on a connection that was dialled.
OrphansAreSlips == Cardinality(openConns \ {connection}) <= slips

\* Since the last close() that resolved alone, and as long as no call overlaps a connect
\* or a close and no channel fails or is lost: no call is rejected but for its own dial
\* or a wildcard, and between calls the two fields are both empty or both hold something
\* that works.  Such a close() mends the driver whatever happened before it.
FieldsUsable ==
    ~shaken =>
        /\ ~rejected
        /\ Quiet => /\ channel = connection
                    /\ channel # Null => channel \in openChans
=============================================================================
