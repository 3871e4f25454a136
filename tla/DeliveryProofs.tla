--------------------------- MODULE DeliveryProofs ---------------------------
(* What holds of the RabbitMQ driver (RabbitDriver) and of the hooks that   *)
(* are subscribed to the bus (HookWiring), for any tasks, hooks and lists.  *)
EXTENDS RabbitDriver, SequenceTheorems, HookWiring, FiniteSetTheorems, TLAPS

-----------------------------------------------------------------------------
(* RabbitDriver                                                             *)

Moves == {"dialing", "opening", "closingChannel", "closingConnection"}
Stages == {"exchange", "queue", "binding", "consume"}
Works(c) == c # Null => c \in openChans

\* Unless shaken: a call that connects or closes is alone and knows the fields, and any
\* other finds a channel that works.
Calm ==
    ~shaken =>
        /\ ~rejected
        /\ \A t, u \in Task : call[t].pc \in Moves /\ t # u => ~Busy(u)
        /\ \A t \in Task :
              /\ call[t].pc = "dialing" => connection = Null /\ channel = Null
              /\ call[t].pc = "opening" => /\ connection = call[t].holds /\ channel = Null
                                           /\ connection \in openConns
              /\ call[t].pc = "ready" => channel # Null
              /\ call[t].pc \in Stages => call[t].holds = channel /\ channel # Null
              /\ call[t].pc = "closingChannel" => call[t].holds = channel
              /\ call[t].pc = "closingConnection" =>
                    /\ call[t].holds = connection /\ channel = connection
                    /\ connection \in openConns \cup {Null}
        /\ (\A t \in Task : call[t].pc \notin {"dialing", "opening", "closingConnection"}) =>
              channel = connection /\ Works(channel)

\* How many connections the calls under way may yet leave behind, given those that dial:
\* each that dials, if a close() that found no connection to close forgets what they
\* leave in the field; one less than there will be, if nobody closes; and the one in the
\* field, if it is up and nobody opens a channel on it.
Dialing == {t \in Task : call[t].pc = "dialing"}
Orphans == openConns \ {connection}
Up == connection \in openConns
Stranded == Up /\ channel = Null /\ \A t \in Task : call[t].pc = "opening" => call[t].holds # connection
Closers == \E t \in Task : Closing(t)
Forgetting == \E t \in Task : call[t].pc = "closingConnection" /\ call[t].holds = Null
One(b) == IF b THEN 1 ELSE 0
AtStake(d) == IF Forgetting THEN d + One(Up)
              ELSE IF d = 0 THEN One(Stranded)
              ELSE IF Closers THEN d ELSE d + One(Up) - 1

\* What is lost and what may be lost is paid for.
Paid == Cardinality(Orphans) + AtStake(Cardinality(Dialing)) <= slips

RabbitInv == TypeOK /\ Calm /\ Paid

-----------------------------------------------------------------------------
Op == {"connect", "on", "onWildcard", "emit", "close"}
Pc == {"idle", "ready"} \cup Moves \cup Stages
Call == [op : Op, pc : Pc, holds : Field]

\* The rest of a type: the calls are seen to apart.
Fields ==
    /\ dialled \in 0..MaxConn
    /\ connection \in Field /\ channel \in Field
    /\ openConns \subseteq 1..dialled /\ openChans \subseteq openConns
    /\ slips \in 0..MaxSlips
    /\ shaken \in BOOLEAN /\ rejected \in BOOLEAN

\* The type invariant in parts, now and in the next state.
LEMMA TypeParts == TypeOK <=> Fields /\ call \in [Task -> Call]
  BY DEF TypeOK, Fields, Call, Op, Pc, Moves, Stages

LEMMA TypePartsNext == TypeOK' <=> Fields' /\ call' \in [Task -> Call]
  BY DEF TypeOK, Fields, Call, Op, Pc, Moves, Stages

\* A resting call is one.
LEMMA Rests == Resting \in Call /\ Resting.pc = "idle"
  BY RabbitAssumption DEF Resting, Field, Null, Call, Op, Pc

\* Where a call is after a step of it, and the others.
LEMMA Moved ==
    ASSUME TypeOK, NEW t \in Task, NEW c \in Call, call' = [call EXCEPT ![t] = c]
    PROVE  /\ call' \in [Task -> Call] /\ call'[t] = c
           /\ \A u \in Task \ {t} : call'[u] = call[u]
  BY TypeParts

\* The same of a call that goes on to its next await.
LEMMA Gone ==
    ASSUME TypeOK, NEW t \in Task, NEW pc \in Pc, NEW c \in Field, Goto(t, pc, c)
    PROVE  \E r \in Call : call' = [call EXCEPT ![t] = r] /\ r.pc = pc /\ r.holds = c /\ r.op = call[t].op
  <1>1. [op |-> call[t].op, pc |-> pc, holds |-> c] \in Call
    BY TypeParts DEF Call
  <1>2. QED
    BY <1>1 DEF Goto

-----------------------------------------------------------------------------
(* The account                                                              *)

\* The tasks that dial and the orphans can be counted.
LEMMA Countable ==
    ASSUME TypeOK
    PROVE  /\ IsFiniteSet(Dialing) /\ Cardinality(Dialing) \in Nat
           /\ IsFiniteSet(openConns) /\ IsFiniteSet(Orphans) /\ Cardinality(Orphans) \in Nat
           /\ Null \notin openConns
           /\ Cardinality(Dialing) = 0 <=> Dialing = {}
           /\ slips \in Nat
  <1>1. IsFiniteSet(Dialing) /\ Cardinality(Dialing) \in Nat
    BY RabbitAssumption, FS_Subset, FS_CardinalityType DEF Dialing
  <1>2. openConns \subseteq 1..MaxConn /\ IsFiniteSet(1..MaxConn)
    BY RabbitAssumption, FS_Interval DEF TypeOK
  <1>3. IsFiniteSet(openConns)
    BY <1>2, FS_Subset
  <1>4. IsFiniteSet(Orphans)
    BY <1>3, FS_Subset DEF Orphans
  <1>5. Cardinality(Orphans) \in Nat
    BY <1>4, FS_CardinalityType
  <1>6. Cardinality(Dialing) = 0 <=> Dialing = {}
    BY <1>1, FS_EmptySet
  <1>7. Null \notin openConns
    BY <1>2 DEF Null
  <1>8. QED
    BY <1>1, <1>3, <1>4, <1>5, <1>6, <1>7 DEF TypeOK

\* One dials more, or one less, or as many.
LEMMA Dials ==
    ASSUME TypeOK, NEW t \in Task, NEW c \in Call, call' = [call EXCEPT ![t] = c]
    PROVE  Cardinality(Dialing)' = Cardinality(Dialing) + One(c.pc = "dialing") - One(call[t].pc = "dialing")
  <1>1. call'[t] = c /\ \A u \in Task \ {t} : call'[u] = call[u]
    BY Moved
  <1>2. IsFiniteSet(Dialing) /\ Cardinality(Dialing) \in Nat
    BY Countable
  <1>3. CASE (c.pc = "dialing") = (call[t].pc = "dialing")
    <2>1. Dialing' = Dialing
      BY <1>1, <1>3 DEF Dialing
    <2>2. QED
      BY <1>2, <1>3, <2>1 DEF One
  <1>4. CASE c.pc = "dialing" /\ call[t].pc # "dialing"
    <2>1. Dialing' = Dialing \cup {t} /\ t \notin Dialing
      BY <1>1, <1>4 DEF Dialing
    <2>2. Cardinality(Dialing \cup {t}) = Cardinality(Dialing) + 1
      BY <1>2, <2>1, FS_AddElement
    <2>3. QED
      BY <1>2, <1>4, <2>1, <2>2 DEF One
  <1>5. CASE c.pc # "dialing" /\ call[t].pc = "dialing"
    <2>1. Dialing' = Dialing \ {t} /\ t \in Dialing
      BY <1>1, <1>5 DEF Dialing
    <2>2. Cardinality(Dialing \ {t}) = Cardinality(Dialing) - 1
      BY <1>2, <2>1, FS_RemoveElement
    <2>3. QED
      BY <1>2, <1>5, <2>1, <2>2 DEF One
  <1>6. QED
    BY <1>3, <1>4, <1>5

\* Who dials is counted.
LEMMA Dialer ==
    ASSUME TypeOK, NEW t \in Task, call[t].pc = "dialing"
    PROVE  Cardinality(Dialing) >= 1
  <1>1. Dialing # {}
    BY DEF Dialing
  <1>2. QED
    BY <1>1, Countable

\* A step within calls that neither connect nor close.
LEMMA PaidAside ==
    ASSUME TypeOK, Paid, NEW t \in Task, NEW c \in Call, call' = [call EXCEPT ![t] = c],
           call[t].pc \notin Moves, c.pc \notin Moves, UNCHANGED <<driver, broker, slips>>
    PROVE  Paid'
  <1>1. call'[t] = c /\ \A u \in Task \ {t} : call'[u] = call[u]
    BY Moved
  <1>2. Cardinality(Dialing)' = Cardinality(Dialing)
    <2>1. Cardinality(Dialing)' = Cardinality(Dialing) + One(c.pc = "dialing") - One(call[t].pc = "dialing")
      BY Dials
    <2>2. Cardinality(Dialing) \in Nat
      BY Countable
    <2>3. QED
      BY <2>1, <2>2 DEF Moves, One
  <1>3. Cardinality(Orphans)' = Cardinality(Orphans) /\ Up' = Up
    BY DEF Orphans, Up, driver, broker
  <1>4. (Stranded' <=> Stranded) /\ (Closers' <=> Closers) /\ (Forgetting' <=> Forgetting)
    BY <1>1, <1>3 DEF Stranded, Closers, Closing, Forgetting, Moves, driver, broker
  <1>5. QED
    BY <1>2, <1>3, <1>4 DEF Paid, AtStake, One

-----------------------------------------------------------------------------
(* A step per action                                                        *)

\* Steps within calls that neither connect nor close.
LEMMA RabbitAside ==
    ASSUME RabbitInv, NEW t \in Task, NEW c \in Call, call' = [call EXCEPT ![t] = c],
           call[t].pc \notin Moves, c.pc \notin Moves, UNCHANGED <<driver, broker, slips>>,
           rejected' \in BOOLEAN, shaken' \in BOOLEAN, shaken => shaken',
           ~shaken' => /\ ~rejected'
                       /\ c.pc # "idle" => \A u \in Task : call[u].pc \notin Moves
                       /\ c.pc = "ready" => channel # Null
                       /\ c.pc \in Stages => c.holds = channel /\ channel # Null
    PROVE  RabbitInv'
  <1>1. /\ call' \in [Task -> Call] /\ call'[t] = c
        /\ \A u \in Task \ {t} : call'[u] = call[u]
    BY Moved DEF RabbitInv
  <1>2. TypeOK'
    BY <1>1, TypeParts, TypePartsNext DEF RabbitInv, Fields, driver, broker
  <1>3. Calm'
    BY <1>1 DEF RabbitInv, Calm, Works, Busy, Moves, Stages, driver, broker
  <1>4. Paid'
    BY PaidAside DEF RabbitInv
  <1>5. QED
    BY <1>2, <1>3, <1>4 DEF RabbitInv

\* connect(): dials unless there is a channel.
LEMMA RabbitStart == ASSUME RabbitInv, NEW t \in Task, NEW op \in Ops, Start(t, op) PROVE RabbitInv'
  <1> DEFINE c == [op |-> op, pc |-> IF Connected THEN "ready" ELSE "dialing", holds |-> Null]
  <1>1. c \in Call /\ c.pc = IF Connected THEN "ready" ELSE "dialing"
    BY RabbitAssumption DEF Call, Op, Pc, Moves, Field, Null
  <1>2. /\ call' = [call EXCEPT ![t] = c] /\ call[t].pc = "idle"
        /\ UNCHANGED <<driver, broker, rejected>>
        /\ shaken' = (shaken \/ \E u \in Task : Busy(u) /\ (channel = Null \/ Closing(u)))
        /\ IF ~Connected /\ Overlaps THEN Slip ELSE UNCHANGED slips
    BY DEF Start, Busy
  <1> HIDE DEF c
  <1>3. /\ call' \in [Task -> Call] /\ call'[t] = c
        /\ \A u \in Task \ {t} : call'[u] = call[u]
    BY <1>1, <1>2, Moved DEF RabbitInv
  <1>4. TypeOK /\ Calm /\ Paid /\ shaken' \in BOOLEAN /\ slips' \in 0..MaxSlips
    BY <1>2, RabbitAssumption DEF RabbitInv, TypeOK, Slip
  <1>5. CASE Connected
    <2>1. ~shaken' => \A u \in Task : call[u].pc \notin Moves
      BY <1>2, <1>4, <1>5 DEF Calm, Moves, Busy, Closing, Connected
    <2>2. call[t].pc \notin Moves /\ c.pc \notin Moves /\ c.pc = "ready"
      BY <1>1, <1>2, <1>5 DEF Moves
    <2>3. ~shaken' => ~rejected' /\ channel # Null
      BY <1>2, <1>4, <1>5 DEF Calm, Connected
    <2>4. rejected' \in BOOLEAN /\ UNCHANGED slips /\ c.pc \notin Stages
      BY <1>2, <1>4, <1>5, <2>2 DEF TypeOK, Stages
    <2>5. QED
      BY <1>1, <1>2, <1>4, <2>1, <2>2, <2>3, <2>4, RabbitAside
  <1>6. CASE ~Connected
    <2>1. TypeOK'
      BY <1>2, <1>3, <1>4, TypeParts, TypePartsNext DEF Fields, driver, broker
    <2>2. Calm'
      <3>1. c.pc = "dialing" /\ channel = Null
        BY <1>1, <1>6 DEF Connected
      <3>2. ~shaken' => \A u \in Task : ~Busy(u)
        BY <1>2, <3>1
      <3>3. ~shaken' => ~shaken /\ connection = Null
        BY <1>2, <1>4, <3>1, <3>2 DEF Calm, Busy
      <3>4. QED
        BY <1>2, <1>3, <1>4, <3>1, <3>2, <3>3 DEF Calm, Works, Busy, Moves, Stages, driver, broker
    <2>3. Paid'
      <3>1. c.pc = "dialing" /\ channel = Null
        BY <1>1, <1>6 DEF Connected
      <3>2. Cardinality(Dialing)' = Cardinality(Dialing) + 1 /\ Cardinality(Dialing) \in Nat
        <4>1. Cardinality(Dialing)' = Cardinality(Dialing) + One(c.pc = "dialing") - One(call[t].pc = "dialing")
          BY <1>1, <1>2, <1>4, Dials
        <4>2. QED
          BY <1>2, <1>4, <3>1, <4>1, Countable DEF One
      <3>3. Cardinality(Orphans)' = Cardinality(Orphans) /\ Up' = Up /\ Cardinality(Orphans) \in Nat
        BY <1>2, <1>4, Countable DEF Orphans, Up, driver, broker
      <3>4. (Closers' <=> Closers) /\ (Forgetting' <=> Forgetting)
        BY <1>2, <1>3, <3>1 DEF Closers, Closing, Forgetting
      <3>5. slips \in Nat /\ slips' = slips + One(Overlaps)
        BY <1>2, <1>4, <1>6, Countable DEF Slip, One
      <3>6. ~Overlaps => /\ ~Closers /\ ~Forgetting /\ Cardinality(Dialing) = 0
                         /\ Stranded = Up
        <4>1. ~Overlaps => Dialing = {} /\ ~Closers /\ ~Forgetting
          BY DEF Overlaps, Connecting, Closing, Closers, Forgetting, Dialing
        <4>2. ~Overlaps => (Stranded <=> Up)
          BY <3>1 DEF Overlaps, Connecting, Stranded
        <4>3. QED
          BY <1>4, <4>1, <4>2, Countable DEF Stranded, Up
      <3>7. QED
        BY <1>4, <3>2, <3>3, <3>4, <3>5, <3>6 DEF Paid, AtStake, One
    <2>4. QED
      BY <2>1, <2>2, <2>3 DEF RabbitInv
  <1>7. QED
    BY <1>5, <1>6

\* Reading the field after connect(), and each await of on() and emit().
LEMMA RabbitReady == ASSUME RabbitInv, NEW t \in Task, Ready(t) PROVE RabbitInv'
  <1>1. TypeOK /\ Calm /\ call[t].pc = "ready" /\ UNCHANGED <<driver, broker, slips, shaken>>
    BY DEF RabbitInv, Ready
  <1>2. /\ shaken' \in BOOLEAN /\ channel \in Field /\ call[t].pc \notin Moves
        /\ ~shaken => ~rejected /\ channel # Null /\ \A u \in Task : call[u].pc \notin Moves
    BY <1>1 DEF TypeOK, Calm, Moves, Busy
  <1>3. CASE Return(t)
    BY <1>1, <1>2, <1>3, Rests, RabbitAside DEF Return, Moves, Stages, TypeOK
  <1>4. CASE Reject(t) /\ channel = Null
    BY <1>1, <1>2, <1>4, Rests, RabbitAside DEF Reject, Moves, Stages
  <1>5. CASE Goto(t, "exchange", channel) /\ UNCHANGED rejected
    <2>1. PICK r \in Call : call' = [call EXCEPT ![t] = r] /\ r.pc = "exchange" /\ r.holds = channel
      BY <1>1, <1>2, <1>5, Gone DEF Pc, Stages
    <2>2. r.pc \notin Moves /\ r.pc # "ready"
      BY <2>1 DEF Moves
    <2>3. QED
      BY <1>1, <1>2, <1>5, <2>1, <2>2, RabbitAside DEF TypeOK
  <1>6. QED
    BY <1>3, <1>4, <1>5 DEF Ready

LEMMA RabbitAwaits ==
    ASSUME RabbitInv, NEW t \in Task,
           AssertExchange(t) \/ AssertQueue(t) \/ BindQueue(t) \/ Consume(t) \/ ChannelGone(t)
    PROVE  RabbitInv'
  <1>1. TypeOK /\ Calm /\ call[t].pc \in Stages /\ UNCHANGED <<driver, broker, slips, shaken>>
    BY DEF RabbitInv, AssertExchange, AssertQueue, BindQueue, Consume, ChannelGone, Await, Unmoved, Stages
  <1>2. /\ shaken' \in BOOLEAN /\ call[t].holds \in Field /\ call[t].pc \notin Moves /\ rejected \in BOOLEAN
        /\ ~shaken => /\ ~rejected /\ \A u \in Task : call[u].pc \notin Moves
                      /\ call[t].holds = channel /\ channel # Null
    BY <1>1, TypeParts DEF Fields, Call, Calm, Moves, Busy, Stages
  <1>3. CASE Return(t)
    BY <1>1, <1>2, <1>3, Rests, RabbitAside DEF Return, Moves, Stages
  <1>4. CASE ChannelGone(t)
    <2>1. ~shaken => channel = connection /\ Works(channel)
      BY <1>1, <1>2 DEF Calm, Moves
    <2>2. shaken
      BY <1>2, <1>4, <2>1 DEF ChannelGone, Works
    <2>3. QED
      BY <1>1, <1>2, <1>4, <2>2, Rests, RabbitAside DEF ChannelGone, Reject, Moves, Stages
  <1>5. ASSUME NEW pc \in Stages, Goto(t, pc, call[t].holds), UNCHANGED rejected PROVE RabbitInv'
    <2>0. pc \in Pc
      BY DEF Pc
    <2>1. PICK r \in Call : call' = [call EXCEPT ![t] = r] /\ r.pc = pc /\ r.holds = call[t].holds
      BY <1>1, <1>2, <1>5, <2>0, Gone
    <2>2. r.pc \notin Moves /\ r.pc # "ready"
      BY <2>1 DEF Moves, Stages
    <2>3. QED
      BY <1>1, <1>2, <1>5, <2>1, <2>2, RabbitAside
  <1>6. QED
    BY <1>3, <1>4, <1>5 DEF AssertExchange, AssertQueue, BindQueue, Consume, Stages

\* The connection is there, and its field names it.
LEMMA RabbitDialled == ASSUME RabbitInv, NEW t \in Task, Dialled(t) PROVE RabbitInv'
  <1> DEFINE n == dialled + 1
  <1>0. TypeOK /\ Calm /\ Paid /\ n \in Conn /\ n \in Field /\ n # Null /\ n \notin openConns /\ "opening" \in Pc
    BY RabbitAssumption DEF RabbitInv, Dialled, TypeOK, Conn, Field, Null, Pc, Moves
  <1>1. PICK c \in Call : call' = [call EXCEPT ![t] = c] /\ c.pc = "opening" /\ c.holds = n
    BY <1>0, Gone DEF Dialled
  <1>2. /\ call' \in [Task -> Call] /\ call'[t] = c
        /\ \A u \in Task \ {t} : call'[u] = call[u]
    BY <1>0, <1>1, Moved
  <1>3. /\ call[t].pc = "dialing" /\ dialled' = n /\ openConns' = openConns \cup {n} /\ connection' = n
        /\ UNCHANGED <<channel, openChans, slips, shaken, rejected>>
    BY DEF Dialled, history
  <1>4. n \in 0..MaxConn /\ openConns' \subseteq 1..n
    <2>1. dialled \in Nat /\ n \in 1..n /\ openConns \subseteq 1..dialled /\ 1..dialled \subseteq 1..n
      BY <1>0, RabbitAssumption DEF TypeOK
    <2>2. QED
      BY <1>0, <1>3, <2>1 DEF Field
  <1> HIDE DEF n
  <1>5. TypeOK'
    BY <1>0, <1>2, <1>3, <1>4, TypeParts, TypePartsNext DEF Fields
  <1>6. Calm'
    BY <1>0, <1>1, <1>2, <1>3 DEF Calm, Works, Busy, Moves, Stages
  <1>7. Paid'
    <2>1. Cardinality(Dialing)' = Cardinality(Dialing) - 1 /\ Cardinality(Dialing) \in Nat /\ Cardinality(Dialing) >= 1
      <3>1. Cardinality(Dialing)' = Cardinality(Dialing) + One(c.pc = "dialing") - One(call[t].pc = "dialing")
        BY <1>0, <1>1, Dials
      <3>2. QED
        BY <1>0, <1>1, <1>3, <3>1, Countable, Dialer DEF One
    <2>2. Cardinality(Orphans)' = Cardinality(Orphans) + One(Up) /\ Cardinality(Orphans) \in Nat
      <3>1. Orphans' = openConns
        BY <1>0, <1>3 DEF Orphans
      <3>2. CASE Up
        <4>1. openConns = Orphans \cup {connection} /\ connection \notin Orphans
          BY <3>2 DEF Up, Orphans
        <4>2. QED
          BY <1>0, <3>1, <3>2, <4>1, Countable, FS_AddElement DEF One
      <3>3. CASE ~Up
        <4>1. openConns = Orphans
          BY <3>3 DEF Up, Orphans
        <4>2. QED
          BY <1>0, <3>1, <3>3, <4>1, Countable DEF One
      <3>4. QED
        BY <3>2, <3>3
    <2>3. Up' /\ ~Stranded'
      BY <1>1, <1>2, <1>3 DEF Up, Stranded
    <2>4. (Closers' <=> Closers) /\ (Forgetting' <=> Forgetting) /\ (Forgetting => Closers)
      BY <1>1, <1>2, <1>3 DEF Closers, Closing, Forgetting
    <2>5. slips' = slips /\ slips \in Nat
      BY <1>0, <1>3, Countable
    <2>6. QED
      BY <1>0, <2>1, <2>2, <2>3, <2>4, <2>5 DEF Paid, AtStake, One
  <1>8. QED
    BY <1>5, <1>6, <1>7 DEF RabbitInv

\* A call that was connecting or closing is over, or past connecting, the field of the
\* connection is as it was, and no more connections are up: nothing is at stake that was
\* not, unless a connection is left in the field.
LEMMA PaidLater ==
    ASSUME TypeOK, Paid, NEW t \in Task, NEW c \in Call, call' = [call EXCEPT ![t] = c],
           c.pc \in {"idle", "ready"}, UNCHANGED <<connection, openConns>>, slips' \in Nat,
           slips' >= slips + One(Stranded' /\ ~Stranded)
    PROVE  Paid'
  <1>1. call'[t] = c /\ \A u \in Task \ {t} : call'[u] = call[u]
    BY Moved
  <1>2. Cardinality(Dialing)' = Cardinality(Dialing) - One(call[t].pc = "dialing")
    <2>1. Cardinality(Dialing)' = Cardinality(Dialing) + One(c.pc = "dialing") - One(call[t].pc = "dialing")
      BY Dials
    <2>2. QED
      BY <2>1, Countable DEF One
  <1>3. Cardinality(Dialing) \in Nat /\ Cardinality(Dialing)' \in Nat /\ slips \in Nat
    BY <1>2, Countable, Dialer DEF One
  <1>4. /\ Cardinality(Orphans)' = Cardinality(Orphans) /\ Cardinality(Orphans) \in Nat
        /\ Up' = Up /\ (Stranded => Up) /\ (Stranded' => Up)
    BY Countable DEF Orphans, Up, Stranded
  <1>5. (Closers' => Closers) /\ (Forgetting' => Forgetting) /\ (Forgetting => Closers)
    BY <1>1 DEF Closers, Closing, Forgetting
  <1>6. QED
    BY <1>2, <1>3, <1>4, <1>5 DEF Paid, AtStake, One

\* The channel is there.
LEMMA RabbitChannelOpened == ASSUME RabbitInv, NEW t \in Task, ChannelOpened(t) PROVE RabbitInv'
  <1>0. TypeOK /\ Calm /\ Paid /\ Null \in Field /\ "ready" \in Pc
    BY RabbitAssumption DEF RabbitInv, Field, Null, Pc
  <1>1. PICK c \in Call : call' = [call EXCEPT ![t] = c] /\ c.pc = "ready"
    BY <1>0, Gone DEF ChannelOpened
  <1>2. /\ call' \in [Task -> Call] /\ call'[t] = c
        /\ \A u \in Task \ {t} : call'[u] = call[u]
    BY <1>0, <1>1, Moved
  <1>3. /\ call[t].pc = "opening" /\ call[t].holds \in openConns /\ channel' = call[t].holds
        /\ openChans' = openChans \cup {call[t].holds}
        /\ UNCHANGED <<connection, dialled, openConns, slips, shaken, rejected>>
    BY DEF ChannelOpened, history
  <1>4. call[t].holds \in Field /\ call[t].holds # Null
    BY <1>0, <1>3, TypeParts, Countable DEF Call
  <1>5. TypeOK'
    BY <1>0, <1>2, <1>3, <1>4, TypeParts, TypePartsNext DEF Fields
  <1>6. Calm'
    BY <1>0, <1>1, <1>2, <1>3, <1>4 DEF Calm, Works, Busy, Moves, Stages
  <1>7. Paid'
    <2>1. ~Stranded'
      BY <1>3, <1>4 DEF Stranded
    <2>2. slips' \in Nat /\ slips' >= slips + One(Stranded' /\ ~Stranded)
      BY <1>0, <1>3, <2>1, Countable DEF One
    <2>3. QED
      BY <1>0, <1>1, <1>3, <2>2, PaidLater
  <1>8. QED
    BY <1>5, <1>6, <1>7 DEF RabbitInv

\* The dial rejects, and leaves things as they were.
LEMMA RabbitDialFails == ASSUME RabbitInv, NEW t \in Task, DialFails(t) PROVE RabbitInv'
  <1>0. TypeOK /\ Calm /\ Paid
    BY DEF RabbitInv
  <1>1. /\ call[t].pc = "dialing" /\ call' = [call EXCEPT ![t] = Resting]
        /\ UNCHANGED <<driver, broker, slips, shaken, rejected>>
    BY DEF DialFails, Return
  <1>2. /\ call' \in [Task -> Call] /\ call'[t] = Resting
        /\ \A u \in Task \ {t} : call'[u] = call[u]
    BY <1>0, <1>1, Rests, Moved
  <1>3. TypeOK'
    BY <1>0, <1>1, <1>2, TypeParts, TypePartsNext DEF Fields, driver, broker
  <1>4. Calm'
    BY <1>0, <1>1, <1>2, Rests DEF Calm, Works, Busy, Moves, Stages, driver, broker
  <1>5. Paid'
    <2>1. Stranded' <=> Stranded
      BY <1>1, <1>2, Rests DEF Stranded, Up, driver, broker
    <2>2. slips' \in Nat /\ slips' >= slips + One(Stranded' /\ ~Stranded)
      BY <1>0, <1>1, <2>1, Countable DEF One
    <2>3. UNCHANGED <<connection, openConns>>
      BY <1>1 DEF driver, broker
    <2>4. QED
      BY <1>0, <1>1, <2>2, <2>3, Rests, PaidLater
  <1>6. QED
    BY <1>3, <1>4, <1>5 DEF RabbitInv

\* No channel can be opened: the connection is left in the field, which is noted.
LEMMA RabbitChannelFails == ASSUME RabbitInv, NEW t \in Task, ChannelFails(t) PROVE RabbitInv'
  <1>0. TypeOK /\ Calm /\ Paid
    BY DEF RabbitInv
  <1>1. /\ call' = [call EXCEPT ![t] = Resting] /\ slips' = slips + 1 /\ slips < MaxSlips
        /\ shaken' = TRUE /\ UNCHANGED <<driver, broker, rejected>>
    BY DEF ChannelFails, Return, Slip
  <1>2. call' \in [Task -> Call]
    BY <1>0, <1>1, Rests, Moved
  <1>3. TypeOK'
    <2>1. slips' \in 0..MaxSlips
      BY <1>0, <1>1, RabbitAssumption DEF TypeOK
    <2>2. QED
      BY <1>0, <1>1, <1>2, <2>1, TypeParts, TypePartsNext DEF Fields, driver, broker
  <1>4. Paid'
    <2>1. slips' \in Nat /\ slips' >= slips + One(Stranded' /\ ~Stranded)
      BY <1>0, <1>1, Countable DEF One
    <2>2. UNCHANGED <<connection, openConns>>
      BY <1>1 DEF driver, broker
    <2>3. QED
      BY <1>0, <1>1, <2>1, <2>2, Rests, PaidLater
  <1>5. QED
    BY <1>1, <1>3, <1>4 DEF RabbitInv, Calm

\* A call finds gone what it holds: only when shaken.
LEMMA RabbitGone == ASSUME RabbitInv, NEW t \in Task, ConnectionGone(t) \/ CloseRejects(t) PROVE RabbitInv'
  <1>0. TypeOK /\ Calm /\ Paid
    BY DEF RabbitInv
  <1>1. /\ call[t].pc \in {"opening", "closingChannel", "closingConnection"}
        /\ call' = [call EXCEPT ![t] = Resting] /\ rejected' = TRUE
        /\ UNCHANGED <<driver, broker, slips, shaken>>
    BY DEF ConnectionGone, CloseRejects, Reject, Unmoved
  <1>2. /\ call' \in [Task -> Call] /\ call'[t] = Resting
        /\ \A u \in Task \ {t} : call'[u] = call[u]
    BY <1>0, <1>1, Rests, Moved
  <1>3. shaken
    <2>1. CASE ConnectionGone(t)
      BY <1>0, <2>1 DEF ConnectionGone, Calm
    <2>2. CASE call[t].pc = "closingChannel" /\ call[t].holds \notin openChans \cup {Null}
      <3>1. ~shaken => call[t].holds = channel /\ \A u \in Task : call[u].pc \notin {"dialing", "opening", "closingConnection"}
        BY <1>0, <2>2 DEF Calm, Moves, Busy
      <3>2. ~shaken => Works(channel)
        BY <1>0, <3>1 DEF Calm
      <3>3. QED
        BY <2>2, <3>1, <3>2 DEF Works
    <2>3. CASE call[t].pc = "closingConnection" /\ call[t].holds \notin openConns \cup {Null}
      BY <1>0, <2>3 DEF Calm
    <2>4. QED
      BY <2>1, <2>2, <2>3 DEF CloseRejects
  <1>4. TypeOK'
    BY <1>0, <1>1, <1>2, TypeParts, TypePartsNext DEF Fields, driver, broker
  <1>5. Paid'
    <2>1. Stranded' => Stranded
      <3>1. call[t].pc = "opening" => call[t].holds \notin openConns
        BY <1>1 DEF ConnectionGone, CloseRejects
      <3>2. QED
        BY <1>1, <1>2, <3>1 DEF Stranded, Up, driver, broker
    <2>2. slips' \in Nat /\ slips' >= slips + One(Stranded' /\ ~Stranded)
      BY <1>0, <1>1, <2>1, Countable DEF One
    <2>3. UNCHANGED <<connection, openConns>>
      BY <1>1 DEF driver, broker
    <2>4. QED
      BY <1>0, <1>1, <2>2, <2>3, Rests, PaidLater
  <1>6. QED
    BY <1>1, <1>3, <1>4, <1>5 DEF RabbitInv, Calm

\* close() begins.
LEMMA RabbitCloseStart == ASSUME RabbitInv, NEW t \in Task, CloseStart(t) PROVE RabbitInv'
  <1> DEFINE c == [op |-> "close", pc |-> "closingChannel", holds |-> channel]
  <1>0. TypeOK /\ Calm /\ Paid
    BY DEF RabbitInv
  <1>1. c \in Call /\ c.pc = "closingChannel" /\ c.holds = channel
    BY <1>0 DEF Call, Op, Pc, Moves, TypeOK
  <1>2. /\ call' = [call EXCEPT ![t] = c] /\ call[t].pc = "idle"
        /\ IF Overlaps THEN Slip ELSE UNCHANGED slips
        /\ shaken' = (shaken \/ \E u \in Task : Busy(u))
        /\ UNCHANGED <<driver, broker, rejected>>
    BY DEF CloseStart, Busy
  <1> HIDE DEF c
  <1>3. /\ call' \in [Task -> Call] /\ call'[t] = c
        /\ \A u \in Task \ {t} : call'[u] = call[u]
    BY <1>0, <1>1, <1>2, Moved
  <1>4. shaken' \in BOOLEAN /\ slips' \in 0..MaxSlips
    BY <1>0, <1>2, RabbitAssumption DEF TypeOK, Slip
  <1>5. TypeOK'
    BY <1>0, <1>2, <1>3, <1>4, TypeParts, TypePartsNext DEF Fields, driver, broker
  <1>6. Calm'
    <2>1. ~shaken' => ~shaken /\ ~rejected /\ \A u \in Task : call[u].pc = "idle"
      BY <1>0, <1>2 DEF Busy, Calm
    <2>2. ~shaken' => channel = connection /\ Works(channel)
      BY <1>0, <2>1 DEF Calm
    <2>3. QED
      BY <1>1, <1>2, <1>3, <2>1, <2>2 DEF Calm, Works, Busy, Moves, Stages, driver, broker
  <1>7. Paid'
    <2>1. Cardinality(Dialing)' = Cardinality(Dialing) /\ Cardinality(Dialing) \in Nat
      <3>1. Cardinality(Dialing)' = Cardinality(Dialing) + One(c.pc = "dialing") - One(call[t].pc = "dialing")
        BY <1>0, <1>1, <1>2, Dials
      <3>2. QED
        BY <1>0, <1>1, <1>2, <3>1, Countable DEF One
    <2>2. /\ Cardinality(Orphans)' = Cardinality(Orphans) /\ Cardinality(Orphans) \in Nat
          /\ Up' = Up /\ (Stranded' => Up') /\ (Stranded => Up)
      BY <1>0, <1>2, Countable DEF Orphans, Up, Stranded, driver, broker
    <2>3. Closers' /\ (Forgetting' <=> Forgetting) /\ (Forgetting => Closers) /\ (Stranded' <=> Stranded)
      BY <1>1, <1>2, <1>3 DEF Closers, Closing, Forgetting, Stranded, Up, driver, broker
    <2>4. slips' = slips + One(Overlaps) /\ slips \in Nat
      BY <1>0, <1>2, Countable DEF Slip, One
    <2>5. ~Overlaps => Cardinality(Dialing) = 0 /\ ~Forgetting
      <3>1. ~Overlaps => Dialing = {} /\ ~Forgetting
        BY DEF Overlaps, Connecting, Closing, Forgetting, Dialing
      <3>2. QED
        BY <1>0, <3>1, Countable
    <2>6. QED
      BY <1>0, <2>1, <2>2, <2>3, <2>4, <2>5 DEF Paid, AtStake, One
  <1>8. QED
    BY <1>5, <1>6, <1>7 DEF RabbitInv

\* The channel is closed, and the connection of now is to be.
LEMMA RabbitChannelClosed == ASSUME RabbitInv, NEW t \in Task, ChannelClosed(t) PROVE RabbitInv'
  <1>0. TypeOK /\ Calm /\ Paid /\ connection \in Field /\ "closingConnection" \in Pc
    BY DEF RabbitInv, TypeOK, Pc, Moves
  <1>1. PICK c \in Call : /\ call' = [call EXCEPT ![t] = c] /\ c.pc = "closingConnection"
                          /\ c.holds = connection
    BY <1>0, Gone DEF ChannelClosed
  <1>2. /\ call' \in [Task -> Call] /\ call'[t] = c
        /\ \A u \in Task \ {t} : call'[u] = call[u]
    BY <1>0, <1>1, Moved
  <1>3. /\ call[t].pc = "closingChannel" /\ openChans' = openChans \ {call[t].holds}
        /\ UNCHANGED <<connection, channel, dialled, openConns, slips, shaken, rejected>>
    BY DEF ChannelClosed, history, driver
  <1>4. TypeOK'
    BY <1>0, <1>2, <1>3, TypeParts, TypePartsNext DEF Fields
  <1>5. Calm'
    <2>1. ~shaken => \A u \in Task : call[u].pc \notin {"dialing", "opening", "closingConnection"}
      BY <1>0, <1>3 DEF Calm, Moves, Busy
    <2>2. ~shaken => channel = connection /\ Works(channel)
      BY <1>0, <2>1 DEF Calm
    <2>3. ~shaken => connection \in openConns \cup {Null}
      BY <1>0, <2>2 DEF Works, TypeOK
    <2>4. ~shaken => \A u \in Task \ {t} : call[u].pc = "idle"
      BY <1>0, <1>3 DEF Calm, Moves, Busy
    <2>5. QED
      BY <1>0, <1>1, <1>2, <1>3, <2>2, <2>3, <2>4 DEF Calm, Works, Busy, Moves, Stages
  <1>6. Paid'
    <2>1. Cardinality(Dialing)' = Cardinality(Dialing) /\ Cardinality(Dialing) \in Nat
      <3>1. Cardinality(Dialing)' = Cardinality(Dialing) + One(c.pc = "dialing") - One(call[t].pc = "dialing")
        BY <1>0, <1>1, Dials
      <3>2. QED
        BY <1>0, <1>1, <1>3, <3>1, Countable DEF One
    <2>2. /\ Cardinality(Orphans)' = Cardinality(Orphans) /\ Cardinality(Orphans) \in Nat
          /\ Up' = Up /\ (Stranded => Up) /\ (connection = Null => ~Up)
      BY <1>0, <1>3, Countable DEF Orphans, Up, Stranded
    <2>3. Closers /\ Closers' /\ (Stranded' <=> Stranded) /\ slips' = slips /\ slips \in Nat
      BY <1>0, <1>1, <1>2, <1>3, Countable DEF Closers, Closing, Stranded, Up
    <2>4. (Forgetting' <=> Forgetting \/ connection = Null)
      BY <1>1, <1>2, <1>3 DEF Forgetting
    <2>5. QED
      BY <1>0, <2>1, <2>2, <2>3, <2>4 DEF Paid, AtStake, One
  <1>7. QED
    BY <1>4, <1>5, <1>6 DEF RabbitInv

\* The connection is closed and forgotten, whichever it was.
LEMMA RabbitConnectionClosed == ASSUME RabbitInv, NEW t \in Task, ConnectionClosed(t) PROVE RabbitInv'
  <1> DEFINE x == call[t].holds
  <1>0. TypeOK /\ Calm /\ Paid /\ Null \in Field
    BY RabbitAssumption DEF RabbitInv, Field, Null
  <1>1. /\ call[t].pc = "closingConnection" /\ x \in openConns \cup {Null}
        /\ openConns' = openConns \ {x} /\ openChans' = openChans \ {x}
        /\ connection' = Null /\ channel' = Null
        /\ call' = [call EXCEPT ![t] = Resting]
        /\ UNCHANGED <<dialled, slips>>
    BY DEF ConnectionClosed, Disconnect, ForgetFields
  <1>2. /\ call' \in [Task -> Call] /\ call'[t] = Resting /\ Resting.pc = "idle"
        /\ \A u \in Task \ {t} : call'[u] = call[u]
    BY <1>0, <1>1, Rests, Moved
  <1>3. PICK alone \in BOOLEAN :
            /\ alone <=> \A u \in Task \ {t} : ~Busy(u)
            /\ shaken' = (shaken /\ ~alone) /\ rejected' = (rejected /\ ~alone)
    BY DEF ConnectionClosed
  <1>4. TypeOK'
    <2>1. shaken' \in BOOLEAN /\ rejected' \in BOOLEAN
      BY <1>3
    <2>2. QED
      BY <1>0, <1>1, <1>2, <2>1, TypeParts, TypePartsNext DEF Fields
  <1>5. Calm'
    <2>1. ~shaken' => \A u \in Task \ {t} : ~Busy(u)
      BY <1>0, <1>1, <1>3 DEF Calm, Moves
    <2>2. ~shaken' => ~rejected'
      BY <1>0, <1>3 DEF Calm
    <2>3. ~shaken' => \A u \in Task : call'[u].pc = "idle"
      BY <1>2, <2>1 DEF Busy
    <2>4. QED
      BY <1>1, <2>2, <2>3 DEF Calm, Works, Busy, Moves, Stages
  <1>6. Paid'
    <2>1. Cardinality(Dialing)' = Cardinality(Dialing) /\ Cardinality(Dialing) \in Nat
      <3>1. Cardinality(Dialing)' = Cardinality(Dialing) + One(Resting.pc = "dialing") - One(call[t].pc = "dialing")
        BY <1>0, <1>1, Rests, Dials
      <3>2. QED
        BY <1>0, <1>1, <1>2, <3>1, Countable DEF One
    <2>2. ~Up' /\ ~Stranded' /\ Closers /\ slips' = slips /\ slips \in Nat
      BY <1>0, <1>1, Countable DEF Up, Stranded, Closers, Closing
    <2>3. Orphans' = openConns \ {x} /\ IsFiniteSet(openConns) /\ Cardinality(openConns) \in Nat
      BY <1>0, <1>1, Countable, FS_CardinalityType DEF Orphans
    <2>4. Cardinality(openConns) = Cardinality(Orphans) + One(Up) /\ Cardinality(Orphans) \in Nat
      <3>1. CASE Up
        <4>1. openConns = Orphans \cup {connection} /\ connection \notin Orphans
          BY <3>1 DEF Up, Orphans
        <4>2. QED
          BY <1>0, <3>1, <4>1, Countable, FS_AddElement DEF One
      <3>2. CASE ~Up
        <4>1. openConns = Orphans
          BY <3>2 DEF Up, Orphans
        <4>2. QED
          BY <1>0, <3>2, <4>1, Countable DEF One
      <3>3. QED
        BY <3>1, <3>2
    <2>5. Cardinality(Orphans)' = Cardinality(openConns) - One(x # Null)
      <3>1. CASE x = Null
        <4>1. Orphans' = openConns
          BY <1>0, <2>3, <3>1, Countable
        <4>2. One(x # Null) = 0
          BY <3>1 DEF One
        <4>3. QED
          BY <2>3, <4>1, <4>2
      <3>2. CASE x # Null
        <4>1. x \in openConns
          BY <1>1, <3>2
        <4>2. Cardinality(openConns \ {x}) = Cardinality(openConns) - 1
          BY <2>3, <4>1, FS_RemoveElement
        <4>3. QED
          BY <2>3, <3>2, <4>2 DEF One
      <3>3. QED
        BY <3>1, <3>2
    <2>6. x = Null => Forgetting
      BY <1>1 DEF Forgetting
    <2>7. AtStake(Cardinality(Dialing))' = Cardinality(Dialing) \/ AtStake(Cardinality(Dialing))' = Cardinality(Dialing) - 1
          \/ (AtStake(Cardinality(Dialing))' = 0 /\ Cardinality(Dialing) = 0)
      BY <2>1, <2>2 DEF AtStake, One
    <2>8. Forgetting' => Forgetting
      BY <1>1, <1>2 DEF Forgetting
    <2>9. QED
      BY <1>0, <2>1, <2>2, <2>4, <2>5, <2>6, <2>7, <2>8 DEF Paid, AtStake, One
  <1>7. QED
    BY <1>4, <1>5, <1>6 DEF RabbitInv

\* A connection goes by itself.
LEMMA RabbitLoss == ASSUME RabbitInv, NEW c \in Conn, Loss(c) PROVE RabbitInv'
  <1>0. TypeOK /\ Calm /\ Paid
    BY DEF RabbitInv
  <1>1. /\ openConns' = openConns \ {c} /\ openChans' = openChans \ {c} /\ shaken' = TRUE
        /\ UNCHANGED <<connection, channel, dialled, call, slips, rejected>>
    BY DEF Loss, Disconnect, driver
  <1>2. TypeOK'
    BY <1>0, <1>1, TypeParts, TypePartsNext DEF Fields
  <1>3. Paid'
    <2>1. Dialing' = Dialing /\ (Closers' <=> Closers) /\ (Forgetting' <=> Forgetting) /\ slips' = slips
      BY <1>1 DEF Dialing, Closers, Closing, Forgetting
    <2>2. /\ (Up' => Up) /\ (Stranded' => Stranded)
          /\ Orphans' \subseteq Orphans
      BY <1>1 DEF Up, Stranded, Orphans
    <2>3. Cardinality(Orphans)' <= Cardinality(Orphans) /\ Cardinality(Orphans)' \in Nat
      BY <1>0, <2>2, Countable, FS_Subset, FS_CardinalityType
    <2>4. Cardinality(Orphans) \in Nat /\ Cardinality(Dialing) \in Nat /\ slips \in Nat
      BY <1>0, Countable
    <2>5. AtStake(Cardinality(Dialing))' <= AtStake(Cardinality(Dialing))
      BY <2>1, <2>2, <2>4 DEF AtStake, One
    <2>6. AtStake(Cardinality(Dialing))' \in Int /\ AtStake(Cardinality(Dialing)) \in Int
      BY <2>1, <2>4 DEF AtStake, One
    <2>7. QED
      BY <1>0, <2>1, <2>3, <2>4, <2>5, <2>6 DEF Paid
  <1>4. QED
    BY <1>1, <1>2, <1>3 DEF RabbitInv, Calm

\* Before the first call.
LEMMA RabbitInitially == ASSUME Init PROVE RabbitInv
  <1>1. TypeOK
    <2>1. call \in [Task -> Call]
      BY Rests DEF Init
    <2>2. MaxConn \in Nat /\ MaxSlips \in Nat
      BY RabbitAssumption
    <2>3. Fields
      <3>1. dialled \in 0..MaxConn /\ slips \in 0..MaxSlips /\ Null \in Field
        BY <2>2 DEF Init, Field, Null
      <3>2. QED
        BY <3>1 DEF Init, Fields
    <2>4. QED
      BY <2>1, <2>3, TypeParts
  <1>2. \A t \in Task : call[t].pc = "idle"
    BY Rests DEF Init
  <1>3. Calm
    BY <1>2 DEF Init, Calm, Moves, Stages, Busy, Works
  <1>4. Paid
    <2>1. Dialing = {} /\ Orphans = {} /\ ~Up /\ ~Stranded /\ ~Forgetting
      BY <1>2 DEF Init, Dialing, Orphans, Up, Stranded, Forgetting
    <2>2. Cardinality(Dialing) = 0 /\ Cardinality(Orphans) = 0
      BY <2>1, FS_EmptySet
    <2>3. QED
      BY <2>1, <2>2 DEF Init, Paid, AtStake, One
  <1>5. QED
    BY <1>1, <1>3, <1>4 DEF RabbitInv

LEMMA RabbitKeeps == ASSUME RabbitInv, [Next]_vars PROVE RabbitInv'
  <1>1. CASE UNCHANGED vars
    BY <1>1 DEF RabbitInv, vars, TypeOK, Calm, Works, Busy, Moves, Stages, Paid, Dialing, Orphans,
                Up, Stranded, Closers, Closing, Forgetting, AtStake, One
  <1>2. ASSUME NEW c \in Conn, Loss(c) PROVE RabbitInv'
    BY <1>2, RabbitLoss
  <1>3. ASSUME NEW t \in Task, Step(t) PROVE RabbitInv'
    <2>1. ASSUME NEW op \in Ops, Start(t, op) PROVE RabbitInv'
      BY <2>1, RabbitStart
    <2>2. CASE Dialled(t) \/ ChannelOpened(t) \/ DialFails(t) \/ ChannelFails(t) \/ ConnectionGone(t)
      BY <2>2, RabbitDialled, RabbitChannelOpened, RabbitDialFails, RabbitChannelFails, RabbitGone
    <2>3. CASE \/ Ready(t) \/ AssertExchange(t) \/ AssertQueue(t) \/ BindQueue(t) \/ Consume(t)
               \/ ChannelGone(t)
      BY <2>3, RabbitReady, RabbitAwaits
    <2>4. CASE CloseStart(t) \/ ChannelClosed(t) \/ ConnectionClosed(t) \/ CloseRejects(t)
      BY <2>4, RabbitCloseStart, RabbitChannelClosed, RabbitConnectionClosed, RabbitGone
    <2>5. QED
      BY <1>3, <2>1, <2>2, <2>3, <2>4 DEF Step
  <1>4. QED
    BY <1>1, <1>2, <1>3 DEF Next

-----------------------------------------------------------------------------

THEOREM RabbitIsInvariant == Spec => []RabbitInv
  BY RabbitInitially, RabbitKeeps, PTL DEF Spec

\* The driver's state is well-typed: a channel that is up is one of a connection that
\* is, and only connections that were dialled are up.
THEOREM RabbitTypes == Spec => []TypeOK
  <1>1. RabbitInv => TypeOK
    BY DEF RabbitInv
  <1>2. QED
    BY <1>1, RabbitIsInvariant, PTL

\* The connections that are up and out of the driver's reach are no more than the
\* connects and closes begun while another was under way and the channels that could
\* not be opened, however many callers there are and whatever is lost.
THEOREM NothingOrphaned == Spec => []OrphansAreSlips
  <1>1. RabbitInv => OrphansAreSlips
    <2>1. ASSUME RabbitInv PROVE OrphansAreSlips
      <3>1. Cardinality(Dialing) \in Nat /\ Cardinality(Orphans) \in Nat /\ slips \in Nat /\ Paid
        BY <2>1, Countable DEF RabbitInv
      <3>2. AtStake(Cardinality(Dialing)) \in Nat
        BY <3>1 DEF AtStake, One
      <3>3. QED
        BY <3>1, <3>2 DEF Paid, OrphansAreSlips, Orphans
    <2>2. QED
      BY <2>1
  <1>2. QED
    BY <1>1, RabbitIsInvariant, PTL

\* Until calls overlap a connect or a close, or a channel fails or is lost, no call finds
\* the driver unusable, and a close() that resolves alone starts that over.
THEOREM FieldsWork == Spec => []FieldsUsable
  <1>1. RabbitInv => FieldsUsable
    BY DEF RabbitInv, Calm, Works, Quiet, Busy, FieldsUsable
  <1>2. QED
    BY <1>1, RabbitIsInvariant, PTL

-----------------------------------------------------------------------------
(* HookWiring                                                               *)

\* A registrar that awaits on() has put at least the first closure on the bus, and
\* register() goes through the list once.
Underway ==
    \A r \in Registrar :
        \/ awaiting[r] = Free
        \/ /\ awaiting[r].run \in DOMAIN registered
           /\ awaiting[r].next \in 2..(Len(On[registered[awaiting[r].run]]) + 1)

OneEach ==
    \A r, s \in Registrar :
        awaiting[r].run # 0 /\ awaiting[r].run = awaiting[s].run => r = s

Usable == \A n \in DOMAIN registered : Grade[registered[n]] = "hook"

\* Of an undisturbed registration the bus has exactly the places its register() is
\* past: all of them once it has returned.
Pace ==
    \A n \in DOMAIN registered \ disturbed : \A k \in DOMAIN On[registered[n]] :
        [run |-> n, nth |-> k] \in listeners
            <=> \A r \in Registrar : awaiting[r].run = n => k < awaiting[r].next

\* The registry has the last hook that was registered under an id.
Latest ==
    \A n \in DOMAIN registered : \E m \in DOMAIN registered :
        /\ m >= n
        /\ IdOf[registered[m]] = IdOf[registered[n]]
        /\ hooks[IdOf[registered[n]]] = registered[m]

\* The loader counts a hook once its register() has returned.
Counted == loaded + (IF awaiting["loader"] = Free THEN 0 ELSE 1) < file

RegistryInv ==
    /\ hooks \in [Id -> Hook \cup {Nobody}]
    /\ registered \in Seq(Hook) /\ Len(registered) <= MaxRun
    /\ listeners \subseteq [run : Run, nth : Nat]
    /\ \A l \in listeners : /\ l.run \in DOMAIN registered
                            /\ l.nth \in DOMAIN On[registered[l.run]]
    /\ awaiting \in [Registrar -> [run : {0} \cup Run, next : Nat]]
    /\ disturbed \subseteq DOMAIN registered
    /\ Underway /\ OneEach /\ Usable /\ Pace /\ Latest

HookInv == WiringTypeOK /\ RegistryInv /\ Counted

\* What the assumptions say of a hook and its list.
LEMMA Lists ==
    /\ MaxRun \in Nat /\ MaxSwap \in Nat /\ "loader" \in Registrar
    /\ \A h \in Hook : /\ On[h] \in Seq(Pattern) /\ Len(On[h]) \in Nat
                       /\ DOMAIN On[h] = 1..Len(On[h])
                       /\ Grade[h] = "hook" => Len(On[h]) > 0
                       /\ IdOf[h] \in Id
BY WiringAssumption DEF Registrar

\* The invariant holds before the first file is loaded.
LEMMA HooksInitially == WiringInit => HookInv
<1> SUFFICES ASSUME WiringInit PROVE HookInv
    OBVIOUS
<1>1. files \in Seq(Hook) /\ Len(files) \in Nat
    BY WiringAssumption DEF WiringInit
<1>2. registered \in Seq(Hook) /\ Len(registered) = 0 /\ DOMAIN registered = {}
    BY DEF WiringInit
<1>3. WiringTypeOK
    <2>1. file \in 1..(Len(files) + 1) /\ loaded \in 0..Len(files) /\ swaps \in 0..MaxSwap
        BY <1>1, Lists DEF WiringInit
    <2>2. /\ awaiting \in [Registrar -> [run : {0} \cup Run, next : Nat]]
          /\ hooks \in [Id -> Hook \cup {Nobody}]
        BY DEF WiringInit, Free
    <2>3. /\ files \in FileLists /\ boot \in {"loading", "ready", "failed"}
          /\ swapping \in BOOLEAN /\ listeners = {} /\ disturbed = {}
        BY DEF WiringInit
    <2>4. registered \in Seq(Hook) /\ Len(registered) <= MaxRun
        BY <1>2, Lists
    <2> QED
        BY <2>1, <2>2, <2>3, <2>4 DEF WiringTypeOK
<1>4. RegistryInv
    BY <1>1, <1>2, Lists DEF WiringInit, RegistryInv, Underway, OneEach, Usable, Pace, Latest, Free
<1> QED
    BY <1>3, <1>4, Lists DEF WiringInit, HookInv, Counted

\* A registration: the entry, the first closure or the throw.
LEMMA RegisterKeeps ==
    ASSUME RegistryInv, NEW r \in Registrar, NEW h \in Hook, Grade[h] = "hook",
           Register(r, h)
    PROVE  /\ RegistryInv'
           /\ \A s \in Registrar \ {r} : awaiting'[s] = awaiting[s]
           /\ On[h][1] \in EventPattern => awaiting'[r] # Free
           /\ On[h][1] \notin EventPattern => awaiting'[r] = Free
<1> DEFINE run == Len(registered) + 1
<1>1. /\ Len(registered) \in Nat /\ DOMAIN registered = 1..Len(registered)
      /\ registered \in Seq(Hook) /\ run \in Run /\ awaiting[r] = Free
    BY Lists DEF RegistryInv, Register, Run
<1>2. /\ registered' \in Seq(Hook) /\ Len(registered') = run
      /\ DOMAIN registered' = 1..run /\ registered'[run] = h
      /\ \A n \in 1..Len(registered) : registered'[n] = registered[n]
    BY <1>1 DEF Register
<1>3. 1 \in DOMAIN On[h] /\ 2 \in 2..(Len(On[h]) + 1)
    BY Lists
<1>4. /\ hooks' = [hooks EXCEPT ![IdOf[h]] = h] /\ IdOf[h] \in Id
      /\ hooks' \in [Id -> Hook \cup {Nobody}]
    BY Lists DEF Register, RegistryInv
<1>5. Latest'
    <2> SUFFICES ASSUME NEW n \in DOMAIN registered'
                 PROVE  \E m \in DOMAIN registered' :
                            /\ m >= n
                            /\ IdOf[registered'[m]] = IdOf[registered'[n]]
                            /\ hooks'[IdOf[registered'[n]]] = registered'[m]
        BY DEF Latest
    <2>1. CASE IdOf[registered'[n]] = IdOf[h]
        BY <2>1, <1>1, <1>2, <1>4 DEF RegistryInv
    <2>2. CASE IdOf[registered'[n]] # IdOf[h]
        <3>1. n \in DOMAIN registered /\ registered'[n] = registered[n]
            BY <2>2, <1>1, <1>2
        <3>2. PICK m \in DOMAIN registered :
                  /\ m >= n
                  /\ IdOf[registered[m]] = IdOf[registered[n]]
                  /\ hooks[IdOf[registered[n]]] = registered[m]
            BY <3>1 DEF RegistryInv, Latest
        <3>3. m \in DOMAIN registered' /\ registered'[m] = registered[m]
            BY <1>1, <1>2
        <3>4. IdOf[registered[n]] \in Id
            BY <1>1, <3>1, Lists
        <3>5. hooks'[IdOf[registered[n]]] = hooks[IdOf[registered[n]]]
            BY <1>4, <3>1, <3>4, <2>2 DEF RegistryInv
        <3> QED
            BY <3>1, <3>2, <3>3, <3>5
    <2> QED
        BY <2>1, <2>2
<1>6. Usable'
    BY <1>1, <1>2 DEF Usable, RegistryInv
<1>7. /\ listeners \subseteq [run : Run, nth : Nat]
      /\ \A l \in listeners : /\ l.run \in DOMAIN registered'
                              /\ l.nth \in DOMAIN On[registered'[l.run]]
      /\ disturbed \subseteq DOMAIN registered'
      /\ \A l \in listeners : l.run # run
      /\ \A s \in Registrar : awaiting[s].run # run
    BY <1>1, <1>2 DEF RegistryInv, Underway, Free
<1>8. CASE OnAccepts(r, h, run, 1)
    <2>1. /\ awaiting' = [awaiting EXCEPT ![r] = [run |-> run, next |-> 2]]
          /\ listeners' = listeners \cup {[run |-> run, nth |-> 1]}
          /\ disturbed' = disturbed /\ On[h][1] \in EventPattern
        BY <1>8 DEF OnAccepts
    <2>2. /\ awaiting'[r] = [run |-> run, next |-> 2]
          /\ \A s \in Registrar \ {r} : awaiting'[s] = awaiting[s]
          /\ awaiting' \in [Registrar -> [run : {0} \cup Run, next : Nat]]
        BY <2>1, <1>1 DEF RegistryInv
    <2>3. awaiting'[r] # Free
        BY <2>2, <1>1 DEF Free
    <2>4. Underway'
        BY <2>2, <1>1, <1>2, <1>3 DEF Underway, RegistryInv
    <2>5. OneEach'
        <3>1. awaiting'[r].run = run /\ \A s \in Registrar \ {r} : awaiting'[s].run = awaiting[s].run
            BY <2>2
        <3>2. SUFFICES ASSUME NEW s \in Registrar, NEW u \in Registrar, awaiting'[s].run # 0,
                              awaiting'[s].run = awaiting'[u].run, s # u
                       PROVE  FALSE
            BY DEF OneEach
        <3>3. CASE s = r \/ u = r
            BY <3>1, <3>2, <3>3, <1>7
        <3>4. CASE s # r /\ u # r
            BY <3>1, <3>2, <3>4 DEF OneEach, RegistryInv
        <3> QED
            BY <3>3, <3>4
    <2>6. /\ listeners' \subseteq [run : Run, nth : Nat]
          /\ \A l \in listeners' : /\ l.run \in DOMAIN registered'
                                   /\ l.nth \in DOMAIN On[registered'[l.run]]
        BY <2>1, <1>1, <1>2, <1>3, <1>7
    <2>7. Pace'
        <3> SUFFICES ASSUME NEW n \in DOMAIN registered' \ disturbed',
                            NEW k \in DOMAIN On[registered'[n]]
                     PROVE  [run |-> n, nth |-> k] \in listeners'
                                <=> \A s \in Registrar : awaiting'[s].run = n => k < awaiting'[s].next
            BY DEF Pace
        <3>1. CASE n = run
            <4>1. k \in Nat \ {0}
                BY <3>1, <1>2, Lists
            <4>2. [run |-> n, nth |-> k] \in listeners' <=> k = 1
                BY <3>1, <2>1, <1>7
            <4>3. (\A s \in Registrar : awaiting'[s].run = n => k < awaiting'[s].next) <=> k < 2
                BY <3>1, <2>2, <1>7
            <4> QED
                BY <4>1, <4>2, <4>3
        <3>2. CASE n # run
            <4>1. n \in DOMAIN registered \ disturbed /\ k \in DOMAIN On[registered[n]]
                BY <3>2, <1>1, <1>2, <2>1
            <4>2. [run |-> n, nth |-> k] \in listeners' <=> [run |-> n, nth |-> k] \in listeners
                BY <3>2, <2>1
            <4>3. (\A s \in Registrar : awaiting'[s].run = n => k < awaiting'[s].next)
                    <=> (\A s \in Registrar : awaiting[s].run = n => k < awaiting[s].next)
                BY <3>2, <2>2, <4>1, <1>1 DEF Free
            <4> QED
                BY <4>1, <4>2, <4>3 DEF Pace, RegistryInv
        <3> QED
            BY <3>1, <3>2
    <2> QED
        BY <1>2, <1>1, <1>4, <1>5, <1>6, <1>7, <2>1, <2>2, <2>3, <2>4, <2>5, <2>6, <2>7, Lists DEF RegistryInv, Run
<1>9. CASE OnThrows(r, h, run, 1)
    <2>1. /\ awaiting' = awaiting /\ listeners' = listeners
          /\ disturbed' = disturbed \cup {run} /\ On[h][1] \notin EventPattern
        <3>1. /\ awaiting' = [awaiting EXCEPT ![r] = Free] /\ listeners' = listeners
              /\ disturbed' = disturbed \cup {run} /\ On[h][1] \notin EventPattern
            BY <1>9 DEF OnThrows
        <3> QED
            BY <3>1, <1>1 DEF RegistryInv
    <2>4. Underway'
        BY <2>1, <1>1, <1>2 DEF Underway, RegistryInv
    <2>5. OneEach'
        BY <2>1 DEF OneEach, RegistryInv
    <2>7. Pace'
        <3> SUFFICES ASSUME NEW n \in DOMAIN registered' \ disturbed',
                            NEW k \in DOMAIN On[registered'[n]]
                     PROVE  [run |-> n, nth |-> k] \in listeners
                                <=> \A s \in Registrar : awaiting[s].run = n => k < awaiting[s].next
            BY <2>1 DEF Pace
        <3>1. n \in DOMAIN registered \ disturbed /\ k \in DOMAIN On[registered[n]]
            BY <1>1, <1>2, <2>1
        <3> QED
            BY <3>1 DEF Pace, RegistryInv
    <2> QED
        BY <1>2, <1>1, <1>4, <1>5, <1>6, <1>7, <2>1, <2>4, <2>5, <2>7, Lists DEF RegistryInv, Run
<1> QED
    BY <1>8, <1>9 DEF Register

\* One more pattern of a list.
LEMMA SubscribeKeeps ==
    ASSUME RegistryInv, NEW r \in Registrar, Subscribe(r)
    PROVE  /\ RegistryInv'
           /\ \A s \in Registrar \ {r} : awaiting'[s] = awaiting[s]
           /\ awaiting[r] # Free
<1> DEFINE run == awaiting[r].run
           n == awaiting[r].next
           h == registered[run]
<1>1. /\ Len(registered) \in Nat /\ DOMAIN registered = 1..Len(registered)
      /\ registered \in Seq(Hook) /\ run # 0 /\ awaiting[r] # Free
      /\ run \in DOMAIN registered /\ n \in DOMAIN On[h]
      /\ hooks' = hooks /\ registered' = registered /\ h \in Hook /\ run \in Run
    BY DEF RegistryInv, Underway, Subscribe, Free, Run
<1>2. n \in Nat \ {0} /\ n <= Len(On[h]) /\ Len(On[h]) \in Nat /\ n + 1 \in 2..(Len(On[h]) + 1)
    BY <1>1, Lists
<1>3. Latest' /\ Usable'
    BY <1>1 DEF Latest, Usable, RegistryInv
<1>4. CASE OnAccepts(r, h, run, n)
    <2>1. /\ awaiting' = [awaiting EXCEPT ![r] = [run |-> run, next |-> n + 1]]
          /\ listeners' = listeners \cup {[run |-> run, nth |-> n]}
          /\ disturbed' = disturbed
        BY <1>4 DEF OnAccepts
    <2>2. /\ awaiting'[r] = [run |-> run, next |-> n + 1]
          /\ \A s \in Registrar \ {r} : awaiting'[s] = awaiting[s]
          /\ awaiting' \in [Registrar -> [run : {0} \cup Run, next : Nat]]
        BY <2>1, <1>1, <1>2 DEF RegistryInv
    <2>3. Underway'
        <3>1. awaiting'[r].run = run /\ awaiting'[r].next = n + 1
            BY <2>2
        <3>2. \A s \in Registrar \ {r} :
                  \/ awaiting[s] = Free
                  \/ /\ awaiting[s].run \in DOMAIN registered
                     /\ awaiting[s].next \in 2..(Len(On[registered[awaiting[s].run]]) + 1)
            BY DEF Underway, RegistryInv
        <3> QED
            BY <3>1, <3>2, <2>2, <1>1, <1>2 DEF Underway
    <2>4. OneEach'
        <3>1. \A s \in Registrar : awaiting'[s].run = awaiting[s].run
            BY <2>2
        <3> QED
            BY <3>1 DEF OneEach, RegistryInv
    <2>5. Pace'
        <3> SUFFICES ASSUME NEW m \in DOMAIN registered \ disturbed,
                            NEW k \in DOMAIN On[registered[m]]
                     PROVE  [run |-> m, nth |-> k] \in listeners'
                                <=> \A s \in Registrar : awaiting'[s].run = m => k < awaiting'[s].next
            BY <1>1, <2>1 DEF Pace
        <3>1. [run |-> m, nth |-> k] \in listeners
                  <=> \A s \in Registrar : awaiting[s].run = m => k < awaiting[s].next
            BY DEF Pace, RegistryInv
        <3>2. CASE m = run
            <4>1. k \in Nat
                BY <3>2, <1>1, Lists
            <4>2. \A s \in Registrar : awaiting[s].run = m => s = r
                BY <3>2, <1>1 DEF OneEach, RegistryInv
            <4>3. [run |-> m, nth |-> k] \in listeners <=> k < n
                BY <3>1, <3>2, <4>2
            <4>4. [run |-> m, nth |-> k] \in listeners' <=> k < n \/ k = n
                BY <2>1, <3>2, <4>3
            <4>5. (\A s \in Registrar : awaiting'[s].run = m => k < awaiting'[s].next) <=> k < n + 1
                BY <2>2, <3>2, <4>2
            <4> QED
                BY <4>1, <4>4, <4>5, <1>2
        <3>3. CASE m # run
            <4>1. [run |-> m, nth |-> k] \in listeners' <=> [run |-> m, nth |-> k] \in listeners
                BY <2>1, <3>3
            <4>2. (\A s \in Registrar : awaiting'[s].run = m => k < awaiting'[s].next)
                    <=> (\A s \in Registrar : awaiting[s].run = m => k < awaiting[s].next)
                BY <2>2, <3>3
            <4> QED
                BY <3>1, <4>1, <4>2
        <3> QED
            BY <3>2, <3>3
    <2>6. /\ listeners' \subseteq [run : Run, nth : Nat]
          /\ \A l \in listeners' : /\ l.run \in DOMAIN registered'
                                   /\ l.nth \in DOMAIN On[registered'[l.run]]
        BY <2>1, <1>1, <1>2 DEF RegistryInv
    <2> QED
        BY <1>1, <1>3, <2>1, <2>2, <2>3, <2>4, <2>5, <2>6 DEF RegistryInv
<1>5. CASE OnThrows(r, h, run, n)
    <2>1. /\ awaiting' = [awaiting EXCEPT ![r] = Free] /\ listeners' = listeners
          /\ disturbed' = disturbed \cup {run}
        BY <1>5 DEF OnThrows
    <2>2. /\ awaiting'[r] = Free
          /\ \A s \in Registrar \ {r} : awaiting'[s] = awaiting[s]
          /\ awaiting' \in [Registrar -> [run : {0} \cup Run, next : Nat]]
        BY <2>1, <1>1 DEF RegistryInv, Free
    <2>3. Underway'
        BY <2>2, <1>1 DEF Underway, RegistryInv
    <2>4. OneEach'
        <3>1. awaiting'[r].run = 0 /\ \A s \in Registrar \ {r} : awaiting'[s].run = awaiting[s].run
            BY <2>2 DEF Free
        <3> QED
            BY <3>1 DEF OneEach, RegistryInv
    <2>5. Pace'
        <3> SUFFICES ASSUME NEW m \in DOMAIN registered \ disturbed', m # run,
                            NEW k \in DOMAIN On[registered[m]]
                     PROVE  [run |-> m, nth |-> k] \in listeners
                                <=> \A s \in Registrar : awaiting'[s].run = m => k < awaiting'[s].next
            BY <1>1, <2>1 DEF Pace
        <3>1. m \in DOMAIN registered \ disturbed /\ m # 0
            BY <2>1, <1>1
        <3>2. (\A s \in Registrar : awaiting'[s].run = m => k < awaiting'[s].next)
                <=> (\A s \in Registrar : awaiting[s].run = m => k < awaiting[s].next)
            BY <2>2, <3>1 DEF Free
        <3> QED
            BY <3>1, <3>2 DEF Pace, RegistryInv
    <2> QED
        BY <1>1, <1>3, <2>1, <2>2, <2>3, <2>4, <2>5 DEF RegistryInv
<1> QED
    BY <1>1, <1>4, <1>5 DEF Subscribe

\* register() returns.
LEMMA RegisteredKeeps ==
    ASSUME RegistryInv, NEW r \in Registrar, Registered(r)
    PROVE  /\ RegistryInv'
           /\ \A s \in Registrar \ {r} : awaiting'[s] = awaiting[s]
           /\ awaiting[r] # Free /\ awaiting'[r] = Free
<1> DEFINE run == awaiting[r].run
           h == registered[run]
<1>1. /\ Len(registered) \in Nat /\ DOMAIN registered = 1..Len(registered)
      /\ registered \in Seq(Hook) /\ run # 0 /\ awaiting[r] # Free
      /\ run \in DOMAIN registered /\ h \in Hook /\ awaiting[r].next > Len(On[h])
      /\ awaiting[r].next \in Nat
      /\ UNCHANGED <<hooks, registered, listeners, disturbed>>
      /\ awaiting' = [awaiting EXCEPT ![r] = Free]
    BY DEF RegistryInv, Underway, Registered, Free
<1>2. /\ awaiting'[r] = Free
      /\ \A s \in Registrar \ {r} : awaiting'[s] = awaiting[s]
      /\ awaiting' \in [Registrar -> [run : {0} \cup Run, next : Nat]]
    BY <1>1 DEF RegistryInv, Free
<1>3. Underway'
    BY <1>2, <1>1 DEF Underway, RegistryInv
<1>4. OneEach'
    BY <1>2, <1>1 DEF OneEach, RegistryInv, Free
<1>5. Pace'
    <2> SUFFICES ASSUME NEW m \in DOMAIN registered \ disturbed,
                        NEW k \in DOMAIN On[registered[m]]
                 PROVE  [run |-> m, nth |-> k] \in listeners
                            <=> \A s \in Registrar : awaiting'[s].run = m => k < awaiting'[s].next
        BY <1>1 DEF Pace
    <2>1. [run |-> m, nth |-> k] \in listeners
              <=> \A s \in Registrar : awaiting[s].run = m => k < awaiting[s].next
        BY DEF Pace, RegistryInv
    <2>2. m # 0
        BY <1>1
    <2>3. awaiting[r].run = m => k < awaiting[r].next
        BY <1>1, Lists
    <2> QED
        BY <1>2, <2>1, <2>2, <2>3 DEF Free
<1>6. Latest' /\ Usable'
    BY <1>1 DEF Latest, Usable, RegistryInv
<1> QED
    BY <1>1, <1>2, <1>3, <1>4, <1>5, <1>6 DEF RegistryInv

\* Closing and replacing the driver: every registration so far is disturbed.
LEMMA DroppingKeeps ==
    ASSUME RegistryInv, listeners' = {}, disturbed' = DOMAIN registered,
           UNCHANGED <<hooks, registered, awaiting>>
    PROVE  RegistryInv'
BY DEF RegistryInv, Underway, OneEach, Usable, Pace, Latest

\* Every step of the loader, the program and the driver keeps it.
LEMMA HooksStep == HookInv /\ [WiringNext]_wiringVars => HookInv'
<1> SUFFICES ASSUME HookInv, [WiringNext]_wiringVars PROVE HookInv'
    OBVIOUS
<1>1. /\ files \in Seq(Hook) /\ Len(files) \in Nat /\ DOMAIN files = 1..Len(files)
      /\ WiringTypeOK /\ RegistryInv /\ Counted /\ file \in Nat /\ loaded \in Nat
    BY WiringAssumption, Lists DEF HookInv, WiringTypeOK
\* The type invariant repeats the registry's part of the state.
<1>2. ASSUME RegistryInv', files' = files, file' \in 1..(Len(files) + 1),
             loaded' \in 0..Len(files), boot' \in {"loading", "ready", "failed"},
             swapping' \in BOOLEAN, swaps' \in 0..MaxSwap
      PROVE  WiringTypeOK'
    BY <1>1, <1>2 DEF WiringTypeOK, RegistryInv
<1>3. CASE LoadFile
    <2>1. /\ boot = "loading" /\ awaiting["loader"] = Free /\ file \in 1..Len(files)
          /\ file' = file + 1 /\ UNCHANGED <<files, swapping, swaps>>
          /\ files[file] \in Hook /\ loaded < file
        BY <1>3, <1>1 DEF LoadFile, busVars, WiringTypeOK, Counted
    <2>2. CASE /\ Grade[files[file]] \in {"ignored", "skipped"}
               /\ loaded' = IF Grade[files[file]] = "skipped" THEN loaded + 1 ELSE loaded
               /\ UNCHANGED <<hooks, registered, listeners, awaiting, boot, disturbed>>
        <3>1. RegistryInv'
            BY <1>1, <2>2 DEF RegistryInv, Underway, OneEach, Usable, Pace, Latest
        <3>2. Counted' /\ loaded' \in 0..Len(files)
            BY <1>1, <2>1, <2>2 DEF Counted
        <3> QED
            BY <1>1, <1>2, <2>1, <2>2, <3>1, <3>2 DEF HookInv, WiringTypeOK
    <2>3. CASE /\ Grade[files[file]] = "broken" /\ boot' = "failed"
               /\ UNCHANGED <<hooks, registered, listeners, awaiting, loaded, disturbed>>
        <3>1. RegistryInv'
            BY <1>1, <2>3 DEF RegistryInv, Underway, OneEach, Usable, Pace, Latest
        <3>2. Counted' /\ loaded' \in 0..Len(files)
            BY <1>1, <2>1, <2>3 DEF Counted, WiringTypeOK
        <3> QED
            BY <1>1, <1>2, <2>1, <2>3, <3>1, <3>2 DEF HookInv, WiringTypeOK
    <2>4. CASE /\ Grade[files[file]] = "hook" /\ Register("loader", files[file])
               /\ boot' = IF On[files[file]][1] \in EventPattern THEN boot ELSE "failed"
               /\ UNCHANGED loaded
        <3>1. RegistryInv'
            BY <1>1, <2>1, <2>4, RegisterKeeps, Lists
        <3>2. Counted' /\ loaded' \in 0..Len(files)
            BY <1>1, <2>1, <2>4 DEF Counted, WiringTypeOK
        <3> QED
            BY <1>1, <1>2, <2>1, <2>4, <3>1, <3>2 DEF HookInv, WiringTypeOK
    <2> QED
        BY <1>3, <2>2, <2>3, <2>4 DEF LoadFile
<1>4. ASSUME NEW r \in Registrar, Subscribe(r) PROVE HookInv'
    <2>1. /\ RegistryInv' /\ awaiting[r] # Free
          /\ \A s \in Registrar \ {r} : awaiting'[s] = awaiting[s]
        BY <1>1, <1>4, SubscribeKeeps
    <2>2. /\ UNCHANGED <<files, file, loaded, swapping, swaps>>
          /\ boot' \in {"loading", "ready", "failed"}
        BY <1>1, <1>4 DEF Subscribe, busVars, WiringTypeOK
    <2>3. Counted'
        BY <1>1, <2>1, <2>2, Lists DEF Counted
    <2> QED
        BY <1>1, <1>2, <2>1, <2>2, <2>3 DEF HookInv, WiringTypeOK
<1>5. ASSUME NEW r \in Registrar, Registered(r) PROVE HookInv'
    <2>1. /\ RegistryInv' /\ awaiting[r] # Free /\ awaiting'[r] = Free
          /\ \A s \in Registrar \ {r} : awaiting'[s] = awaiting[s]
        BY <1>1, <1>5, RegisteredKeeps
    <2>2. /\ UNCHANGED <<files, file, boot, swapping, swaps>>
          /\ loaded' = IF r = "loader" THEN loaded + 1 ELSE loaded
        BY <1>1, <1>5 DEF Registered, busVars
    <2>3. Counted' /\ loaded' \in 0..Len(files)
        BY <1>1, <2>1, <2>2, Lists DEF Counted, WiringTypeOK
    <2> QED
        BY <1>1, <1>2, <2>1, <2>2, <2>3 DEF HookInv, WiringTypeOK
<1>6. CASE Loaded
    <2>1. RegistryInv' /\ Counted'
        BY <1>1, <1>6 DEF Loaded, RegistryInv, Underway, OneEach, Usable, Pace, Latest, Counted
    <2> QED
        BY <1>1, <1>2, <1>6, <2>1 DEF HookInv, WiringTypeOK, Loaded, busVars
<1>7. ASSUME NEW r \in Program, NEW h \in Hook, ProgramRegisters(r, h) PROVE HookInv'
    <2>1. r \in Registrar /\ r # "loader" /\ Grade[h] = "hook" /\ Register(r, h)
        BY <1>7, WiringAssumption DEF ProgramRegisters, Registrar
    <2>2. /\ RegistryInv'
          /\ \A s \in Registrar \ {r} : awaiting'[s] = awaiting[s]
        BY <1>1, <2>1, RegisterKeeps
    <2>3. UNCHANGED <<files, file, loaded, boot, swapping, swaps>>
        BY <1>7 DEF ProgramRegisters, busVars
    <2>4. Counted'
        BY <1>1, <2>1, <2>2, <2>3, Lists DEF Counted
    <2> QED
        BY <1>1, <1>2, <2>2, <2>3, <2>4 DEF HookInv, WiringTypeOK
<1>8. ASSUME NEW forUse \in BOOLEAN, CloseDriver(forUse) PROVE HookInv'
    <2>1. RegistryInv' /\ Counted'
        BY <1>1, <1>8, DroppingKeeps DEF CloseDriver, Counted
    <2>2. swaps' \in 0..MaxSwap /\ swapping' \in BOOLEAN
        BY <1>1, <1>8, Lists DEF CloseDriver, WiringTypeOK
    <2> QED
        BY <1>1, <1>2, <1>8, <2>1, <2>2 DEF HookInv, WiringTypeOK, CloseDriver
<1>9. CASE NewDriver
    <2>1. RegistryInv' /\ Counted'
        BY <1>1, <1>9, DroppingKeeps DEF NewDriver, Counted
    <2> QED
        BY <1>1, <1>2, <1>9, <2>1 DEF HookInv, WiringTypeOK, NewDriver
<1>10. CASE UNCHANGED wiringVars
    BY <1>1, <1>10 DEF HookInv, WiringTypeOK, RegistryInv, Underway, OneEach, Usable, Pace, Latest, Counted, wiringVars
<1> QED
    BY <1>3, <1>4, <1>5, <1>6, <1>7, <1>8, <1>9, <1>10, Lists DEF WiringNext, Loading, Registrar

\* Hence it always holds, for any hooks, files, lists and program parts.
THEOREM HooksInvariant == WiringSpec => []HookInv
<1> QED
    BY HooksInitially, HooksStep, PTL DEF WiringSpec

\* Every reachable state of the registry, its loader and the bus has its type.
THEOREM HookTypes == WiringSpec => []WiringTypeOK
<1>1. HookInv => WiringTypeOK
    BY DEF HookInv
<1>2. QED
    BY <1>1, HooksInvariant, PTL

\* HeardIsListed always holds: a closure on the bus belongs to a hook whose id
\* HookRegistry has, under that hook or one registered later.
THEOREM HeardHooksAreListed == WiringSpec => []HeardIsListed
<1>1. HookInv => HeardIsListed
    BY DEF HookInv, RegistryInv, Latest, HeardIsListed
<1> QED
    BY <1>1, HooksInvariant, PTL

\* The closures an emit calls are the pairs of a registration and a matching place.
LEMMA ProductOfCalls ==
    ASSUME HookInv, \A n \in DOMAIN registered : n \in Complete,
           NEW h \in Hook, NEW e
    PROVE  TimesRun(h, e) =
               Cardinality({n \in DOMAIN registered : registered[n] = h})
                 * Cardinality({k \in DOMAIN On[h] : matchesEvent(On[h][k], e)})
<1> DEFINE N == {n \in DOMAIN registered : registered[n] = h}
           K == {k \in DOMAIN On[h] : matchesEvent(On[h][k], e)}
           A == {l \in listeners : registered[l.run] = h /\ matchesEvent(On[h][l.nth], e)}
           f == [p \in N \X K |-> [run |-> p[1], nth |-> p[2]]]
<1>1. /\ RegistryInv /\ Len(registered) \in Nat /\ DOMAIN registered = 1..Len(registered)
    BY DEF HookInv, RegistryInv
<1>2. IsFiniteSet(N) /\ IsFiniteSet(K)
    <2>1. IsFiniteSet(1..Len(registered)) /\ IsFiniteSet(1..Len(On[h]))
        BY <1>1, FS_Interval, Lists
    <2>2. N \subseteq 1..Len(registered) /\ K \subseteq 1..Len(On[h])
        BY <1>1, Lists
    <2> QED
        BY <2>1, <2>2, FS_Subset
<1>3. \A n \in N, k \in K : [run |-> n, nth |-> k] \in listeners
    <2> SUFFICES ASSUME NEW n \in N, NEW k \in K
                 PROVE  [run |-> n, nth |-> k] \in listeners
        OBVIOUS
    <2>1. n \in DOMAIN registered \ disturbed /\ \A r \in Registrar : awaiting[r].run # n
        BY DEF Complete, Pending
    <2>2. k \in DOMAIN On[registered[n]]
        OBVIOUS
    <2> QED
        BY <1>1, <2>1, <2>2 DEF RegistryInv, Pace
<1>4. \A p \in N \X K : f[p] \in A
    <2> SUFFICES ASSUME NEW p \in N \X K PROVE f[p] \in A
        OBVIOUS
    <2>1. p[1] \in N /\ p[2] \in K /\ f[p] = [run |-> p[1], nth |-> p[2]]
        OBVIOUS
    <2>2. f[p] \in listeners
        BY <1>3, <2>1
    <2> QED
        BY <2>1, <2>2
<1>5. f \in [N \X K -> A]
    BY <1>4
<1>6. \A p, q \in N \X K : f[p] = f[q] => p = q
    <2> SUFFICES ASSUME NEW p \in N \X K, NEW q \in N \X K, f[p] = f[q] PROVE p = q
        OBVIOUS
    <2>1. f[p].run = p[1] /\ f[p].nth = p[2] /\ f[q].run = q[1] /\ f[q].nth = q[2]
        OBVIOUS
    <2>2. p = <<p[1], p[2]>> /\ q = <<q[1], q[2]>>
        OBVIOUS
    <2> QED
        BY <2>1, <2>2
<1>7. \A l \in A : \E p \in N \X K : f[p] = l
    <2> SUFFICES ASSUME NEW l \in A PROVE \E p \in N \X K : f[p] = l
        OBVIOUS
    <2>1. /\ l \in [run : Run, nth : Nat] /\ l.run \in DOMAIN registered
          /\ l.nth \in DOMAIN On[registered[l.run]]
          /\ registered[l.run] = h /\ matchesEvent(On[h][l.nth], e)
        BY <1>1 DEF RegistryInv
    <2>2. l.run \in N /\ l.nth \in K /\ l = [run |-> l.run, nth |-> l.nth]
        BY <2>1
    <2>3. <<l.run, l.nth>> \in N \X K /\ f[<<l.run, l.nth>>] = l
        BY <2>2
    <2> QED
        BY <2>3
<1>8. ExistsBijection(N \X K, A)
    <2>1. f \in Injection(N \X K, A)
        BY <1>5, <1>6 DEF Injection, IsInjective
    <2>2. f \in Surjection(N \X K, A)
        BY <1>5, <1>7 DEF Surjection
    <2> QED
        BY <2>1, <2>2 DEF ExistsBijection, Bijection
<1>9. IsFiniteSet(N \X K) /\ Cardinality(N \X K) = Cardinality(N) * Cardinality(K)
    BY <1>2, FS_Product
<1>10. Cardinality(A) = Cardinality(N \X K)
    BY <1>8, <1>9, FS_Bijection
<1> QED
    BY <1>9, <1>10 DEF TimesRun

\* CallsPerRegistration always holds: unless a registration is under way or was
\* disturbed, an emit calls a hook once for each registration of it and each matching
\* pattern of its list.
THEOREM EachRegistrationIsCalled == WiringSpec => []CallsPerRegistration
<1>1. HookInv => CallsPerRegistration
    BY ProductOfCalls DEF CallsPerRegistration
<1> QED
    BY <1>1, HooksInvariant, PTL
=============================================================================
