--------------------------- MODULE EventBusProofs ---------------------------
(* The safety properties of EventBus, for any listeners, patterns, names,    *)
(* tasks, and any number of emits and driver objects.  They follow from one  *)
(* inductive invariant, IInv.                                                *)
EXTENDS EventBus, FiniteSetTheorems, TLAPS

-----------------------------------------------------------------------------
(* The inductive invariant                                                   *)

\* Nothing has happened to the emits that are still to come.
Untouched ==
    \A e \in Emission : e > emitted =>
        waiting[e] = {} /\ running[e] = {} /\ handled[e] = {}

\* A call in progress closes a driver object that exists.
Recorded == \A t \in Task : call[t].closing <= made

\* A listener call is queued, running or done, and only one of these.
OneStage ==
    \A e \in Emission :
        /\ waiting[e] \cap running[e] = {}
        /\ waiting[e] \cap handled[e] = {}
        /\ running[e] \cap handled[e] = {}

\* The use() that found nobody waiting for a close: of those that wait now there
\* is one at most.  As long as the bus has the driver it closes, so does everyone
\* that waits; once the bus has another, a crossed use() has installed it.
First(t) == call[t].pc = "useClosing" /\ ~call[t].crossed
FirstIsAlone == \A t, u \in Task : First(t) /\ First(u) => t = u
FirstIsFresh ==
    \A t, u \in Task : First(t) /\ call[t].closing = current =>
        (call[u].pc = "useClosing" => call[u].closing = current)
FirstIsPaidFor ==
    \A t \in Task : First(t) /\ call[t].closing # current =>
        Cardinality(Leaked) < crossings

Crossing == FirstIsAlone /\ FirstIsFresh /\ FirstIsPaidFor /\ LeaksAreCrossings

\* Every installation by a crossed use() is one of the driver objects made.
CrossingsMade == crossings < made

IInv == TypeOK /\ Untouched /\ Recorded /\ OneStage /\ Crossing /\ CrossingsMade
-----------------------------------------------------------------------------
(* Initially                                                                 *)

\* The initial state satisfies the invariant.
LEMMA InitIInv == Init => IInv
  <1> SUFFICES ASSUME Init PROVE IInv
      OBVIOUS
  <1> USE BusAssumption
  <1>1. TypeOK
    <2>1. call \in [Task -> Call]
        BY DEF Init, Call, Idle, Kind, Driver
    <2>2. made \in Driver /\ current \in 1..made /\ kind \in [Driver -> Kind]
        BY DEF Init, Driver, Kind
    <2>3. /\ subs \subseteq Subscription
          /\ waiting \in [Emission -> SUBSET Subscription]
          /\ running \in [Emission -> SUBSET Subscription]
          /\ handled \in [Emission -> SUBSET Subscription]
        BY DEF Init
    <2>4. emitted \in 0..MaxEmission /\ settled \subseteq 1..emitted
        BY DEF Init
    <2>5. closed \subseteq 1..made /\ crossings \in 0..MaxDriver
        BY DEF Init
    <2> QED BY <2>1, <2>2, <2>3, <2>4, <2>5 DEF TypeOK
  <1>2. Untouched /\ Recorded /\ OneStage /\ CrossingsMade
      BY DEF Init, Untouched, Recorded, OneStage, CrossingsMade, Idle, Emission
  <1>3. Crossing
    <2>1. Leaked = {}
        BY DEF Init, Leaked
    <2>2. Cardinality(Leaked) = 0
        BY <2>1, FS_EmptySet
    <2> QED BY <2>2 DEF Init, Crossing, FirstIsAlone, FirstIsFresh, FirstIsPaidFor,
               LeaksAreCrossings, First, Idle
  <1> QED BY <1>1, <1>2, <1>3 DEF IInv
-----------------------------------------------------------------------------
(* What the drivers are left as                                              *)

\* The driver objects let go of are finitely many.
LEMMA LeakedIsFinite ==
    ASSUME TypeOK
    PROVE  IsFiniteSet(Leaked) /\ Cardinality(Leaked) \in Nat
  <1>1. IsFiniteSet(1..made) /\ Leaked \subseteq 1..made
      BY BusAssumption, FS_Interval DEF TypeOK, Driver, Leaked
  <1> QED BY <1>1, FS_Subset, FS_CardinalityType

\* Fewer driver objects are left open when more are closed.
LEMMA ClosingLeaksNothing ==
    ASSUME TypeOK, UNCHANGED <<made, current>>, closed \subseteq closed'
    PROVE  Cardinality(Leaked') <= Cardinality(Leaked) /\ Cardinality(Leaked') \in Nat
  <1>1. Leaked' \subseteq Leaked
      BY DEF Leaked
  <1> QED BY <1>1, LeakedIsFinite, FS_Subset, FS_CardinalityType

\* The calls that wait for a close are no more than they were, and the drivers as
\* they were but for some that are closed now: Crossing stays.
LEMMA CrossingStays ==
    ASSUME IInv, UNCHANGED <<made, current, crossings>>, closed \subseteq closed',
           \A u \in Task : call'[u].pc = "useClosing" => call'[u] = call[u]
    PROVE  Crossing'
  <1> USE DEF IInv, Crossing
  <1>1. Cardinality(Leaked') <= Cardinality(Leaked) /\ Cardinality(Leaked') \in Nat
      BY ClosingLeaksNothing
  <1>2. \A u \in Task : First(u)' => First(u) /\ call'[u] = call[u]
      BY DEF First
  <1>3. FirstIsAlone' /\ FirstIsFresh'
      BY <1>2 DEF FirstIsAlone, FirstIsFresh
  <1>4. FirstIsPaidFor' /\ LeaksAreCrossings'
      BY <1>1, <1>2, LeakedIsFinite DEF FirstIsPaidFor, LeaksAreCrossings, TypeOK
  <1> QED BY <1>3, <1>4

\* A step that leaves the drivers and the calls of use() and close() alone.
LEMMA SameDrivers ==
    ASSUME IInv, UNCHANGED <<made, current, kind, taskVars>>
    PROVE  Recorded' /\ Crossing' /\ CrossingsMade'
  <1> USE DEF taskVars
  <1>1. Crossing'
      BY CrossingStays
  <1>2. Recorded' /\ CrossingsMade'
      BY DEF IInv, Recorded, CrossingsMade
  <1> QED BY <1>1, <1>2
-----------------------------------------------------------------------------
(* Subscribing and publishing                                                *)

\* on and off touch the subscriptions of the driver the bus has now.
LEMMA SubscribingIInv ==
    ASSUME IInv, NEW p \in Pattern, NEW l \in Listener, On(p, l) \/ Off(p, l)
    PROVE  IInv'
  <1> USE DEF On, Off, emitVars
  <1>1. TypeOK'
    <2>1. <<p, l>> \in Subscription /\ subs \subseteq Subscription
        BY DEF Subscription, IInv, TypeOK
    <2>2. subs' \subseteq Subscription
        BY <2>1
    <2> QED BY <2>2 DEF IInv, TypeOK, taskVars
  <1>2. Untouched' /\ OneStage'
      BY DEF IInv, Untouched, OneStage
  <1>3. Recorded' /\ Crossing' /\ CrossingsMade'
      BY SameDrivers
  <1> QED BY <1>1, <1>2, <1>3 DEF IInv

\* emit queues calls under a number nothing has been recorded for.
LEMMA EmitIInv ==
    ASSUME IInv, NEW ev \in Event, Emit(ev)
    PROVE  IInv'
  <1> DEFINE n == emitted + 1
  <1> USE BusAssumption DEF Emit, busVars
  <1>0. /\ n \in Emission
        /\ waiting' = [waiting EXCEPT ![n] = Matching(ev)]
        /\ Matching(ev) \in SUBSET Subscription
        /\ running[n] = {} /\ handled[n] = {}
      BY DEF IInv, TypeOK, Untouched, Matching, Emission
  <1>1. TypeOK'
      <2>1. waiting' \in [Emission -> SUBSET Subscription]
          BY <1>0 DEF IInv, TypeOK
      <2>2. emitted' \in 0..MaxEmission /\ settled' \subseteq 1..emitted'
          BY DEF IInv, TypeOK
      <2> QED BY <2>1, <2>2 DEF IInv, TypeOK, taskVars
  <1>2. Untouched'
      BY <1>0 DEF IInv, TypeOK, Untouched, Emission
  <1>3. OneStage'
      BY <1>0 DEF IInv, TypeOK, OneStage
  <1>4. Recorded' /\ Crossing' /\ CrossingsMade'
      BY SameDrivers
  <1> QED BY <1>1, <1>2, <1>3, <1>4 DEF IInv

\* A listener call that starts moves from waiting to running.
LEMMA StartIInv ==
    ASSUME IInv, NEW e \in Emission, NEW s \in Subscription, StartListener(e, s)
    PROVE  IInv'
  <1> USE BusAssumption DEF StartListener, RunListener, busVars
  <1>0. /\ waiting' = [waiting EXCEPT ![e] = @ \ {s}]
        /\ running' = [running EXCEPT ![e] = @ \cup {s}]
        /\ s \in waiting[e] /\ s \notin handled[e]
        /\ e <= emitted
    <2>1. s \in waiting[e] /\ e \in Int /\ emitted \in Int
        BY DEF IInv, TypeOK, Emission
    <2> QED BY <2>1 DEF IInv, OneStage, Untouched
  <1>1. TypeOK'
      BY <1>0 DEF IInv, TypeOK, taskVars
  <1>2. Untouched'
      BY <1>0 DEF IInv, TypeOK, Untouched, Emission
  <1>3. OneStage'
      BY <1>0 DEF IInv, TypeOK, OneStage
  <1>4. Recorded' /\ Crossing' /\ CrossingsMade'
      BY SameDrivers
  <1> QED BY <1>1, <1>2, <1>3, <1>4 DEF IInv

\* A listener call that ends moves from running to handled and nowhere else.
LEMMA FinishIInv ==
    ASSUME IInv, NEW e \in Emission, NEW s \in Subscription, FinishListener(e, s)
    PROVE  IInv'
  <1> USE BusAssumption DEF FinishListener, busVars
  <1>0. /\ running' = [running EXCEPT ![e] = @ \ {s}]
        /\ handled' = [handled EXCEPT ![e] = @ \cup {s}]
        /\ s \in running[e] /\ s \notin waiting[e]
        /\ e <= emitted
    <2>1. s \in running[e] /\ e \in Int /\ emitted \in Int
        BY DEF IInv, TypeOK, Emission
    <2> QED BY <2>1 DEF IInv, OneStage, Untouched
  <1>1. TypeOK'
      BY <1>0 DEF IInv, TypeOK, taskVars
  <1>2. Untouched'
      BY <1>0 DEF IInv, TypeOK, Untouched, Emission
  <1>3. OneStage'
      BY <1>0 DEF IInv, TypeOK, OneStage
  <1>4. Recorded' /\ Crossing' /\ CrossingsMade'
      BY SameDrivers
  <1> QED BY <1>1, <1>2, <1>3, <1>4 DEF IInv

\* An emit that resolves has made every call it owed.
LEMMA SettleIInv ==
    ASSUME IInv, NEW e \in Emission, SettleEmit(e)
    PROVE  IInv'
  <1> USE DEF SettleEmit, Resolve, busVars
  <1>1. TypeOK'
      BY DEF IInv, TypeOK, taskVars
  <1>2. Untouched' /\ OneStage'
      BY DEF IInv, Untouched, OneStage
  <1>3. Recorded' /\ Crossing' /\ CrossingsMade'
      BY SameDrivers
  <1> QED BY <1>1, <1>2, <1>3 DEF IInv
-----------------------------------------------------------------------------
(* Replacing and closing the driver                                          *)

\* Both calls ask the driver the bus has now to close; a use() that finds nobody
\* waiting for a close is the first, every other one is crossed.
LEMMA CallCloseIInv ==
    ASSUME IInv, NEW t \in Task, NEW await \in {"useClosing", "closeClosing"},
           NEW k \in Kind, NEW by \in Callers, CallClose(t, await, k, by)
    PROVE  IInv'
  <1> DEFINE x == (await = "useClosing" /\ Swapping # {})
             c == [pc |-> await, target |-> k, closing |-> current,
                   mark |-> emitted, by |-> by, crossed |-> x]
  <1> USE BusAssumption DEF CallClose, emitVars
  <1>0. /\ call' = [call EXCEPT ![t] = c] /\ call[t].pc = "idle"
        /\ current \in Driver /\ current <= made /\ emitted \in 0..MaxEmission
        /\ by \in SUBSET (Emission \X Subscription)
        /\ UNCHANGED <<made, current, kind, emitVars, closed, crossings>>
      BY DEF IInv, TypeOK, Driver, Callers
  <1>a. call'[t] = c /\ \A u \in Task \ {t} : call'[u] = call[u]
      BY <1>0 DEF IInv, TypeOK
  <1>b. x \in BOOLEAN /\ c.pc = await /\ c.closing = current /\ c.crossed = x
      BY Zenon
  <1>c. /\ ~x /\ await = "useClosing" => \A u \in Task : call[u].pc # "useClosing"
        /\ x => await = "useClosing"
      BY DEF Swapping
  <1> HIDE DEF x
  <1>1. TypeOK'
    <2>1. c \in Call
        BY <1>0, <1>b DEF Call
    <2>2. call' \in [Task -> Call]
        BY <1>0, <2>1 DEF IInv, TypeOK
    <2>3. subs' \subseteq Subscription
        OBVIOUS
    <2> QED BY <2>2, <2>3 DEF IInv, TypeOK
  <1>2. Untouched' /\ OneStage' /\ CrossingsMade'
      BY DEF IInv, Untouched, OneStage, CrossingsMade
  <1>3. Recorded'
      BY <1>0 DEF IInv, TypeOK, Recorded
  <1>4. Crossing'
    <2> HIDE DEF c
    <2>1. Cardinality(Leaked') = Cardinality(Leaked) /\ current' = current
        BY <1>0 DEF Leaked
    <2>2. FirstIsAlone'
        BY <1>a, <1>b, <1>c DEF IInv, Crossing, FirstIsAlone, First
    <2>3. FirstIsFresh'
        BY <1>a, <1>b, <1>c, <2>1 DEF IInv, Crossing, FirstIsFresh, First
    <2>4. FirstIsPaidFor'
        BY <1>a, <1>b, <1>c, <2>1 DEF IInv, Crossing, FirstIsPaidFor, First
    <2>5. LeaksAreCrossings'
        BY <2>1 DEF IInv, Crossing, LeaksAreCrossings
    <2> QED BY <2>2, <2>3, <2>4, <2>5 DEF Crossing
  <1> QED BY <1>1, <1>2, <1>3, <1>4 DEF IInv

\* What a swap lets go of: nothing when the driver it closed is the one the bus
\* still has, and that one driver otherwise.
LEMMA SwapLeaks ==
    ASSUME IInv, NEW t \in Task, UseMake(t)
    PROVE  /\ Cardinality(Leaked') \in Nat
           /\ Cardinality(Leaked') <= Cardinality(Leaked) + 1
           /\ call[t].closing = current => Cardinality(Leaked') <= Cardinality(Leaked)
  <1> USE BusAssumption
  <1>1. /\ made \in Driver /\ made' = made + 1 /\ current' = made + 1
        /\ closed' = closed \cup {call[t].closing} /\ closed \subseteq 1..made
      BY DEF IInv, TypeOK, UseMake, ClosedByNow, RecordClose
  <1>2. Leaked' \subseteq Leaked \cup ({current} \ {call[t].closing})
      BY <1>1 DEF Leaked, Driver
  <1>3. IsFiniteSet(Leaked) /\ Cardinality(Leaked) \in Nat
      BY LeakedIsFinite DEF IInv
  <1>4. CASE call[t].closing = current
    <2>1. Leaked' \subseteq Leaked
        BY <1>2, <1>4
    <2> QED BY <1>3, <2>1, FS_Subset, FS_CardinalityType
  <1>5. CASE call[t].closing # current
    <2>1. Leaked' \subseteq Leaked \cup {current}
        BY <1>2
    <2>2. /\ IsFiniteSet(Leaked \cup {current})
          /\ Cardinality(Leaked \cup {current}) <= Cardinality(Leaked) + 1
      <3>1. /\ IsFiniteSet(Leaked \cup {current})
            /\ \/ Cardinality(Leaked \cup {current}) = Cardinality(Leaked)
               \/ Cardinality(Leaked \cup {current}) = Cardinality(Leaked) + 1
          BY <1>3, FS_AddElement, Zenon
      <3> QED BY <1>3, <3>1
    <2>3. Cardinality(Leaked') <= Cardinality(Leaked \cup {current})
        BY <2>1, <2>2, FS_Subset
    <2>4. IsFiniteSet(Leaked') /\ Cardinality(Leaked \cup {current}) \in Nat
        BY <2>1, <2>2, FS_Subset, FS_CardinalityType
    <2> QED BY <1>3, <1>5, <2>2, <2>3, <2>4, FS_CardinalityType
  <1> QED BY <1>4, <1>5

\* A crossed use() pays for the one driver it may let go of, or for the one the
\* first will; the first lets go of nothing but what has been paid for.
LEMMA UseMakeIInv ==
    ASSUME IInv, NEW t \in Task, UseMake(t)
    PROVE  IInv'
  <1> DEFINE n == made + 1
             c == IF call[t].target = "custom"
                    THEN [Idle EXCEPT !.pc = "connecting", !.by = call[t].by] ELSE Idle
  <1> USE BusAssumption DEF UseMake, emitVars
  <1>0. /\ n \in Driver /\ made \in Driver /\ made' = n /\ current' = n
        /\ current \in 1..made
        /\ kind' = [kind EXCEPT ![n] = call[t].target]
        /\ call' = [call EXCEPT ![t] = c]
        /\ call[t] \in Call /\ call[t].pc = "useClosing"
        /\ closed' = closed \cup {call[t].closing} /\ call[t].closing \in 1..made
      BY DEF IInv, TypeOK, Driver, Call, Recorded, ClosedByNow, RecordClose
  <1>a. c \in Call /\ c.closing = 1 /\ c.pc # "useClosing"
    <2>1. call[t].by \in SUBSET (Emission \X Subscription)
        BY <1>0 DEF Call
    <2>2. 1 \in Driver /\ 0 \in 0..MaxEmission
        BY DEF Driver
    <2>3. CASE call[t].target = "custom"
        BY <2>1, <2>2, <2>3 DEF Call, Idle, Kind
    <2>4. CASE call[t].target # "custom"
        BY <2>2, <2>4 DEF Call, Idle, Kind
    <2> QED BY <2>3, <2>4
  <1> HIDE DEF c
  <1>b. call'[t] = c /\ \A u \in Task \ {t} : call'[u] = call[u]
      BY <1>0 DEF IInv, TypeOK
  <1>c. \A u \in Task : call[u].closing <= made /\ call[u].closing \in Int
    <2>1. \A u \in Task : call[u] \in Call
        BY DEF IInv, TypeOK
    <2> QED BY <2>1 DEF IInv, Recorded, Call, Driver
  <1>1. TypeOK'
    <2>1. call' \in [Task -> Call]
        BY <1>0, <1>a DEF IInv, TypeOK
    <2>2. kind' \in [Driver -> Kind] /\ current' \in 1..made'
        BY <1>0 DEF IInv, TypeOK, Call, Driver
    <2>3. closed' \subseteq 1..made' /\ crossings' \in 0..MaxDriver
        BY <1>0 DEF IInv, TypeOK, CrossingsMade, Driver
    <2>4. subs' \subseteq Subscription
        OBVIOUS
    <2> QED BY <1>0, <2>1, <2>2, <2>3, <2>4 DEF IInv, TypeOK
  <1>2. Untouched' /\ OneStage' /\ CrossingsMade'
      BY <1>0 DEF IInv, TypeOK, Untouched, OneStage, CrossingsMade, Driver
  <1>3. Recorded'
    <2>1. 1 <= made' /\ \A u \in Task : call[u].closing <= made'
        BY <1>0, <1>c DEF Driver
    <2> QED BY <1>a, <1>b, <2>1 DEF Recorded
  <1>4. Crossing'
    <2> DEFINE L == Cardinality(Leaked)
               M == Cardinality(Leaked')
    <2>1. /\ L \in Nat /\ M \in Nat /\ M <= L + 1
          /\ call[t].closing = current => M <= L
        BY SwapLeaks, LeakedIsFinite DEF IInv
    <2>2. L <= crossings /\ crossings \in Nat
        BY DEF IInv, Crossing, LeaksAreCrossings, TypeOK
    <2>3. \A u \in Task : First(u)' => u # t /\ First(u) /\ call'[u] = call[u]
        BY <1>a, <1>b DEF First
    <2>4. \A u \in Task : call'[u].pc = "useClosing" => call'[u].closing # current'
        BY <1>0, <1>a, <1>b, <1>c DEF Driver
    <2>5. FirstIsAlone'
        BY <2>3 DEF IInv, Crossing, FirstIsAlone
    <2>6. FirstIsFresh'
        BY <2>3, <2>4 DEF FirstIsFresh, First
    <2>7. /\ \A u \in Task : First(u)' => M < crossings'
          /\ M <= crossings'
      <3>1. CASE First(t)
        <4>1. crossings' = crossings /\ \A u \in Task : ~First(u)'
            BY <2>3, <3>1 DEF IInv, Crossing, FirstIsAlone, First
        <4>2. CASE call[t].closing = current
            BY <2>1, <2>2, <4>1, <4>2
        <4>3. CASE call[t].closing # current
            BY <2>1, <2>2, <3>1, <4>1, <4>3 DEF IInv, Crossing, FirstIsPaidFor
        <4> QED BY <4>2, <4>3
      <3>2. CASE ~First(t)
        <4>1. crossings' = crossings + 1 /\ M <= crossings'
            BY <1>0, <2>1, <2>2, <3>2 DEF First
        <4>2. ASSUME NEW u \in Task, First(u)' PROVE M < crossings'
          <5>1. First(u)
              BY <2>3, <4>2
          <5>2. CASE call[u].closing = current
            <6>1. call[t].closing = current
                BY <1>0, <5>1, <5>2 DEF IInv, Crossing, FirstIsFresh
            <6> QED BY <2>1, <2>2, <4>1, <6>1
          <5>3. CASE call[u].closing # current
            <6>1. L < crossings
                BY <5>1, <5>3 DEF IInv, Crossing, FirstIsPaidFor
            <6> QED BY <2>1, <2>2, <4>1, <6>1
          <5> QED BY <5>2, <5>3
        <4> QED BY <4>1, <4>2
      <3> QED BY <3>1, <3>2
    <2> QED BY <2>5, <2>6, <2>7 DEF Crossing, FirstIsPaidFor, LeaksAreCrossings
  <1> QED BY <1>1, <1>2, <1>3, <1>4 DEF IInv

\* The ways a call ends that leave the bus with the driver it has.
Return(t) == FactoryThrows(t) \/ CloseDone(t) \/ UseConnectSettles(t) \/ CloseFails(t)

LEMMA ReturnIInv ==
    ASSUME IInv, NEW t \in Task, Return(t)
    PROVE  IInv'
  <1> USE BusAssumption DEF Return, FactoryThrows, CloseDone, UseConnectSettles,
          CloseFails, busVars, emitVars
  <1>0. /\ call' = [call EXCEPT ![t] = Idle]
        /\ UNCHANGED <<busVars, emitVars, crossings>>
        /\ closed' = closed \cup {call[t].closing} \/ UNCHANGED closed
      BY DEF ClosedByNow, RecordClose
  <1>a. Idle \in Call /\ Idle.pc = "idle" /\ Idle.closing = 1
      BY DEF Idle, Call, Kind, Driver
  <1>b. \A u \in Task : call'[u] = call[u] \/ call'[u] = Idle
      BY <1>0 DEF IInv, TypeOK
  <1>c. call[t].closing \in 1..made
    <2>1. call[t] \in Call
        BY DEF IInv, TypeOK
    <2> QED BY <2>1 DEF IInv, Recorded, Call, Driver
  <1>1. TypeOK'
    <2>1. call' \in [Task -> Call]
        BY <1>0, <1>a DEF IInv, TypeOK
    <2>2. closed' \subseteq 1..made
        BY <1>0, <1>c DEF IInv, TypeOK
    <2> QED BY <1>0, <2>1, <2>2 DEF IInv, TypeOK
  <1>2. Untouched' /\ OneStage' /\ CrossingsMade'
      BY <1>0 DEF IInv, Untouched, OneStage, CrossingsMade
  <1>3. Recorded'
      BY <1>0, <1>a, <1>b DEF IInv, TypeOK, Recorded, Driver
  <1>4. Crossing'
    <2>1. \A u \in Task : call'[u].pc = "useClosing" => call'[u] = call[u]
        BY <1>a, <1>b
    <2> QED BY <1>0, <2>1, CrossingStays
  <1> QED BY <1>1, <1>2, <1>3, <1>4 DEF IInv
-----------------------------------------------------------------------------
(* The invariant holds, and with it the properties                           *)

\* Every step, and a stutter, keeps the invariant.
LEMMA NextIInv == IInv /\ [Next]_vars => IInv'
  <1> SUFFICES ASSUME IInv, [Next]_vars PROVE IInv'
      OBVIOUS
  <1>1. CASE Subscribing
      BY <1>1, SubscribingIInv DEF Subscribing
  <1>2. CASE \E ev \in Event : Emit(ev)
      BY <1>2, EmitIInv
  <1>3. CASE Listeners
      BY <1>3, StartIInv, FinishIInv DEF Listeners
  <1>4. CASE Settling
      BY <1>4, SettleIInv DEF Settling
  <1>5. ASSUME NEW t \in Task, NEW by \in Callers,
               (\E k \in Kind : UseStart(t, k, by)) \/ CloseStart(t, by)
        PROVE  IInv'
    <2>1. ASSUME NEW k \in Kind, UseStart(t, k, by) PROVE IInv'
        BY <2>1, CallCloseIInv DEF UseStart
    <2>2. CASE CloseStart(t, by)
      <3>1. "memory" \in Kind
          BY DEF Kind
      <3> QED BY <2>2, <3>1, CallCloseIInv DEF CloseStart
    <2> QED BY <1>5, <2>1, <2>2
  <1>6. ASSUME NEW t \in Task, TaskStep(t) PROVE IInv'
      BY <1>6, UseMakeIInv, ReturnIInv DEF TaskStep, Return
  <1>7. CASE UNCHANGED vars
    <2> USE <1>7 DEF vars
    <2>1. TypeOK' /\ Untouched' /\ OneStage'
        BY DEF IInv, TypeOK, Untouched, OneStage
    <2>2. Recorded' /\ Crossing' /\ CrossingsMade'
        BY SameDrivers DEF taskVars
    <2> QED BY <2>1, <2>2 DEF IInv
  <1> QED BY <1>1, <1>2, <1>3, <1>4, <1>5, <1>6, <1>7 DEF Next

\* The inductive invariant holds throughout: what the bus keeps true between any
\* two continuations (src/events/bus.ts).
THEOREM SpecIInv == Spec => []IInv
  BY InitIInv, NextIInv, PTL DEF Spec

\* Every variable keeps the type the code gives it (src/events/bus.ts); in
\* particular only emits that were made are ever resolved.
THEOREM TypeCorrect == Spec => []TypeOK
  <1>1. IInv => TypeOK
      BY DEF IInv
  <1> QED BY <1>1, SpecIInv, PTL

\* For any number of callers and driver objects, the bus leaves at most one driver
\* open and unreachable for each crossed use() that installs one (EventBus.use).
THEOREM DroppedDriversAreClosed == Spec => []LeaksAreCrossings
  <1>1. IInv => LeaksAreCrossings
      BY DEF IInv, Crossing
  <1> QED BY <1>1, SpecIInv, PTL
-----------------------------------------------------------------------------
(* The bus implements EventDelivery                                          *)

Owed == [e \in Emission |-> waiting[e] \cup running[e] \cup handled[e]]
Wants == [s \in Subscription |-> [ev \in Event |-> matchesEvent(s[1], ev)]]

\* The bus stutters on a step that leaves what EventDelivery sees.
DeliveryVars == <<subs, emitted, Owed, handled, settled>>

\* The bus begins as EventDelivery does.
LEMMA DeliveryInit == Init => Delivery!DInit
  <1> SUFFICES ASSUME Init PROVE Delivery!DInit
      OBVIOUS
  <1>1. Owed = [e \in Emission |-> {}] /\ handled = [e \in Emission |-> {}]
      BY DEF Init, Owed
  <1> QED BY <1>1 DEF Init, Delivery!DInit, Owed

\* Every step of the bus is a step of EventDelivery or leaves all that it sees.
LEMMA DeliveryNext == IInv /\ [Next]_vars => [Delivery!DNext]_(Delivery!dvars)
  <1> SUFFICES ASSUME IInv, [Next]_vars, ~UNCHANGED DeliveryVars
               PROVE  Delivery!DNext
      BY DEF DeliveryVars, Delivery!dvars, Owed
  <1> USE BusAssumption
  <1>1. ASSUME NEW p \in Pattern, NEW l \in Listener, On(p, l) \/ Off(p, l)
        PROVE  Delivery!DNext
    <2>1. <<p, l>> \in Subscription
        BY DEF Subscription
    <2>2. UNCHANGED <<emitted, Owed, handled, settled>>
        BY <1>1 DEF On, Off, emitVars, Owed
    <2>3. CASE On(p, l)
      <3>1. Delivery!Subscribe
          BY <2>1, <2>2, <2>3 DEF Delivery!Subscribe, On, Owed
      <3> QED BY <3>1 DEF Delivery!DNext
    <2>4. CASE Off(p, l)
      <3>1. Delivery!Unsubscribe
          BY <2>1, <2>2, <2>4 DEF Delivery!Unsubscribe, Off, Owed
      <3> QED BY <3>1 DEF Delivery!DNext
    <2> QED BY <1>1, <2>3, <2>4
  <1>2. ASSUME NEW ev \in Event, Emit(ev)
        PROVE  Delivery!DNext
    <2>1. /\ emitted + 1 \in Emission /\ emitted' = emitted + 1
          /\ running[emitted + 1] = {} /\ handled[emitted + 1] = {}
          /\ waiting \in [Emission -> SUBSET Subscription]
        BY <1>2 DEF Emit, IInv, TypeOK, Untouched, Emission
    <2>2. UNCHANGED <<subs, handled, settled>>
        BY <1>2 DEF Emit, busVars
    <2>3. Matching(ev) = {s \in subs : Wants[s][ev]}
      <3>1. subs \subseteq Subscription
          BY DEF IInv, TypeOK
      <3>2. \A s \in Subscription : Wants[s][ev] = matchesEvent(s[1], ev)
          BY DEF Wants
      <3> QED BY <3>1, <3>2 DEF Matching
    <2>4. Owed' = [Owed EXCEPT ![emitted'] = {s \in subs : Wants[s][ev]}]
        BY <1>2, <2>1, <2>3 DEF Emit, Owed
    <2>5. Delivery!Publish(ev)
        BY <2>1, <2>2, <2>4 DEF Delivery!Publish, Owed, Wants
    <2> QED BY <2>5 DEF Delivery!DNext
  <1>3. ASSUME NEW e \in Emission, NEW s \in Subscription, StartListener(e, s)
        PROVE  Delivery!DNext
    <2>1. UNCHANGED <<subs, emitted, handled, settled>>
        BY <1>3 DEF StartListener, RunListener, busVars
    <2>2. \A f \in Emission : waiting'[f] \cup running'[f] = waiting[f] \cup running[f]
        BY <1>3 DEF StartListener, RunListener, IInv, TypeOK
    <2>3. UNCHANGED Owed
        BY <2>1, <2>2 DEF Owed
    <2> QED BY <2>1, <2>3 DEF DeliveryVars
  <1>4. ASSUME NEW e \in Emission, NEW s \in Subscription, FinishListener(e, s)
        PROVE  Delivery!DNext
    <2>1. UNCHANGED <<subs, emitted, settled>>
        BY <1>4 DEF FinishListener, busVars
    <2>2. s \in Owed[e] \ handled[e]
        BY <1>4 DEF FinishListener, IInv, OneStage, Owed
    <2>3. /\ UNCHANGED waiting
          /\ \A f \in Emission : running'[f] \cup handled'[f] = running[f] \cup handled[f]
        BY <1>4 DEF FinishListener, IInv, TypeOK
    <2>4. UNCHANGED Owed
        BY <2>3 DEF Owed
    <2>5. handled' = [handled EXCEPT ![e] = @ \cup {s}]
        BY <1>4 DEF FinishListener
    <2>6. Delivery!Handle(e, s)
        BY <2>1, <2>2, <2>4, <2>5 DEF Delivery!Handle, Owed
    <2> QED BY <2>6 DEF Delivery!DNext
  <1>5. ASSUME NEW e \in Emission, SettleEmit(e)
        PROVE  Delivery!DNext
    <2>1. UNCHANGED <<subs, emitted, Owed, handled>>
        BY <1>5 DEF SettleEmit, Resolve, busVars, Owed
    <2>2. handled[e] = Owed[e]
        BY <1>5 DEF SettleEmit, Owed
    <2>3. e \in 1..emitted /\ e \notin settled /\ settled' = settled \cup {e}
        BY <1>5 DEF SettleEmit, Resolve
    <2>4. Delivery!Ack(e)
        BY <2>1, <2>2, <2>3 DEF Delivery!Ack, Owed
    <2> QED BY <2>4 DEF Delivery!DNext
  <1>6. ASSUME UNCHANGED emitVars, subs' = subs \/ subs' = {}
        PROVE  Delivery!DNext
    <2>1. UNCHANGED <<emitted, Owed, handled, settled>>
        BY <1>6 DEF emitVars, Owed
    <2>2. subs' = {}
        BY <1>6, <2>1 DEF DeliveryVars
    <2>3. Delivery!Forget
        BY <2>1, <2>2 DEF Delivery!Forget, Owed
    <2> QED BY <2>3 DEF Delivery!DNext
  <1>7. ASSUME NEW t \in Task, NEW by \in Callers,
               (\E k \in Kind : UseStart(t, k, by)) \/ CloseStart(t, by)
        PROVE  Delivery!DNext
      BY <1>6, <1>7 DEF UseStart, CloseStart, CallClose
  <1>8. ASSUME NEW t \in Task, TaskStep(t)
        PROVE  Delivery!DNext
    <2>1. UNCHANGED emitVars /\ (subs' = subs \/ subs' = {})
        BY <1>8 DEF TaskStep, UseMake, FactoryThrows, CloseDone, UseConnectSettles,
                    CloseFails, busVars
    <2> QED BY <1>6, <2>1
  <1>9. ~UNCHANGED vars
      BY DEF vars, DeliveryVars, Owed
  <1> QED
      BY <1>1, <1>2, <1>3, <1>4, <1>5, <1>7, <1>8, <1>9
      DEF Next, Subscribing, Listeners, Settling

\* The bus with its driver objects, queues and swaps delivers as EventDelivery
\* promises: each emit calls exactly the listeners that matched when it was made,
\* once each, and resolves when all of them are done (MemoryEventDriver.emit).
THEOREM BusDelivers == Spec => DeliverySpec
  <1>1. Delivery!DInit /\ [][Delivery!DNext]_(Delivery!dvars) => DeliverySpec
      BY DEF DeliverySpec, Delivery!DSpec
  <1> QED BY <1>1, DeliveryInit, DeliveryNext, SpecIInv, PTL DEF Spec
=============================================================================
