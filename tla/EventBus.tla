------------------------------ MODULE EventBus ------------------------------
(* The event bus (src/events/bus.ts) over the in-process driver              *)
(* (src/events/drivers/memory.ts) and over custom drivers that connect and   *)
(* close asynchronously and may fail at both (the EventDriver interface).    *)
(*                                                                           *)
(* JavaScript runs one continuation at a time, so an action is the code      *)
(* between two awaits.  Microtasks run in the order they were queued: emit   *)
(* queues one per matching listener, and the continuation of an awaited      *)
(* driver.close() is queued behind those already there.                      *)
EXTENDS EventNames, FiniteSets

CONSTANTS Listener,      \* listener functions, by identity
          Pattern,       \* the patterns the program subscribes with
          Event,         \* the names it emits
          Task,          \* callers of use() and close(), one call at a time
          MaxEmission,   \* bound on the number of emits
          MaxDriver      \* bound on the number of driver objects made

ASSUME BusAssumption ==
    /\ Pattern \subseteq EventPattern
    /\ Event \subseteq EventName
    /\ MaxEmission \in Nat /\ MaxDriver \in Nat \ {0}

Kind == {"memory", "custom"}
Subscription == Pattern \X Listener
Emission == 1..MaxEmission
Driver == 1..MaxDriver

VARIABLES
    made,       \* driver objects made so far; they are 1..made
    current,    \* EventBus.driver
    kind,       \* kind[d]: the factory d came from
    subs,       \* MemoryEventDriver.listeners of the current driver, if it is one
    emitted,    \* emits so far
    waiting,    \* waiting[e]: listener calls queued by emit e
    running,    \* running[e]: listener calls of e that started
    handled,    \* handled[e]: listener calls of e that returned or threw
    settled,    \* emits whose promise resolved
    call,       \* call[t]: what task t awaits inside use() or close()
    closed,     \* the driver objects whose close() has been awaited
    crossings   \* history: crossed use() calls that have installed a driver

busVars == <<made, current, kind, subs>>
emitVars == <<emitted, waiting, running, handled, settled>>
taskVars == <<call, closed, crossings>>
vars == <<made, current, kind, subs, emitted, waiting, running, handled,
          settled, call, closed, crossings>>

\* A call in progress: its await, the kind use() was given, the driver object it
\* called close() on, how many emits had been made then, the listener call whose
\* body awaits it (none when it comes from outside the listeners), and whether
\* it is a use() that began while another one was waiting for a close.
Idle == [pc |-> "idle", target |-> "memory", closing |-> 1, mark |-> 0, by |-> {},
         crossed |-> FALSE]
Call == [pc : {"idle", "useClosing", "connecting", "closeClosing"},
         target : Kind, closing : Driver, mark : 0..MaxEmission,
         by : SUBSET (Emission \X Subscription), crossed : BOOLEAN]

TypeOK ==
    /\ made \in Driver /\ current \in 1..made
    /\ kind \in [Driver -> Kind]
    /\ subs \subseteq Subscription
    /\ emitted \in 0..MaxEmission
    /\ waiting \in [Emission -> SUBSET Subscription]
    /\ running \in [Emission -> SUBSET Subscription]
    /\ handled \in [Emission -> SUBSET Subscription]
    /\ settled \subseteq 1..emitted
    /\ call \in [Task -> Call]
    /\ closed \subseteq 1..made
    /\ crossings \in 0..MaxDriver

\* The constructor installs a memory driver.
Init ==
    /\ made = 1 /\ current = 1
    /\ kind = [d \in Driver |-> "memory"]
    /\ subs = {}
    /\ emitted = 0
    /\ waiting = [e \in Emission |-> {}]
    /\ running = [e \in Emission |-> {}]
    /\ handled = [e \in Emission |-> {}]
    /\ settled = {}
    /\ call = [t \in Task |-> Idle]
    /\ closed = {} /\ crossings = 0
-----------------------------------------------------------------------------
(* Subscribing and publishing                                                *)

\* on: a Set of listeners per pattern, so subscribing twice is subscribing once.
\* A pattern assertEventPattern refuses throws here and changes nothing; what a
\* custom driver makes of a subscription is its own affair.
On(p, l) ==
    /\ kind[current] = "memory"
    /\ subs' = subs \cup {<<p, l>>}
    /\ UNCHANGED <<made, current, kind, emitVars, taskVars>>

Off(p, l) ==
    /\ kind[current] = "memory"
    /\ subs' = subs \ {<<p, l>>}
    /\ UNCHANGED <<made, current, kind, emitVars, taskVars>>

\* The listener calls a memory driver queues for event ev: those registered now.
Matching(ev) == {s \in subs : matchesEvent(s[1], ev)}

\* emit runs to driver.emit and through its loop without an await.
Emit(ev) ==
    /\ emitted < MaxEmission
    /\ emitted' = emitted + 1
    /\ waiting' = [waiting EXCEPT ![emitted + 1] = Matching(ev)]
    /\ UNCHANGED <<busVars, running, handled, settled, taskVars>>

RunListener(e, s) ==
    /\ s \in waiting[e]
    /\ waiting' = [waiting EXCEPT ![e] = @ \ {s}]
    /\ running' = [running EXCEPT ![e] = @ \cup {s}]
    /\ UNCHANGED <<busVars, emitted, handled, settled, taskVars>>

\* The microtask of one listener call: everything queued by an earlier emit ran.
StartListener(e, s) ==
    /\ \A f \in 1..(e - 1) : waiting[f] = {}
    /\ RunListener(e, s)

\* The listener's promise settles; a failure is caught and logged, so the other
\* calls of the same emit do not notice it.  A body that awaits a use() or
\* close() of its own is not done before that returns.
FinishListener(e, s) ==
    /\ s \in running[e]
    /\ \A t \in Task : <<e, s>> \notin call[t].by
    /\ running' = [running EXCEPT ![e] = @ \ {s}]
    /\ handled' = [handled EXCEPT ![e] = @ \cup {s}]
    /\ UNCHANGED <<busVars, emitted, waiting, settled, taskVars>>

Resolve(e) ==
    /\ settled' = settled \cup {e}
    /\ UNCHANGED <<busVars, emitted, waiting, running, handled, taskVars>>

\* await Promise.all(tasks), then the caller of emit continues.
SettleEmit(e) ==
    /\ e \in 1..emitted /\ e \notin settled
    /\ waiting[e] = {} /\ running[e] = {}
    /\ Resolve(e)
-----------------------------------------------------------------------------
(* Replacing and closing the driver                                          *)

\* The use() calls that wait for the driver they will drop.
Swapping == {t \in Task : call[t].pc = "useClosing"}

\* this.driver.close() is called: a memory driver clears its map at once, a
\* custom one is only asked to (and has no map here).  A listener body awaits one call at a time.
CallClose(t, await, k, by) ==
    /\ call[t].pc = "idle"
    /\ \A x \in by : x[2] \in running[x[1]] /\ \A u \in Task : x \notin call[u].by
    /\ call' = [call EXCEPT ![t] = [pc |-> await, target |-> k,
           closing |-> current, mark |-> emitted, by |-> by,
           crossed |-> await = "useClosing" /\ Swapping # {}]]
    /\ subs' = {}
    /\ UNCHANGED <<made, current, kind, emitVars, closed, crossings>>

\* The bound on driver objects, counting the ones being made.
RoomForDriver == made + Cardinality(Swapping) < MaxDriver

\* use(name) for a registered factory.  An unknown name throws before this.
UseStart(t, k, by) ==
    /\ RoomForDriver
    /\ CallClose(t, "useClosing", k, by)

CloseStart(t, by) == CallClose(t, "closeClosing", "memory", by)

RecordClose(t) == closed' = closed \cup {call[t].closing}

\* Two faulty ways to get past the await: a use() that never closes the driver it
\* drops, and a close() that waits for its listeners to end.
CloseForgotten(t) == UNCHANGED closed
CloseWhenDrained(t) ==
    /\ \A e \in 1..call[t].mark : waiting[e] = {} /\ running[e] = {}
    /\ RecordClose(t)

\* The continuation of `await driver.close()`: for a memory driver it is behind
\* every listener call that was queued when close was called.
ClosedByNow(t) ==
    /\ kind[call[t].closing] = "memory" =>
           \A e \in 1..call[t].mark : waiting[e] = {}
    /\ RecordClose(t)

\* The rest of use(): install the new object, a memory driver without listeners
\* and without a connect; what was subscribed meanwhile is dropped with the old.
UseMake(t) ==
    /\ call[t].pc = "useClosing" /\ ClosedByNow(t)
    /\ made < MaxDriver
    /\ made' = made + 1 /\ current' = made + 1
    /\ kind' = [kind EXCEPT ![made + 1] = call[t].target]
    /\ call' = [call EXCEPT ![t] =
           IF @.target = "custom" THEN [Idle EXCEPT !.pc = "connecting", !.by = call[t].by]
                                  ELSE Idle]
    /\ crossings' = IF call[t].crossed THEN crossings + 1 ELSE crossings
    /\ subs' = {}
    /\ UNCHANGED emitVars

\* factory(options) throws and takes use() with it: the bus stays on the driver
\* it has, which this call, or another one, has closed.
FactoryThrows(t) ==
    /\ call[t].pc = "useClosing" /\ call[t].target = "custom" /\ ClosedByNow(t)
    /\ call' = [call EXCEPT ![t] = Idle]
    /\ UNCHANGED <<busVars, emitVars, crossings>>

CloseDone(t) ==
    /\ call[t].pc = "closeClosing" /\ ClosedByNow(t)
    /\ call' = [call EXCEPT ![t] = Idle]
    /\ UNCHANGED <<busVars, emitVars, crossings>>

\* connect() resolves, or rejects and takes use() with it: the bus keeps the new
\* driver either way.
UseConnectSettles(t) ==
    /\ call[t].pc = "connecting"
    /\ call' = [call EXCEPT ![t] = Idle]
    /\ UNCHANGED <<busVars, emitVars, closed, crossings>>

\* A custom driver's close() rejects: use() or close() throws, the bus keeps the
\* driver it had.
CloseFails(t) ==
    /\ call[t].pc \in {"useClosing", "closeClosing"}
    /\ kind[call[t].closing] = "custom"
    /\ call' = [call EXCEPT ![t] = Idle]
    /\ UNCHANGED <<busVars, emitVars, closed, crossings>>
-----------------------------------------------------------------------------
\* A use() or close() is called from outside, or from one listener's body.
Callers == {{}} \cup {{x} : x \in Emission \X Subscription}

Subscribing == \E p \in Pattern, l \in Listener : On(p, l) \/ Off(p, l)
Listeners ==
    \E e \in Emission, s \in Subscription : StartListener(e, s) \/ FinishListener(e, s)
Settling == \E e \in Emission : SettleEmit(e)
TaskStep(t) ==
    \/ UseMake(t) \/ FactoryThrows(t) \/ UseConnectSettles(t)
    \/ CloseDone(t) \/ CloseFails(t)

Next ==
    \/ Subscribing
    \/ \E ev \in Event : Emit(ev)
    \/ Listeners
    \/ Settling
    \/ \E t \in Task, by \in Callers : \/ \E k \in Kind : UseStart(t, k, by)
                                      \/ CloseStart(t, by)
    \/ \E t \in Task : TaskStep(t)

Spec == Init /\ [][Next]_vars

\* The event loop runs queued microtasks.  Of the code outside the bus it is
\* assumed that a custom driver's connect and close settle, and that a listener
\* body ends: it may call use() or close() repeatedly, not forever (hence SF).
Fairness ==
    /\ WF_vars(\E e \in Emission, s \in Subscription : StartListener(e, s))
    /\ \A e \in Emission, s \in Subscription : SF_vars(FinishListener(e, s))
    /\ \A e \in Emission : WF_vars(SettleEmit(e))
    /\ \A t \in Task : WF_vars(TaskStep(t))

FairSpec == Spec /\ Fairness
-----------------------------------------------------------------------------
(* Properties                                                                *)

\* Every emit calls exactly the listeners that matched when it was made, once
\* each, through any later off, close or use, and resolves only when all of
\* them have finished (MemoryEventDriver.emit snapshots before its await).
Delivery == INSTANCE EventDelivery WITH
    Match <- [s \in Subscription |-> [ev \in Event |-> matchesEvent(s[1], ev)]],
    registered <- subs,
    published <- emitted,
    owed <- [e \in Emission |-> waiting[e] \cup running[e] \cup handled[e]],
    acked <- settled
DeliverySpec == Delivery!DSpec

\* Driver objects the bus has let go of without closing them; nobody ever will.
Leaked == {d \in 1..made : d # current} \ closed

\* A swap closes what it drops, however uses, closes, failures of either and
\* throwing factories come together: at most one driver object is left open and
\* unreachable for each use() that began while another was waiting for its close
\* and then installed a driver of its own.
LeaksAreCrossings == Cardinality(Leaked) <= crossings

\* Every use() and close() returns, even one made from inside a listener whose
\* own emit is still waiting for it: it waits for calls to start, not to end.
TaskReturns == \A t \in Task : call[t].pc # "idle" ~> call[t].pc = "idle"
=============================================================================
