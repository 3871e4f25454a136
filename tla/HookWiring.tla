----------------------------- MODULE HookWiring -----------------------------
(* From hook files to listeners on the bus: the loader (src/hooks/loader.ts, *)
(* src/hooks/define.ts), the registry (src/hooks/registry.ts), which         *)
(* subscribes a hook to one pattern after another with an await between,     *)
(* and a bus whose in-process driver may be closed or replaced meanwhile     *)
(* (EventBus models that part in detail).                                    *)
EXTENDS EventNames, Integers, FiniteSets

CONSTANTS Hook,          \* hook objects
          Id,            \* ids of hooks
          IdOf,          \* IdOf[h]: meta().id
          Pattern,       \* what a list of patterns may hold, legal patterns or not
          On,            \* On[h]: listenTo(), a sequence of patterns
          Grade,         \* Grade[h]: what loading h finds, see Grades
          FileLists,     \* what the hook files' default exports may be, in loading order
          Event,         \* event names that are emitted
          Program,       \* program parts that register hooks themselves
          MaxRun,        \* bound on registrations
          MaxSwap        \* bound on closes and swaps of the driver

\* "hook" is complete; "skipped" has no id or no events; "ignored" is not a hook,
\* or a class whose constructor throws; "broken" throws in its import or meta().
Grades == {"hook", "skipped", "ignored", "broken"}

ASSUME WiringAssumption ==
    /\ IdOf \in [Hook -> Id] /\ Grade \in [Hook -> Grades]
    /\ On \in [Hook -> Seq(Pattern)] /\ "loader" \notin Program
    /\ FileLists \subseteq Seq(Hook) /\ MaxRun \in Nat /\ MaxSwap \in Nat
    /\ \A h \in Hook : Grade[h] = "hook" => Len(On[h]) > 0

Registrar == {"loader"} \cup Program
Nobody == "nobody"
Run == 1..MaxRun

VARIABLES
    files,       \* the hook files there are
    hooks,       \* HookRegistry.hooks: the hook an id stands for
    registered,  \* registered[n]: the hook of the n-th registration
    listeners,   \* closures subscribed: registration and position in its list
    awaiting,    \* awaiting[r]: the registration r awaits on() in, if it does
    file,        \* the loader's next file
    loaded,      \* what loadHooks counts
    boot,        \* loadHooks is under way, resolved or rejected
    swapping,    \* a driver's close is awaited, and use() will replace it
    swaps,
    disturbed    \* history: registrations a close or a swap met or followed, or
                 \* that threw

wiringVars == <<files, hooks, registered, listeners, awaiting, file, loaded, boot, swapping, swaps, disturbed>>

Free == [run |-> 0, next |-> 1]

WiringTypeOK ==
    /\ files \in FileLists
    /\ hooks \in [Id -> Hook \cup {Nobody}]
    /\ registered \in Seq(Hook) /\ Len(registered) <= MaxRun
    /\ listeners \subseteq [run : Run, nth : Nat]
    /\ \A l \in listeners : /\ l.run \in DOMAIN registered
                            /\ l.nth \in DOMAIN On[registered[l.run]]
    /\ awaiting \in [Registrar -> [run : {0} \cup Run, next : Nat]]
    /\ file \in 1..(Len(files) + 1) /\ loaded \in 0..Len(files)
    /\ boot \in {"loading", "ready", "failed"}
    /\ swapping \in BOOLEAN /\ swaps \in 0..MaxSwap
    /\ disturbed \subseteq DOMAIN registered

WiringInit ==
    /\ files \in FileLists
    /\ hooks = [i \in Id |-> Nobody]
    /\ registered = <<>> /\ listeners = {}
    /\ awaiting = [r \in Registrar |-> Free]
    /\ file = 1 /\ loaded = 0 /\ boot = "loading"
    /\ swapping = FALSE /\ swaps = 0 /\ disturbed = {}

busVars == <<swapping, swaps>>
-----------------------------------------------------------------------------
(* register()                                                                *)

\* `await events.on(pattern, closure)` for place n of the list: a memory driver has
\* the closure when the call returns, and an illegal pattern rejects the call.  A
\* faulty registry drops the closure of the registration before.
OnInstead(r, h, run, n) ==
    /\ On[h][n] \in EventPattern
    /\ listeners' = {l \in listeners : l.run # run} \cup {[run |-> run, nth |-> n]}
    /\ awaiting' = [awaiting EXCEPT ![r] = [run |-> run, next |-> n + 1]]
    /\ UNCHANGED disturbed
OnAccepts(r, h, run, n) ==
    /\ On[h][n] \in EventPattern
    /\ listeners' = listeners \cup {[run |-> run, nth |-> n]}
    /\ awaiting' = [awaiting EXCEPT ![r] = [run |-> run, next |-> n + 1]]
    /\ UNCHANGED disturbed

\* register() rejects and leaves the earlier closures and the registry entry.
OnThrows(r, h, run, n) ==
    /\ On[h][n] \notin EventPattern
    /\ awaiting' = [awaiting EXCEPT ![r] = Free]
    /\ disturbed' = disturbed \cup {run}
    /\ UNCHANGED listeners

\* The registry entry, and the first subscription, before the first await.  A faulty
\* registry keeps the first hook of an id.
RegisterKeepsFirst(r, h) ==
    /\ awaiting[r] = Free /\ Len(registered) < MaxRun
    /\ hooks' = [hooks EXCEPT ![IdOf[h]] = IF @ = Nobody THEN h ELSE @]
    /\ registered' = Append(registered, h)
    /\ LET run == Len(registered) + 1 IN
           OnAccepts(r, h, run, 1) \/ OnThrows(r, h, run, 1)
Register(r, h) ==
    /\ awaiting[r] = Free /\ Len(registered) < MaxRun
    /\ hooks' = [hooks EXCEPT ![IdOf[h]] = h]
    /\ registered' = Append(registered, h)
    /\ LET run == Len(registered) + 1 IN
           OnAccepts(r, h, run, 1) \/ OnThrows(r, h, run, 1)

\* A part of the program registers a hook, one that loading found already or another.
\* (The second guard is the bound: it leaves a registration for every file to come.)
ProgramRegisters(r, h) ==
    /\ r \in Program /\ Grade[h] = "hook"
    /\ Len(registered) + (Len(files) - file + 1) < MaxRun
    /\ Register(r, h)
    /\ UNCHANGED <<files, file, loaded, boot, busVars>>

\* The next pattern of the list.
Subscribe(r) ==
    LET run == awaiting[r].run
        n == awaiting[r].next
    IN  /\ run # 0 /\ n \in DOMAIN On[registered[run]]
        /\ \/ OnAccepts(r, registered[run], run, n) /\ UNCHANGED boot
           \/ /\ OnThrows(r, registered[run], run, n)
              /\ boot' = IF r = "loader" THEN "failed" ELSE boot
        /\ UNCHANGED <<files, hooks, registered, file, loaded, busVars>>

\* register() returns after the last one, and the loader counts the hook.
Registered(r) ==
    /\ awaiting[r].run # 0 /\ awaiting[r].next > Len(On[registered[awaiting[r].run]])
    /\ awaiting' = [awaiting EXCEPT ![r] = Free]
    /\ loaded' = IF r = "loader" THEN loaded + 1 ELSE loaded
    /\ UNCHANGED <<files, hooks, registered, listeners, file, boot, busVars, disturbed>>
-----------------------------------------------------------------------------
(* loadHooks()                                                               *)

\* The next file; a skipped hook counts as loaded too.
LoadFile ==
    /\ boot = "loading" /\ awaiting["loader"] = Free /\ file <= Len(files)
    /\ LET h == files[file] IN
       \/ /\ Grade[h] \in {"ignored", "skipped"}
          /\ loaded' = IF Grade[h] = "skipped" THEN loaded + 1 ELSE loaded
          /\ UNCHANGED <<hooks, registered, listeners, awaiting, boot, disturbed>>
       \/ /\ Grade[h] = "broken" /\ boot' = "failed"
          /\ UNCHANGED <<hooks, registered, listeners, awaiting, loaded, disturbed>>
       \/ /\ Grade[h] = "hook" /\ Register("loader", h)
          /\ boot' = IF On[h][1] \in EventPattern THEN boot ELSE "failed"
          /\ UNCHANGED loaded
    /\ file' = file + 1
    /\ UNCHANGED <<files, busVars>>

\* When loadHooks returns.
AllFilesDone == file > Len(files) /\ awaiting["loader"] = Free

Loaded ==
    /\ boot = "loading" /\ AllFilesDone
    /\ boot' = "ready"
    /\ UNCHANGED <<files, hooks, registered, listeners, awaiting, file, loaded, busVars, disturbed>>
-----------------------------------------------------------------------------
(* The bus under it                                                          *)

\* close(), or the first half of use(): every closure is forgotten at once; the
\* registry is not told.
CloseDriver(forUse) ==
    /\ ~swapping /\ swaps < MaxSwap
    /\ listeners' = {}
    /\ swapping' = forUse /\ swaps' = swaps + 1
    /\ disturbed' = DOMAIN registered
    /\ UNCHANGED <<files, hooks, registered, awaiting, file, loaded, boot>>

\* The second half: what was subscribed in between stays with the old driver.
NewDriver ==
    /\ swapping
    /\ listeners' = {} /\ swapping' = FALSE
    /\ disturbed' = DOMAIN registered
    /\ UNCHANGED <<files, hooks, registered, awaiting, file, loaded, boot, swaps>>

Loading == LoadFile \/ Subscribe("loader") \/ Registered("loader") \/ Loaded
WiringNext ==
    \/ Loading
    \/ \E r \in Program : \/ \E h \in Hook : ProgramRegisters(r, h)
                          \/ Subscribe(r) \/ Registered(r)
    \/ \E forUse \in BOOLEAN : CloseDriver(forUse)
    \/ NewDriver

WiringSpec == WiringInit /\ [][WiringNext]_wiringVars
-----------------------------------------------------------------------------
(* Properties                                                                *)

Pending == {awaiting[r].run : r \in Registrar}
Complete == DOMAIN registered \ (Pending \cup disturbed)

\* How often an emit of e would run hook h.
TimesRun(h, e) ==
    Cardinality({l \in listeners : registered[l.run] = h /\
                                   matchesEvent(On[h][l.nth], e)})

\* An emit runs a hook once for each registration of it and each matching entry of
\* its list, never less: registering again adds and replaces nothing.
CallsPerRegistration ==
    (\A n \in DOMAIN registered : n \in Complete) =>
        \A h \in Hook, e \in Event :
            TimesRun(h, e) =
                Cardinality({n \in DOMAIN registered : registered[n] = h})
                  * Cardinality({k \in DOMAIN On[h] : matchesEvent(On[h][k], e)})

\* Whatever is heard is listed: a closure on the bus belongs to a hook whose id the
\* registry has, under a later hook of the same id if it was registered again.
HeardIsListed ==
    \A l \in listeners : \E m \in DOMAIN registered :
        /\ m >= l.run
        /\ IdOf[registered[m]] = IdOf[registered[l.run]]
        /\ hooks[IdOf[registered[l.run]]] = registered[m]
=============================================================================
