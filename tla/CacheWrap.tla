------------------------------ MODULE CacheWrap ------------------------------
(* CacheManager.wrap over one key (src/cache/manager.ts): look up, load on a *)
(* miss, store, return.  The awaits let other calls in, and use() of another *)
(* driver, which moves nothing from the cache behind the one to the other.   *)
(* The source behind the loader is a counter of versions, so a stale value   *)
(* is an older version; the program that changes the source deletes the key  *)
(* afterwards.  Time is in ms.                                               *)
EXTENDS Integers

CONSTANTS Caller,      \* calls of wrap(), each with its own loader
          Cache,       \* what driver objects stand for: a Map, a Redis, a Memcached
          Nowhere,     \* no cache
          Kinds,       \* of "memory", "redis" and "memcached", those to consider
          TtlMs,       \* the ttlMs of wrap(); 0 stores without expiry
          SecondMs,    \* the unit a Memcached TTL is rounded up to
          MaxVersion,  \* bound on changes of the source
          MaxTime      \* bound on the clock

ASSUME CacheAssumption ==
    /\ Nowhere \notin Cache
    /\ Kinds \subseteq {"memory", "redis", "memcached"}
    /\ TtlMs \in Nat /\ SecondMs \in Nat \ {0}
    /\ MaxVersion \in Nat /\ MaxTime \in Nat

Later(a, b) == IF a > b THEN a ELSE b

Version == 0..MaxVersion
Never == MaxTime + TtlMs + SecondMs
Entry == [present : BOOLEAN, version : Version, expiresAt : 0..Never]

VARIABLES
    kind,        \* kind[c]: what c is
    driver,      \* the cache behind the manager
    clock,
    source,      \* the version the source has
    replacedAt,  \* replacedAt[v]: when the source left version v, or Never
    entry,       \* entry[c]: the entry in c: there, its version, when it expires
    pc,          \* pc[w]: the await caller w is in
    value,       \* value[w]: what its loader read
    loadedAt,    \* loadedAt[w]: when
    target,      \* target[w]: the cache its set was sent to
    slowest,     \* history: the longest time from a load to its store
    pending,     \* the source has changed and the key is not deleted since
    crossed,     \* history: callers whose load a delete came after
    missed       \* history: caches that may hold what a delete did not take away

program == <<source, replacedAt>>
callers == <<pc, value, loadedAt, target>>
vars == <<kind, driver, clock, source, replacedAt, entry, pc, value, loadedAt, target,
          slowest, pending, crossed, missed>>

TypeOK ==
    /\ kind \in [Cache -> Kinds] /\ driver \in Cache
    /\ clock \in 0..MaxTime
    /\ source \in Version
    /\ replacedAt \in [Version -> 0..Never]
    /\ entry \in [Cache -> Entry]
    /\ pc \in [Caller -> {"idle", "load", "loaded", "set"}]
    /\ value \in [Caller -> Version] /\ loadedAt \in [Caller -> 0..MaxTime]
    /\ target \in [Caller -> Cache \cup {Nowhere}]
    /\ slowest \in 0..MaxTime
    /\ pending \in BOOLEAN /\ crossed \subseteq Caller /\ missed \subseteq Cache

Absent == [present |-> FALSE, version |-> 0, expiresAt |-> 0]

Init ==
    /\ kind \in [Cache -> Kinds] /\ driver \in Cache
    /\ clock = 0 /\ source = 0
    /\ replacedAt = [v \in Version |-> Never]
    /\ entry = [c \in Cache |-> Absent]
    /\ pc = [w \in Caller |-> "idle"]
    /\ value = [w \in Caller |-> 0] /\ loadedAt = [w \in Caller |-> 0]
    /\ target = [w \in Caller |-> Nowhere]
    /\ slowest = 0 /\ pending = FALSE /\ crossed = {} /\ missed = {}
-----------------------------------------------------------------------------
\* How long a stored entry lives; 0 is for ever.  MemcachedCache.set rounds up to
\* whole seconds, at least one; the other two keep milliseconds.
Lifetime(c) ==
    IF kind[c] = "memcached" /\ TtlMs # 0
      THEN SecondMs * Later(1, (TtlMs + SecondMs - 1) \div SecondMs)
      ELSE TtlMs

\* What a get sees: an entry whose time has come is gone, at the very moment.  A
\* faulty get lets the expiring millisecond through.
LiveAtExpiry(c) == entry[c].present /\ entry[c].expiresAt >= clock
Live(c) == entry[c].present /\ entry[c].expiresAt > clock

\* A miss goes on to the loader; a hit returns the entry and is no step of its own.  A
\* remote cache may answer when it is no longer the driver.
Miss(w, c) ==
    /\ pc[w] = "idle" /\ ~Live(c)
    /\ c = driver \/ kind[c] # "memory"
    /\ pc' = [pc EXCEPT ![w] = "load"]
    /\ UNCHANGED <<kind, driver, clock, program, entry, value, loadedAt, target,
                   slowest, pending, crossed, missed>>

\* The loader reads the source.
Load(w) ==
    /\ pc[w] = "load"
    /\ pc' = [pc EXCEPT ![w] = "loaded"]
    /\ value' = [value EXCEPT ![w] = source]
    /\ loadedAt' = [loadedAt EXCEPT ![w] = clock]
    /\ crossed' = crossed \ {w}
    /\ UNCHANGED <<kind, driver, clock, program, entry, target, slowest, pending, missed>>

\* The loader resolves: the set goes to the driver of now.
Send(w) ==
    /\ pc[w] = "loaded" /\ kind[driver] # "memory"
    /\ pc' = [pc EXCEPT ![w] = "set"]
    /\ target' = [target EXCEPT ![w] = driver]
    /\ UNCHANGED <<kind, driver, clock, program, entry, value, loadedAt, slowest, pending, crossed, missed>>

Return(w) ==
    /\ pc' = [pc EXCEPT ![w] = "idle"]
    /\ value' = [value EXCEPT ![w] = 0]
    /\ loadedAt' = [loadedAt EXCEPT ![w] = 0]
    /\ target' = [target EXCEPT ![w] = Nowhere]
    /\ crossed' = crossed \ {w}

\* When an entry stored now expires.
Expiry(c) == IF Lifetime(c) = 0 THEN Never ELSE clock + Lifetime(c)

\* The set is applied, by a MemoryCache within the call, and wrap returns the value (or
\* rejects, when a remote cache applied it and the answer was lost).
Store(w, c) ==
    /\ \/ pc[w] = "loaded" /\ kind[c] = "memory" /\ driver = c
       \/ pc[w] = "set" /\ target[w] = c
    /\ entry' = [entry EXCEPT ![c] =
           [present |-> TRUE, version |-> value[w], expiresAt |-> Expiry(c)]]
    /\ slowest' = Later(slowest, clock - loadedAt[w])
    /\ missed' = IF w \in crossed THEN missed \cup {c} ELSE missed \ {c}
    /\ Return(w)
    /\ UNCHANGED <<kind, driver, clock, program, pending>>

\* The loader or the set rejects and wrap with it; nothing is stored.
Reject(w) ==
    /\ pc[w] # "idle"
    /\ Return(w)
    /\ UNCHANGED <<kind, driver, clock, program, entry, slowest, pending, missed>>

\* The program changes the source, and then deletes the key.
Change ==
    /\ source < MaxVersion
    /\ source' = source + 1
    /\ replacedAt' = [replacedAt EXCEPT ![source] = clock]
    /\ pending' = TRUE
    /\ UNCHANGED <<kind, driver, clock, entry, callers, slowest, crossed, missed>>

ForgetNothing(c) == UNCHANGED entry
Forget(c) == entry' = [entry EXCEPT ![c] = Absent]

\* A del is applied, by a MemoryCache within the call; a remote cache may by then no
\* longer be the driver.
Del(c) ==
    /\ c = driver \/ kind[c] # "memory"
    /\ Forget(c)
    /\ pending' = FALSE
    /\ crossed' = {w \in Caller : pc[w] \in {"loaded", "set"}}
    /\ missed' = {x \in Cache \ {c} : x \in missed \/ Live(x)}
    /\ UNCHANGED <<kind, driver, clock, program, callers, slowest>>

\* use(): another driver takes over, with whatever its cache holds; the one before is
\* neither emptied nor closed.
Use(c) ==
    /\ c # driver /\ driver' = c
    /\ UNCHANGED <<kind, clock, program, entry, callers, slowest, pending, crossed, missed>>

\* close(): a MemoryCache is emptied; the other two hang up and keep their entries.
Close ==
    /\ kind[driver] = "memory" /\ Forget(driver)
    /\ missed' = missed \ {driver}
    /\ UNCHANGED <<kind, driver, clock, program, callers, slowest, pending, crossed>>

Tick ==
    /\ clock < MaxTime
    /\ clock' = clock + 1
    /\ UNCHANGED <<kind, driver, program, entry, callers, slowest, pending, crossed, missed>>

Next ==
    \/ \E w \in Caller :
          \/ Load(w) \/ Send(w) \/ Reject(w)
          \/ \E c \in Cache : Miss(w, c) \/ Store(w, c)
    \/ Change \/ Close \/ Tick
    \/ \E c \in Cache : Del(c) \/ Use(c)

Spec == Init /\ [][Next]_vars
-----------------------------------------------------------------------------
(* Properties                                                                *)

\* Once a change of the source has been followed by its delete, no cache that the manager
\* has or may be given again returns an older version, but for two that a delete does not
\* reach: what the cache held while the delete went to another, and what a wrap stores
\* that had loaded before the delete.  Either lasts until that cache is stored to or
\* deleted from again, or runs out.
DeleteIsFinal ==
    \A c \in Cache \ missed : ~pending /\ Live(c) => entry[c].version = source

\* A hit is never older than the entry's lifetime plus the longest time a caller
\* took from its load to its store, however calls, deletes and swaps interleave.
StalenessBounded ==
    \A c \in Cache :
        Live(c) /\ Lifetime(c) # 0 /\ entry[c].version # source =>
            clock - replacedAt[entry[c].version] < Lifetime(c) + slowest
=============================================================================
