----------------------------- MODULE RateLimiter -----------------------------
(* The fixed-window rate limiter (src/http/rate-limit.ts) for the requests   *)
(* of one client key, over the three places its counter can live:            *)
(*   "local"   no store: the limiter's own Map                               *)
(*   "memory"  MemoryCache, which hands out the stored object itself         *)
(*   "redis"   RedisCache, which hands out a copy (JSON both ways)           *)
(* With a store the handler awaits a get and then a set, so the requests of  *)
(* one process, and of several replicas over one Redis, interleave there.    *)
(* A window is named by its resetAt.  Time is in ms; TTLs follow             *)
(* src/cache/manager.ts.                                                     *)
EXTENDS Integers, FiniteSets

CONSTANTS Request,     \* requests
          Stores,      \* the places the counter may live
          WindowMs,    \* options.windowMs
          Max,         \* options.max
          MaxTime      \* bound on the clock

ASSUME LimiterAssumption ==
    /\ IsFiniteSet(Request)
    /\ Stores \subseteq {"local", "memory", "redis"}
    /\ WindowMs \in Nat \ {0} /\ Max \in Nat /\ MaxTime \in Nat

Time == 0..MaxTime
Window == 0..(MaxTime + WindowMs)
Counter == [count : Nat, resetAt : Window]
Zero == [count |-> 0, resetAt |-> 0]

VARIABLES
    store,     \* where the counter lives, chosen when the limiter is created
    clock,     \* Date.now()
    pc,        \* pc[r]: which await of the handler request r is in
    now,       \* now[r]: the clock when r arrived
    heap,      \* heap[r]: the counter object request r created or decoded
    ref,       \* ref[r]: whose object r holds as `current`
    stored,    \* the entry under rl:<key>: its object, value and expiry
    verdict,   \* verdict[r]: how next() was called
    window,    \* window[r]: the window r was judged in
    disturbed  \* history: two requests were in the handler at once, or a Redis
               \* get outlived the TTL of the entry there when it was sent

vars == <<store, clock, pc, now, heap, ref, stored, verdict, window, disturbed>>

TypeOK ==
    /\ store \in Stores
    /\ clock \in Time
    /\ pc \in [Request -> {"new", "get", "set", "applied", "done"}]
    /\ now \in [Request -> Time]
    /\ heap \in [Request -> Counter]
    /\ ref \in [Request -> Request]
    /\ stored \in [present : BOOLEAN, object : Request, value : Counter,
                   expiresAt : 0..(MaxTime + MaxTime + WindowMs)]
    /\ verdict \in [Request -> {"none", "admitted", "limited", "failed"}]
    /\ window \in [Request -> Window]
    /\ disturbed \in BOOLEAN

Nothing == [present |-> FALSE, object |-> CHOOSE r \in Request : TRUE,
            value |-> Zero, expiresAt |-> 0]

Init ==
    /\ store \in Stores
    /\ clock = 0
    /\ pc = [r \in Request |-> "new"]
    /\ now = [r \in Request |-> 0]
    /\ heap = [r \in Request |-> Zero]
    /\ ref = [r \in Request |-> r]
    /\ stored = Nothing
    /\ verdict = [r \in Request |-> "none"]
    /\ window = [r \in Request |-> 0]
    /\ disturbed = FALSE
-----------------------------------------------------------------------------
Later(a, b) == IF a > b THEN a ELSE b

\* The entry a get returns at time t: one past its TTL counts as absent.
Live(t) == stored.present /\ stored.expiresAt > t

\* The counter a window starts with, and the next count.
Fresh(t) == [count |-> 0, resetAt |-> t + WindowMs]
Bumped(c) == [c EXCEPT !.count = @ + 1]

\* A counter still counts for a request that arrived before its reset.
Open(c, t) == c.resetAt > t

\* The comparison with the limit, and two that miss it by one.
OverLate(n) == n > Max + 1
OverEarly(n) == n >= Max
Over(n) == n > Max

Verdict(r, n, w) ==
    /\ verdict' = [verdict EXCEPT ![r] = IF Over(n) THEN "limited" ELSE "admitted"]
    /\ window' = [window EXCEPT ![r] = w]
    /\ pc' = [pc EXCEPT ![r] = "done"]

\* No store: one run to next().  The request that opens a window is not compared
\* with Max.  The Map entry is replaced, never evicted.
Local(r) ==
    /\ store = "local" /\ pc[r] = "new"
    /\ LET opens == ~(stored.present /\ Open(stored.value, clock))
           c == Bumped(IF opens THEN Fresh(clock) ELSE stored.value)
       IN  /\ stored' = [stored EXCEPT !.present = TRUE, !.value = c]
           /\ Verdict(r, IF opens THEN 0 ELSE c.count, c.resetAt)
    /\ now' = [now EXCEPT ![r] = clock]
    /\ UNCHANGED <<store, clock, heap, ref, disturbed>>

\* `now` is read and store.get called.  A MemoryCache reads its Map within the
\* call and yields the object in it; a Redis get is answered later.
Arrive(r) ==
    /\ store # "local" /\ pc[r] = "new"
    /\ pc' = [pc EXCEPT ![r] = "get"]
    /\ now' = [now EXCEPT ![r] = clock]
    /\ IF store = "memory" /\ Live(clock)
         THEN ref' = [ref EXCEPT ![r] = stored.object] /\ UNCHANGED heap
         ELSE heap' = [heap EXCEPT ![r] = Fresh(clock)] /\ UNCHANGED ref
    /\ disturbed' = (disturbed \/ \E q \in Request : pc[q] \in {"get", "set", "applied"})
    /\ UNCHANGED <<store, clock, stored, verdict, window>>

\* The TTL of a set for r, never below 1.
Ttl(r, c) == Later(1, c.resetAt - now[r])

Put(r, o, c) == stored' = [present |-> TRUE, object |-> o, value |-> c,
                           expiresAt |-> clock + Ttl(r, c)]

\* After the get, memory: an object of a window already over gives way to a new
\* one; the count goes up in the shared object and the entry is written.
CountMemory(r) ==
    /\ store = "memory" /\ pc[r] = "get"
    /\ LET open == Open(heap[ref[r]], now[r])
           o == IF open THEN ref[r] ELSE r
           c == Bumped(IF open THEN heap[o] ELSE Fresh(now[r]))
       IN  /\ heap' = [heap EXCEPT ![o] = c]
           /\ ref' = [ref EXCEPT ![r] = o]
           /\ Put(r, o, c)
    /\ pc' = [pc EXCEPT ![r] = "set"]
    /\ UNCHANGED <<store, clock, now, verdict, window, disturbed>>

\* Redis answers the get; the copy is judged by the time r arrived and bumped.
CountRedis(r) ==
    /\ store = "redis" /\ pc[r] = "get"
    /\ heap' = [heap EXCEPT ![r] =
           Bumped(IF Live(clock) /\ Open(stored.value, now[r])
                    THEN stored.value ELSE Fresh(now[r]))]
    /\ pc' = [pc EXCEPT ![r] = "set"]
    /\ disturbed' = (disturbed \/ (stored.present /\ stored.expiresAt \in now[r]+1..clock))
    /\ UNCHANGED <<store, clock, now, ref, stored, verdict, window>>

\* Redis applies the set of r: every replica sees the count from now on, while the
\* answer is on its way to r.
Apply(r) ==
    /\ store = "redis" /\ pc[r] = "set"
    /\ Put(r, r, heap[r])
    /\ pc' = [pc EXCEPT ![r] = "applied"]
    /\ UNCHANGED <<store, clock, now, heap, ref, verdict, window, disturbed>>

\* After the set: the count is read again from the object, which for a
\* MemoryCache others may have bumped meanwhile.
Decide(r) ==
    /\ pc[r] = IF store = "redis" THEN "applied" ELSE "set"
    /\ Verdict(r, heap[ref[r]].count, heap[ref[r]].resetAt)
    /\ UNCHANGED <<store, clock, now, heap, ref, stored, disturbed>>

\* Redis rejects the get or the set, or the answer to a set it has applied is
\* lost: next(error).
StoreFails(r) ==
    /\ store = "redis" /\ pc[r] \in {"get", "set", "applied"}
    /\ verdict' = [verdict EXCEPT ![r] = "failed"]
    /\ window' = [window EXCEPT ![r] = IF pc[r] = "get" THEN @ ELSE heap[r].resetAt]
    /\ pc' = [pc EXCEPT ![r] = "done"]
    /\ UNCHANGED <<store, clock, now, heap, ref, stored, disturbed>>

Tick ==
    /\ clock < MaxTime
    /\ clock' = clock + 1
    /\ UNCHANGED <<store, pc, now, heap, ref, stored, verdict, window, disturbed>>

Handle(r) == Local(r) \/ Arrive(r) \/ CountMemory(r) \/ CountRedis(r)
             \/ Apply(r) \/ Decide(r) \/ StoreFails(r)
Next == Tick \/ \E r \in Request : Handle(r)

Spec == Init /\ [][Next]_vars
-----------------------------------------------------------------------------
(* Properties                                                                *)

Judged(w, v) == {r \in Request : verdict[r] = v /\ window[r] = w}

\* A window never admits more than Max requests (one, when Max is 0 and there is
\* no store), and windows that judged anyone do not overlap in time: a counter is
\* replaced when its window is over, not before.  Both hold as long as requests
\* take turns in the handler and no Redis answer is so late that the entry ran
\* out under way.
WindowBound ==
    ~disturbed =>
        /\ \A w \in Window : Cardinality(Judged(w, "admitted")) <=
               IF store = "local" THEN Later(1, Max) ELSE Max
        /\ \A q, r \in Request :
               /\ {verdict[q], verdict[r]} \subseteq {"admitted", "limited"}
               /\ window[q] < window[r]
               => window[q] + WindowMs <= window[r]

\* Requests that are in the count of window w and within the limit there, and have
\* yet to hear so from Redis.
Passing(w) == {r \in Request : /\ pc[r] = "applied"
                               /\ heap[r].resetAt = w /\ ~Over(heap[r].count)}

\* Whom window w has let through, a Redis failure counting as that, or is about to.
Through(w) == Judged(w, "admitted") \cup Judged(w, "failed") \cup Passing(w)

\* A request is turned away only for cause, however requests race.  With the local
\* Map or Redis there are Max others that its window let through or that will be
\* as soon as they hear from Redis: a copy of the counter never runs ahead of those
\* it counts, although another replica may act on it before they know.
\* A MemoryCache shares the counter object, so requests in flight together may all
\* be turned away; but the window has then counted more than Max of them.
NoEarlyRejection ==
    \A r \in Request : verdict[r] = "limited" =>
        IF store = "memory"
          THEN Max < Cardinality({q \in Request : pc[q] \in {"set", "done"} /\
                                      heap[ref[q]].resetAt = window[r]})
          ELSE Max <= Cardinality(Through(window[r]))
=============================================================================
