-------------------------- MODULE RateLimiterProofs --------------------------
(* The bound of a window, and that nobody is turned away early, for any      *)
(* number of requests, any limit and any window, over each of the stores.    *)
EXTENDS RateLimiter, FiniteSetTheorems, TLAPS

Count == [count : Nat, resetAt : Nat]
Verdicts == {"admitted", "limited", "failed"}
Holder == Request \cup {CHOOSE r \in Request : TRUE}

Shape ==
    /\ store \in {"local", "memory", "redis"} /\ clock \in Nat
    /\ pc \in [Request -> {"new", "get", "set", "applied", "done"}]
    /\ now \in [Request -> Nat] /\ \A r \in Request : now[r] <= clock
    /\ heap \in [Request -> Count]
    /\ ref \in [Request -> Request]
    /\ stored \in [present : BOOLEAN, object : Holder, value : Count, expiresAt : Nat]
    /\ verdict \in [Request -> Verdicts \cup {"none"}]
    /\ window \in [Request -> Nat]
    /\ disturbed \in BOOLEAN
    /\ \A r \in Request : verdict[r] = "none" <=> pc[r] # "done"

-----------------------------------------------------------------------------
(* Early rejection                                                           *)

\* Copies of the counter.  How many window w has let through, and a count that does
\* not run ahead of it, or no longer has to.
Past(w) == Cardinality(Through(w))
Earned(n, w) == n <= Past(w) \/ Max <= Past(w)
Is(c, n, w) == c.count = n /\ c.resetAt = w

Copies ==
    /\ store # "memory"
    /\ \A n, w \in Nat : stored.present /\ Is(stored.value, n, w) => Earned(n, w)
    /\ \A r \in Request : ref[r] = r
    /\ \A r \in Request, n, w \in Nat : pc[r] = "set" /\ Is(heap[r], n + 1, w) => Earned(n, w)
    /\ \A r \in Request : pc[r] = "set" => heap[r].count > 0
    /\ \A r \in Request, n, w \in Nat : pc[r] = "applied" /\ Is(heap[r], n, w) => Earned(n, w)
    /\ \A r \in Request, w \in Nat : verdict[r] = "limited" /\ window[r] = w => Max <= Past(w)

\* Shared objects.  Who has counted in object o; an object in use is that of a
\* request that has counted; its count is of those; whom a window has counted.
Users(o) == {q \in Request : pc[q] \in {"set", "done"} /\ ref[q] = o}
Counted(w) == {q \in Request : pc[q] \in {"set", "done"} /\ heap[ref[q]].resetAt = w}

Shared ==
    /\ store = "memory"
    /\ stored.present => stored.object \in Request /\ pc[stored.object] \in {"set", "done"}
    /\ \A q \in Request : ref[q] = q \/ pc[ref[q]] \in {"set", "done"}
    /\ \A o \in Request : heap[o].count <= Cardinality(Users(o))
    /\ \A q \in Request, w \in Nat : verdict[q] = "limited" /\ window[q] = w =>
           heap[ref[q]].resetAt = w /\ Max < Cardinality(Counted(w))

-----------------------------------------------------------------------------
(* The bound of a window, while requests take turns                          *)

Handled(r) == pc[r] \in {"get", "set", "applied"}
WasJudged(r) == verdict[r] \in {"admitted", "limited"}
Adm(w) == Cardinality(Judged(w, "admitted"))
Limit == IF store = "local" THEN Later(1, Max) ELSE Max

\* Whoever was judged was judged in this window or in one that was over before it.
Latest(w) == \A q \in Request : WasJudged(q) => window[q] = w \/ window[q] + WindowMs <= w

\* A count of window w that is no less than those it admitted, one that is greater.
Tallied(n, w) == Adm(w) <= n /\ Latest(w)
Ahead(n, w) == Adm(w) + 1 <= n /\ Latest(w)

Outlived(t) == stored.present => stored.value.resetAt <= t

\* Where the one request in the handler stands with a MemoryCache.
AtObject(r) ==
    /\ pc[r] = "new" => ref[r] = r
    /\ pc[r] = "get" => \/ stored.present /\ ref[r] = stored.object
                        \/ ref[r] = r /\ heap[r] = Fresh(now[r]) /\ Outlived(now[r])
    /\ pc[r] = "set" => stored.present /\ ref[r] = stored.object
    /\ pc[r] # "applied"

Turns ==
    /\ \A q, r \in Request : Handled(q) /\ Handled(r) => q = r
    /\ \A w \in Nat : Adm(w) <= Limit
    /\ \A q, r \in Request :
           WasJudged(q) /\ WasJudged(r) /\ window[q] < window[r] => window[q] + WindowMs <= window[r]
    /\ \A n, w \in Nat : stored.present /\ Is(stored.value, n, w) => Tallied(n, w)
    /\ \A r \in Request, n, w \in Nat :
           pc[r] \in {"set", "applied"} /\ Is(heap[ref[r]], n, w) => Ahead(n, w)
    /\ \A q \in Request : WasJudged(q) => stored.present
    /\ store # "local" /\ stored.present => stored.value.resetAt <= stored.expiresAt
    /\ store = "local" => \A r \in Request : ~Handled(r)
    /\ store = "redis" => \A r \in Request :
           ref[r] = r /\ (pc[r] = "applied" => stored.present /\ stored.value = heap[r])
    /\ store = "memory" =>
           /\ stored.present => /\ stored.object \in Request /\ pc[stored.object] \in {"set", "done"}
                                /\ stored.value = heap[stored.object]
           /\ \A r \in Request : AtObject(r)

IInv == Shape /\ (Copies \/ Shared) /\ (~disturbed => Turns)

-----------------------------------------------------------------------------
(* Sets of requests                                                          *)

\* A set of requests is finite.
LEMMA Finite ==
    ASSUME NEW S, S \subseteq Request
    PROVE  IsFiniteSet(S) /\ Cardinality(S) \in Nat
  BY LimiterAssumption, FS_Subset, FS_CardinalityType

\* More requests are no fewer.
LEMMA Grown ==
    ASSUME NEW S, NEW T, S \subseteq T, T \subseteq Request
    PROVE  Cardinality(S) <= Cardinality(T)
  BY Finite, FS_Subset

\* A request that was not in a set makes it one larger.
LEMMA OneMore ==
    ASSUME NEW S, S \subseteq Request, NEW r \in Request, r \notin S
    PROVE  Cardinality(S \cup {r}) = Cardinality(S) + 1
  BY Finite, FS_AddElement

\* Whom a window judged are requests, and their numbers are natural.
LEMMA JudgedIn ==
    /\ \A w, v : Judged(w, v) \subseteq Request
    /\ \A w : Through(w) \subseteq Request /\ Past(w) \in Nat /\ Adm(w) \in Nat
  BY Finite DEF Judged, Passing, Through, Past, Adm

\* Nobody is through one window's count and judged in it too.
LEMMA NotYetJudged ==
    ASSUME Shape, NEW r \in Request, pc[r] # "done"
    PROVE  /\ \A w, v : v # "none" => r \notin Judged(w, v)
           /\ \A w : pc[r] # "applied" => r \notin Through(w)
  BY DEF Shape, Judged, Passing, Through

\* A verdict on r, in window x, is one more of its kind in that window.
LEMMA Judges ==
    ASSUME Shape, NEW r \in Request, pc[r] # "done", NEW v \in Verdicts, NEW x \in Nat,
           verdict' = [verdict EXCEPT ![r] = v], window' = [window EXCEPT ![r] = x]
    PROVE  /\ \A w, u : u \in Verdicts =>
                 Judged(w, u)' = IF w = x /\ v = u THEN Judged(w, u) \cup {r} ELSE Judged(w, u)
           /\ \A w : Adm(w)' = Adm(w) + IF w = x /\ v = "admitted" THEN 1 ELSE 0
  <1>1. verdict[r] = "none"
    BY DEF Shape
  <1>2. \A q \in Request : verdict'[q] = (IF q = r THEN v ELSE verdict[q]) /\
                           window'[q] = (IF q = r THEN x ELSE window[q])
    BY DEF Shape
  <1>3. ASSUME NEW w, NEW u, u \in Verdicts
        PROVE  Judged(w, u)' = IF w = x /\ v = u THEN Judged(w, u) \cup {r} ELSE Judged(w, u)
    BY <1>1, <1>2, <1>3 DEF Judged, Verdicts
  <1>4. ASSUME NEW w PROVE Adm(w)' = Adm(w) + IF w = x /\ v = "admitted" THEN 1 ELSE 0
    <2>1. /\ Judged(w, "admitted") \subseteq Request /\ Adm(w) \in Nat /\ r \notin Judged(w, "admitted")
          /\ Adm(w) = Cardinality(Judged(w, "admitted")) /\ Adm(w)' = Cardinality(Judged(w, "admitted")')
          /\ "admitted" \in Verdicts
      BY JudgedIn, NotYetJudged DEF Adm, Verdicts
    <2>2. CASE w = x /\ v = "admitted"
      <3>1. Judged(w, "admitted")' = Judged(w, "admitted") \cup {r}
        BY <1>3, <2>1, <2>2
      <3>2. Cardinality(Judged(w, "admitted") \cup {r}) = Cardinality(Judged(w, "admitted")) + 1
        BY <2>1, OneMore
      <3>3. QED
        BY <2>1, <2>2, <3>1, <3>2
    <2>3. CASE ~(w = x /\ v = "admitted")
      <3>1. Judged(w, "admitted")' = Judged(w, "admitted")
        BY <1>3, <2>1, <2>3
      <3>2. QED
        BY <2>1, <2>3, <3>1
    <2>4. QED
      BY <2>2, <2>3
  <1>5. QED
    BY <1>3, <1>4

-----------------------------------------------------------------------------
(* Shape                                                                     *)

\* A fresh counter and a bumped one are counters.
LEMMA Counts ==
    /\ \A t \in Nat : Fresh(t) \in Count /\ Bumped(Fresh(t)) = [count |-> 1, resetAt |-> t + WindowMs]
    /\ \A c \in Count : Bumped(c) = [count |-> c.count + 1, resetAt |-> c.resetAt] /\ Bumped(c) \in Count
  BY LimiterAssumption DEF Fresh, Bumped, Count

\* What a driver holds after it was told to set a counter.
LEMMA Puts ==
    ASSUME Shape, NEW r \in Request, NEW o \in Request, NEW c \in Count, Put(r, o, c)
    PROVE  /\ stored'.present /\ stored'.object = o /\ stored'.value = c
           /\ stored' \in [present : BOOLEAN, object : Holder, value : Count, expiresAt : Nat]
           /\ stored'.expiresAt >= c.resetAt
  <1>1. Ttl(r, c) \in Nat /\ clock + Ttl(r, c) \in Nat /\ clock + Ttl(r, c) >= c.resetAt
    BY DEF Ttl, Later, Shape, Count
  <1>2. QED
    BY <1>1 DEF Put, Holder

\* The variables have their types at the start; the lemmas below: after each step.
LEMMA ShapeInitially == Init => Shape
  <1> SUFFICES ASSUME Init PROVE Shape
    OBVIOUS
  <1>1. Zero \in Count
    BY DEF Zero, Count
  <1>2. stored \in [present : BOOLEAN, object : Holder, value : Count, expiresAt : Nat]
    BY <1>1 DEF Init, Nothing, Holder
  <1>3. QED
    <2>5. disturbed \in BOOLEAN
      BY DEF Init
    <2>6. store \in {"local", "memory", "redis"}
      BY LimiterAssumption DEF Init
    <2>1. /\ clock \in Nat
          /\ pc \in [Request -> {"new", "get", "set", "applied", "done"}]
          /\ now \in [Request -> Nat] /\ \A r \in Request : now[r] <= clock
      BY DEF Init
    <2>2. heap \in [Request -> Count] /\ ref \in [Request -> Request] /\ window \in [Request -> Nat]
      BY <1>1 DEF Init
    <2>3. /\ verdict \in [Request -> Verdicts \cup {"none"}]
          /\ \A r \in Request : verdict[r] = "none" <=> pc[r] # "done"
      BY DEF Init, Verdicts
    <2>4. QED
      BY <1>2, <2>1, <2>2, <2>3, <2>5, <2>6 DEF Shape

\* The local Map counts and judges in one step.
LEMMA ShapeLocal == ASSUME Shape, NEW r \in Request, Local(r) PROVE Shape'
  <1> DEFINE opens == ~(stored.present /\ Open(stored.value, clock))
             c == Bumped(IF opens THEN Fresh(clock) ELSE stored.value)
  <1>1. c \in Count
    BY Counts DEF Shape
  <1>2. stored' = [stored EXCEPT !.present = TRUE, !.value = c]
    BY DEF Local
  <1>3. stored' \in [present : BOOLEAN, object : Holder, value : Count, expiresAt : Nat]
    BY <1>1, <1>2 DEF Shape
  <1>4. c.resetAt \in Nat
    BY <1>1 DEF Count
  <1>5. Verdict(r, IF opens THEN 0 ELSE c.count, c.resetAt)
    BY DEF Local
  <1> HIDE DEF c, opens
  <1>6. QED
    BY <1>3, <1>4, <1>5 DEF Local, Shape, Verdict, Verdicts

\* A request comes in and its handler reads the store.
LEMMA ShapeArrive == ASSUME Shape, NEW r \in Request, Arrive(r) PROVE Shape'
  <1>1. heap' \in [Request -> Count]
    BY Counts DEF Arrive, Shape
  <1>2. ref' \in [Request -> Request]
    <2>1. stored.object \in Request
      BY DEF Shape, Holder
    <2>2. QED
      BY <2>1 DEF Arrive, Shape
  <1>3. QED
    BY <1>1, <1>2 DEF Arrive, Shape

\* The handler bumps the object MemoryCache gave it, or a new one.
LEMMA ShapeCountMemory == ASSUME Shape, NEW r \in Request, CountMemory(r) PROVE Shape'
  <1> DEFINE open == Open(heap[ref[r]], now[r])
             o == IF open THEN ref[r] ELSE r
             c == Bumped(IF open THEN heap[o] ELSE Fresh(now[r]))
  <1>1. o \in Request /\ c \in Count
    BY Counts DEF Shape
  <1>2. heap' = [heap EXCEPT ![o] = c] /\ ref' = [ref EXCEPT ![r] = o] /\ Put(r, o, c)
    BY DEF CountMemory
  <1> HIDE DEF open, o, c
  <1>3. stored' \in [present : BOOLEAN, object : Holder, value : Count, expiresAt : Nat]
    BY <1>1, <1>2, Puts
  <1>4. QED
    BY <1>1, <1>2, <1>3 DEF CountMemory, Shape

\* The handler bumps its own copy of what Redis gave it.
LEMMA ShapeCountRedis == ASSUME Shape, NEW r \in Request, CountRedis(r) PROVE Shape'
  <1>1. heap' \in [Request -> Count]
    BY Counts DEF CountRedis, Shape
  <1>2. QED
    BY <1>1 DEF CountRedis, Shape

\* Redis applies the set.
LEMMA ShapeApply == ASSUME Shape, NEW r \in Request, Apply(r) PROVE Shape'
  <1>1. stored' \in [present : BOOLEAN, object : Holder, value : Count, expiresAt : Nat]
    BY Puts DEF Apply, Shape
  <1>2. QED
    BY <1>1 DEF Apply, Shape

\* The handler judges by the counter it holds.
LEMMA ShapeDecide == ASSUME Shape, NEW r \in Request, Decide(r) PROVE Shape'
  <1>1. heap[ref[r]].resetAt \in Nat
    BY DEF Shape, Count
  <1>2. QED
    BY <1>1 DEF Decide, Verdict, Verdicts, Shape

\* The store rejects and the request passes.
LEMMA ShapeStoreFails == ASSUME Shape, NEW r \in Request, StoreFails(r) PROVE Shape'
  <1>1. window' \in [Request -> Nat]
    BY DEF StoreFails, Shape, Count
  <1>2. QED
    BY <1>1 DEF StoreFails, Verdicts, Shape

\* Every step keeps the types.
LEMMA ShapeKeeps == ASSUME Shape, [Next]_vars PROVE Shape'
  <1>1. CASE Tick
    BY <1>1 DEF Tick, Shape
  <1>2. CASE UNCHANGED vars
    BY <1>2 DEF vars, Shape
  <1>3. QED
    BY <1>1, <1>2, ShapeLocal, ShapeArrive, ShapeCountMemory, ShapeCountRedis, ShapeApply,
       ShapeDecide, ShapeStoreFails DEF Next, Handle

-----------------------------------------------------------------------------
(* Copies of the counter: the local Map and Redis                            *)

\* What a window has let through only grows, and what was earned stays earned.
Grows == \A w : Through(w) \subseteq Through(w)'

LEMMA GrowsKeepsEarned ==
    ASSUME Grows
    PROVE  /\ \A w : Past(w) \in Nat /\ Past(w)' \in Nat /\ Past(w) <= Past(w)'
           /\ \A n \in Nat : \A w : Earned(n, w) => Earned(n, w)'
           /\ \A w : Max <= Past(w) => Max <= Past(w)'
  <1>1. ASSUME NEW w PROVE Past(w) \in Nat /\ Past(w)' \in Nat /\ Past(w) <= Past(w)'
    <2>1. Through(w) \subseteq Through(w)' /\ Through(w)' \subseteq Request
      BY DEF Grows, Through, Judged, Passing
    <2>2. Cardinality(Through(w)) <= Cardinality(Through(w)') /\ Cardinality(Through(w)') \in Nat
      BY <2>1, Grown, Finite
    <2>3. QED
      BY <2>2, JudgedIn DEF Past
  <1>2. Max \in Nat
    BY LimiterAssumption
  <1>3. QED
    BY <1>1, <1>2 DEF Earned

\* A request that was not through and is now earns its window one more.
LEMMA OneMoreEarned ==
    ASSUME Grows, NEW r \in Request, NEW x \in Nat, r \notin Through(x), r \in Through(x)',
           NEW n \in Nat, Earned(n, x)
    PROVE  Earned(n + 1, x)'
  <1>1. Through(x) \cup {r} \subseteq Through(x)' /\ Through(x)' \subseteq Request
    BY DEF Grows, Through, Judged, Passing
  <1>2. Cardinality(Through(x) \cup {r}) <= Cardinality(Through(x)')
    BY <1>1, Grown
  <1>3. Cardinality(Through(x) \cup {r}) = Cardinality(Through(x)) + 1
    BY JudgedIn, OneMore
  <1>4. Past(x) + 1 <= Past(x)'
    BY <1>2, <1>3 DEF Past
  <1>5. QED
    BY <1>4, GrowsKeepsEarned, LimiterAssumption DEF Earned

\* A count above the limit that is one ahead of what is earned is earned itself.
LEMMA OverIsEarned ==
    ASSUME NEW n \in Nat, NEW x, Earned(n, x), n + 1 > Max
    PROVE  Max <= Past(x) /\ Earned(n + 1, x)
  BY JudgedIn, LimiterAssumption DEF Earned

\* A verdict on r takes nobody out of what a window let through: a request that was
\* about to be let through is let through in the window that counted it.
LEMMA VerdictGrows ==
    ASSUME Shape, NEW r \in Request, pc[r] # "done", NEW v \in Verdicts, NEW x \in Nat,
           verdict' = [verdict EXCEPT ![r] = v], window' = [window EXCEPT ![r] = x],
           pc' = [pc EXCEPT ![r] = "done"], UNCHANGED heap,
           pc[r] = "applied" /\ ~Over(heap[r].count) => v # "limited" /\ x = heap[r].resetAt
    PROVE  Grows /\ (v # "limited" => r \in Through(x)')
  <1>1. \A q \in Request : verdict'[q] = (IF q = r THEN v ELSE verdict[q]) /\
                           window'[q] = (IF q = r THEN x ELSE window[q])
    BY DEF Shape
  <1>2. ASSUME NEW w, NEW u \in {"admitted", "failed"}
        PROVE  Judged(w, u)' = IF w = x /\ v = u THEN Judged(w, u) \cup {r} ELSE Judged(w, u)
    BY <1>1, <1>2 DEF Judged, Shape
  <1>3. v # "limited" => r \in Through(x)'
    BY <1>2 DEF Through, Verdicts
  <1>4. \A w : Passing(w) \subseteq Passing(w)' \cup {r}
    BY DEF Passing, Shape
  <1>5. \A w : r \in Passing(w) => v # "limited" /\ w = x
    BY DEF Passing
  <1>6. ASSUME NEW w PROVE Through(w) \subseteq Through(w)'
    <2>1. \A q \in Judged(w, "admitted") \cup Judged(w, "failed") : q \in Through(w)'
      BY <1>2 DEF Through
    <2>2. \A q \in Passing(w) : q \in Through(w)'
      BY <1>3, <1>4, <1>5 DEF Through
    <2>3. QED
      BY <2>1, <2>2 DEF Through
  <1>7. QED
    BY <1>3, <1>6 DEF Grows

\* A step that judges nobody, and takes nobody from those about to be let through.
LEMMA PassingGrows ==
    ASSUME UNCHANGED <<verdict, window>>, \A w : Passing(w) \subseteq Passing(w)'
    PROVE  Grows
  BY DEF Grows, Through, Judged

\* A verdict on r keeps what holds of the copies, when it is not a rejection without
\* cause and what it leaves in the store does not run ahead.
LEMMA CopiesJudged ==
    ASSUME Shape, Copies, Grows, NEW r \in Request, NEW v \in Verdicts, NEW x \in Nat,
           verdict' = [verdict EXCEPT ![r] = v], window' = [window EXCEPT ![r] = x],
           pc' = [pc EXCEPT ![r] = "done"], UNCHANGED <<store, heap, ref>>,
           v = "limited" => Max <= Past(x)',
           \A n, w \in Nat : stored'.present /\ Is(stored.value, n, w)' => Earned(n, w)'
    PROVE  Copies'
  <1>1. \A q \in Request : pc'[q] # "done" => pc'[q] = pc[q]
    BY DEF Shape
  <1>2. ASSUME NEW q \in Request, NEW n \in Nat, NEW w \in Nat, pc'[q] = "set", Is(heap[q], n + 1, w)'
        PROVE  Earned(n, w)'
    <2>1. Earned(n, w)
      BY <1>1, <1>2 DEF Copies, Is
    <2>2. QED
      BY <2>1, GrowsKeepsEarned
  <1>3. ASSUME NEW q \in Request, NEW n \in Nat, NEW w \in Nat, pc'[q] = "applied", Is(heap[q], n, w)'
        PROVE  Earned(n, w)'
    <2>1. Earned(n, w)
      BY <1>1, <1>3 DEF Copies, Is
    <2>2. QED
      BY <2>1, GrowsKeepsEarned
  <1>4. ASSUME NEW q \in Request, NEW w \in Nat, verdict'[q] = "limited", window'[q] = w
        PROVE  Max <= Past(w)'
    <2>1. CASE q = r
      <3>1. w = x /\ v = "limited"
        BY <1>4, <2>1 DEF Shape
      <3>2. QED
        BY <3>1
    <2>2. CASE q # r
      <3>1. verdict[q] = "limited" /\ window[q] = w
        BY <1>4, <2>2 DEF Shape
      <3>2. Max <= Past(w)
        BY <3>1 DEF Copies
      <3>3. QED
        BY <3>2, GrowsKeepsEarned
    <2>3. QED
      BY <2>1, <2>2
  <1>5. QED
    BY <1>1, <1>2, <1>3, <1>4 DEF Copies

\* The local Map never turns away early.
LEMMA CopiesLocal == ASSUME Shape, Copies, NEW r \in Request, Local(r) PROVE Copies'
  <1> DEFINE opens == ~(stored.present /\ Open(stored.value, clock))
             counter == Bumped(IF opens THEN Fresh(clock) ELSE stored.value)
  <1>1. PICK m, x \in Nat : Is(counter, m, x)
    BY Counts DEF Shape, Is, Count
  <1>2. PICK v \in Verdicts : v = IF Over(IF opens THEN 0 ELSE m) THEN "limited" ELSE "admitted"
    BY DEF Verdicts
  <1>3. PICK n \in Nat : m = n + 1 /\ Earned(n, x)
    <2>1. CASE opens
      <3>1. m = 0 + 1 /\ 0 \in Nat
        BY <1>1, <2>1, Counts DEF Shape, Is
      <3>2. Earned(0, x)
        BY JudgedIn DEF Earned
      <3>3. QED
        BY <3>1, <3>2
    <2>2. CASE ~opens
      <3>1. PICK n \in Nat : n = stored.value.count
        BY DEF Shape, Count
      <3>2. m = n + 1 /\ Is(stored.value, n, x)
        BY <1>1, <2>2, <3>1, Counts DEF Shape, Is
      <3>3. QED
        BY <2>2, <3>2 DEF Copies
    <2>3. QED
      BY <2>1, <2>2
  <1>4. /\ stored' = [stored EXCEPT !.present = TRUE, !.value = counter]
        /\ Verdict(r, IF opens THEN 0 ELSE counter.count, counter.resetAt)
        /\ pc[r] = "new" /\ UNCHANGED <<store, heap, ref>>
    BY DEF Local
  <1>5. /\ verdict' = [verdict EXCEPT ![r] = v] /\ window' = [window EXCEPT ![r] = x]
        /\ pc' = [pc EXCEPT ![r] = "done"]
    BY <1>1, <1>2, <1>4 DEF Verdict, Is
  <1>6. v = "limited" => m > Max
    BY <1>2, LimiterAssumption DEF Over
  <1>7. Grows /\ (v # "limited" => r \in Through(x)') /\ r \notin Through(x)
    BY <1>4, <1>5, VerdictGrows, NotYetJudged
  <1>8. (v = "limited" => Max <= Past(x)') /\ Earned(m, x)'
    <2>1. CASE v = "limited"
      BY <1>3, <1>6, <1>7, <2>1, OverIsEarned, GrowsKeepsEarned
    <2>2. CASE v # "limited"
      BY <1>3, <1>7, <2>2, OneMoreEarned
    <2>3. QED
      BY <2>1, <2>2
  <1>9. ASSUME NEW k \in Nat, NEW w \in Nat, Is(stored.value, k, w)'
        PROVE  Earned(k, w)'
    <2>1. k = m /\ w = x
      BY <1>1, <1>4, <1>9 DEF Is, Shape
    <2>2. QED
      BY <1>8, <2>1
  <1>10. QED
    BY <1>4, <1>5, <1>7, <1>8, <1>9, CopiesJudged

\* The count a replica lets Redis apply is earned: its request is about to be let
\* through, or the limit had been reached before.
LEMMA CopiesApply == ASSUME Shape, Copies, NEW r \in Request, Apply(r) PROVE Copies'
  <1>1. PICK m, x \in Nat : Is(heap[r], m, x)
    BY DEF Shape, Is, Count
  <1>2. /\ pc[r] = "set" /\ pc' = [pc EXCEPT ![r] = "applied"] /\ Put(r, r, heap[r])
        /\ UNCHANGED <<store, heap, ref, verdict, window>>
    BY DEF Apply
  <1>3. PICK n \in Nat : m = n + 1
    <2>1. m > 0
      BY <1>1, <1>2 DEF Copies, Is
    <2>2. m - 1 \in Nat /\ m = (m - 1) + 1
      BY <2>1
    <2>3. QED
      BY <2>2
  <1>4. Earned(n, x)
    BY <1>1, <1>2, <1>3 DEF Copies
  <1>5. \A q \in Request : pc'[q] = IF q = r THEN "applied" ELSE pc[q]
    BY <1>2 DEF Shape
  <1>6. Grows
    <2>1. \A w : Passing(w) \subseteq Passing(w)'
      BY <1>2, <1>5 DEF Passing
    <2>2. QED
      BY <1>2, <2>1, PassingGrows
  <1>7. Earned(m, x)'
    <2>1. CASE Over(m)
      BY <1>3, <1>4, <1>6, <2>1, OverIsEarned, GrowsKeepsEarned DEF Over
    <2>2. CASE ~Over(m)
      <3>1. r \in Through(x)'
        BY <1>1, <1>2, <1>5, <2>2 DEF Through, Passing, Is
      <3>2. r \notin Through(x)
        BY <1>2, NotYetJudged
      <3>3. QED
        BY <1>3, <1>4, <1>6, <3>1, <3>2, OneMoreEarned
    <2>3. QED
      BY <2>1, <2>2
  <1>8. stored'.value = heap[r]
    BY <1>2, Puts DEF Shape
  <1>9. ASSUME NEW k \in Nat, NEW w \in Nat, Is(stored.value, k, w)' PROVE Earned(k, w)'
    <2>1. k = m /\ w = x
      BY <1>1, <1>8, <1>9 DEF Is
    <2>2. QED
      BY <1>7, <2>1
  <1>10. ASSUME NEW q \in Request, NEW k \in Nat, NEW w \in Nat, pc'[q] = "set", Is(heap[q], k + 1, w)'
         PROVE  Earned(k, w)'
    <2>1. Earned(k, w)
      BY <1>2, <1>5, <1>10 DEF Copies, Is
    <2>2. QED
      BY <1>6, <2>1, GrowsKeepsEarned
  <1>11. ASSUME NEW q \in Request, NEW k \in Nat, NEW w \in Nat, pc'[q] = "applied", Is(heap[q], k, w)'
         PROVE  Earned(k, w)'
    <2>1. CASE q = r
      <3>1. k = m /\ w = x
        BY <1>1, <1>2, <1>11, <2>1 DEF Is
      <3>2. QED
        BY <1>7, <3>1
    <2>2. CASE q # r
      <3>1. Earned(k, w)
        BY <1>2, <1>5, <1>11, <2>2 DEF Copies, Is
      <3>2. QED
        BY <1>6, <3>1, GrowsKeepsEarned
    <2>3. QED
      BY <2>1, <2>2
  <1>12. \A q \in Request, w \in Nat : verdict'[q] = "limited" /\ window'[q] = w => Max <= Past(w)'
    BY <1>2, <1>6, GrowsKeepsEarned DEF Copies
  <1>13. QED
    BY <1>2, <1>5, <1>9, <1>10, <1>11, <1>12 DEF Copies

\* A verdict by a copied counter comes with its cause.
LEMMA CopiesDecide == ASSUME Shape, Copies, NEW r \in Request, Decide(r) PROVE Copies'
  <1>1. PICK m, x \in Nat : Is(heap[r], m, x)
    BY DEF Shape, Is, Count
  <1>2. PICK v \in Verdicts : v = IF Over(m) THEN "limited" ELSE "admitted"
    BY DEF Verdicts
  <1>3. /\ verdict' = [verdict EXCEPT ![r] = v] /\ window' = [window EXCEPT ![r] = x]
        /\ pc' = [pc EXCEPT ![r] = "done"] /\ UNCHANGED <<store, heap, ref, stored>>
        /\ pc[r] \in {"set", "applied"}
    BY <1>1, <1>2 DEF Decide, Verdict, Copies, Is
  <1>4. Grows
    BY <1>1, <1>2, <1>3, VerdictGrows DEF Is
  <1>5. v = "limited" => Max <= Past(x)'
    <2>1. SUFFICES ASSUME Over(m) PROVE Max <= Past(x)'
      BY <1>2
    <2>2. CASE pc[r] = "applied"
      <3>1. Earned(m, x)
        BY <1>1, <2>2 DEF Copies
      <3>2. Max <= Past(x)
        BY <2>1, <3>1, JudgedIn, LimiterAssumption DEF Over, Earned
      <3>3. QED
        BY <1>4, <3>2, GrowsKeepsEarned
    <2>3. CASE pc[r] = "set"
      <3>1. m > 0
        BY <1>1, <2>3 DEF Copies, Is
      <3>2. PICK n \in Nat : m = n + 1
        <4>1. m - 1 \in Nat /\ m = (m - 1) + 1
          BY <3>1
        <4>2. QED
          BY <4>1
      <3>3. Earned(n, x)
        BY <1>1, <2>3, <3>2 DEF Copies
      <3>4. QED
        BY <1>4, <2>1, <3>2, <3>3, OverIsEarned, GrowsKeepsEarned DEF Over
    <2>4. QED
      BY <1>3, <2>2, <2>3
  <1>6. ASSUME NEW k \in Nat, NEW w \in Nat, stored'.present, Is(stored.value, k, w)'
        PROVE  Earned(k, w)'
    <2>1. Earned(k, w)
      BY <1>3, <1>6 DEF Copies, Is
    <2>2. QED
      BY <1>4, <2>1, GrowsKeepsEarned
  <1>7. QED
    BY <1>3, <1>4, <1>5, <1>6, CopiesJudged

\* A store that rejects lets one more through.
LEMMA CopiesStoreFails == ASSUME Shape, Copies, NEW r \in Request, StoreFails(r) PROVE Copies'
  <1>1. PICK x \in Nat : x = IF pc[r] = "get" THEN window[r] ELSE heap[r].resetAt
    BY DEF Shape, Count
  <1>2. "failed" \in Verdicts /\ "failed" # "limited"
    BY DEF Verdicts
  <1>3. /\ verdict' = [verdict EXCEPT ![r] = "failed"] /\ window' = [window EXCEPT ![r] = x]
        /\ pc' = [pc EXCEPT ![r] = "done"] /\ pc[r] # "done" /\ UNCHANGED <<store, heap, ref, stored>>
    BY <1>1 DEF StoreFails, Shape
  <1>4. Grows
    BY <1>1, <1>2, <1>3, VerdictGrows
  <1>5. ASSUME NEW k \in Nat, NEW w \in Nat, stored'.present, Is(stored.value, k, w)'
        PROVE  Earned(k, w)'
    <2>1. Earned(k, w)
      BY <1>3, <1>5 DEF Copies, Is
    <2>2. QED
      BY <1>4, <2>1, GrowsKeepsEarned
  <1>6. QED
    BY <1>2, <1>3, <1>4, <1>5, CopiesJudged

\* A step that judges nobody leaves what was let through.
LEMMA ThroughSame ==
    ASSUME UNCHANGED <<verdict, window>>
    PROVE  /\ \A w : Adm(w)' = Adm(w)
           /\ \A w : Latest(w)' <=> Latest(w)
  BY DEF Judged, Adm, Latest, WasJudged

\* A copy that was bumped is at most one ahead of what its window let through.
LEMMA CopiesCount == ASSUME Shape, Copies, NEW r \in Request, CountRedis(r) PROVE Copies'
  <1> DEFINE known == Live(clock) /\ Open(stored.value, now[r])
             counter == Bumped(IF known THEN stored.value ELSE Fresh(now[r]))
  <1>1. PICK m, x \in Nat : Is(counter, m, x)
    BY Counts DEF Shape, Is, Count
  <1>2. PICK n \in Nat : m = n + 1 /\ Earned(n, x)
    <2>1. CASE known
      <3>1. PICK n \in Nat : n = stored.value.count
        BY DEF Shape, Count
      <3>2. m = n + 1 /\ Is(stored.value, n, x)
        BY <1>1, <2>1, <3>1, Counts DEF Shape, Is
      <3>3. QED
        BY <2>1, <3>2 DEF Copies, Live
    <2>2. CASE ~known
      <3>1. m = 0 + 1 /\ 0 \in Nat
        BY <1>1, <2>2, Counts DEF Shape, Is
      <3>2. Earned(0, x)
        BY JudgedIn DEF Earned
      <3>3. QED
        BY <3>1, <3>2
    <2>3. QED
      BY <2>1, <2>2
  <1>3. /\ heap' = [heap EXCEPT ![r] = counter] /\ pc[r] = "get" /\ pc' = [pc EXCEPT ![r] = "set"]
        /\ UNCHANGED <<store, now, ref, stored, verdict, window>>
    BY DEF CountRedis
  <1> HIDE DEF counter, known
  <1>4. \A q \in Request : q # r => pc'[q] = pc[q] /\ heap'[q] = heap[q]
    BY <1>3 DEF Shape
  <1>5. pc'[r] = "set" /\ heap'[r] = counter
    BY <1>3 DEF Shape
  <1>6. Grows
    <2>1. \A w : Passing(w) \subseteq Passing(w)'
      BY <1>3, <1>4 DEF Passing
    <2>2. QED
      BY <1>3, <2>1, PassingGrows
  <1>7. ASSUME NEW q \in Request, NEW k \in Nat, NEW w \in Nat, pc'[q] = "set", Is(heap[q], k + 1, w)'
        PROVE  Earned(k, w)'
    <2>1. CASE q = r
      <3>1. k = n /\ w = x
        BY <1>1, <1>2, <1>5, <1>7, <2>1 DEF Is
      <3>2. QED
        BY <1>2, <1>6, <3>1, GrowsKeepsEarned
    <2>2. CASE q # r
      <3>1. Earned(k, w)
        BY <1>4, <1>7, <2>2 DEF Is, Copies
      <3>2. QED
        BY <1>6, <3>1, GrowsKeepsEarned
    <2>3. QED
      BY <2>1, <2>2
  <1>8. ASSUME NEW q \in Request, NEW k \in Nat, NEW w \in Nat, pc'[q] = "applied", Is(heap[q], k, w)'
        PROVE  Earned(k, w)'
    <2>1. Earned(k, w)
      BY <1>4, <1>5, <1>8 DEF Is, Copies
    <2>2. QED
      BY <1>6, <2>1, GrowsKeepsEarned
  <1>9. \A q \in Request : pc'[q] = "set" => heap'[q].count > 0
    BY <1>1, <1>2, <1>4, <1>5 DEF Is, Copies
  <1>10. \A k, w \in Nat : stored'.present /\ Is(stored.value, k, w)' => Earned(k, w)'
    BY <1>3, <1>6, GrowsKeepsEarned DEF Copies, Is
  <1>11. \A q \in Request, w \in Nat : verdict'[q] = "limited" /\ window'[q] = w => Max <= Past(w)'
    BY <1>3, <1>6, GrowsKeepsEarned DEF Copies
  <1>12. QED
    BY <1>3, <1>7, <1>8, <1>9, <1>10, <1>11 DEF Copies

\* A step that touches no count in use keeps what holds of the copies.
LEMMA CopiesSame ==
    ASSUME Shape, Copies, UNCHANGED <<store, stored, verdict, window, ref>>,
           \A q \in Request : pc'[q] \in {"set", "applied"} => pc'[q] = pc[q] /\ heap'[q] = heap[q],
           \A q \in Request : pc[q] = "applied" => pc'[q] = pc[q]
    PROVE  Copies'
  <1>1. Grows
    <2>1. \A w : Passing(w) \subseteq Passing(w)'
      BY DEF Passing
    <2>2. QED
      BY <2>1, PassingGrows
  <1>2. \A k, w \in Nat : stored'.present /\ Is(stored.value, k, w)' => Earned(k, w)'
    BY <1>1, GrowsKeepsEarned DEF Copies, Is
  <1>3. \A q \in Request, w \in Nat : verdict'[q] = "limited" /\ window'[q] = w => Max <= Past(w)'
    BY <1>1, GrowsKeepsEarned DEF Copies
  <1>4. ASSUME NEW q \in Request, NEW k \in Nat, NEW w \in Nat, pc'[q] = "set", Is(heap[q], k + 1, w)'
        PROVE  Earned(k, w)'
    <2>1. Earned(k, w)
      BY <1>4 DEF Is, Copies
    <2>2. QED
      BY <1>1, <2>1, GrowsKeepsEarned
  <1>5. ASSUME NEW q \in Request, NEW k \in Nat, NEW w \in Nat, pc'[q] = "applied", Is(heap[q], k, w)'
        PROVE  Earned(k, w)'
    <2>1. Earned(k, w)
      BY <1>5 DEF Is, Copies
    <2>2. QED
      BY <1>1, <2>1, GrowsKeepsEarned
  <1>6. QED
    BY <1>2, <1>3, <1>4, <1>5 DEF Copies

\* Reading a copy disturbs no count.
LEMMA CopiesArrive == ASSUME Shape, Copies, NEW r \in Request, Arrive(r) PROVE Copies'
  <1>1. /\ pc[r] = "new" /\ pc' = [pc EXCEPT ![r] = "get"]
        /\ UNCHANGED <<store, stored, verdict, window, ref>>
        /\ \A q \in Request : q # r => heap'[q] = heap[q]
    BY DEF Arrive, Shape, Copies
  <1>2. \A q \in Request : pc'[q] \in {"set", "applied"} => pc'[q] = pc[q] /\ heap'[q] = heap[q]
    BY <1>1 DEF Shape
  <1>3. \A q \in Request : pc[q] = "applied" => pc'[q] = pc[q]
    BY <1>1 DEF Shape
  <1>4. QED
    BY <1>1, <1>2, <1>3, CopiesSame

\* Every step keeps the part about copied counters.
LEMMA CopiesKeep == ASSUME Shape, Copies, [Next]_vars PROVE Copies'
  <1>1. CASE UNCHANGED <<store, pc, heap, ref, stored, verdict, window>>
    BY <1>1, CopiesSame
  <1>2. ASSUME NEW r \in Request PROVE ~CountMemory(r)
    BY DEF CountMemory, Copies
  <1>3. QED
    BY <1>1, <1>2, CopiesLocal, CopiesApply, CopiesDecide, CopiesStoreFails, CopiesCount,
       CopiesArrive DEF Next, Handle, Tick, vars

-----------------------------------------------------------------------------
(* Shared counter objects: MemoryCache                                       *)

\* Those who count in an object, and those a window counted, are requests.
LEMMA UsersIn ==
    /\ \A o : Users(o) \subseteq Request /\ Cardinality(Users(o)) \in Nat
    /\ \A w : Counted(w) \subseteq Request /\ Cardinality(Counted(w)) \in Nat
  BY Finite DEF Users, Counted

\* Reading the shared object disturbs no count.
LEMMA SharedArrive == ASSUME Shape, Shared, NEW r \in Request, Arrive(r) PROVE Shared'
  <1>1. /\ pc[r] = "new" /\ pc' = [pc EXCEPT ![r] = "get"]
        /\ UNCHANGED <<store, stored, verdict, window>>
        /\ \A q \in Request : q # r => heap'[q] = heap[q] /\ ref'[q] = ref[q]
        /\ heap'[r] = heap[r] \/ heap'[r] = Fresh(clock)
        /\ ref'[r] = ref[r] \/ (ref'[r] = stored.object /\ stored.present)
    BY DEF Arrive, Shape, Live
  <1>2. \A q \in Request : /\ pc'[q] \in {"set", "done"} <=> pc[q] \in {"set", "done"}
                           /\ pc[q] \in {"set", "done"} => q # r /\ ref[q] # r
    BY <1>1 DEF Shape, Shared
  <1>3. /\ \A o : Users(o)' = Users(o)
        /\ \A w : Counted(w)' = Counted(w)
    <2>1. \A o : Users(o)' = Users(o)
      BY <1>1, <1>2 DEF Users
    <2>2. \A q \in Request : pc[q] \in {"set", "done"} => heap'[ref'[q]] = heap[ref[q]]
      BY <1>1, <1>2 DEF Shape
    <2>3. \A w : Counted(w)' = Counted(w)
      BY <1>2, <2>2 DEF Counted
    <2>4. QED
      BY <2>1, <2>3
  <1>4. \A q \in Request : ref'[q] = q \/ pc'[ref'[q]] \in {"set", "done"}
    BY <1>1, <1>2 DEF Shape, Shared
  <1>5. ASSUME NEW o \in Request PROVE heap'[o].count <= Cardinality(Users(o)')
    <2>1. heap'[o].count = heap[o].count \/ heap'[o].count = 0
      BY <1>1 DEF Fresh
    <2>2. heap[o].count <= Cardinality(Users(o)) /\ Cardinality(Users(o)) \in Nat
      BY UsersIn DEF Shared
    <2>3. QED
      BY <1>3, <2>1, <2>2
  <1>6. ASSUME NEW q \in Request, NEW w \in Nat, verdict'[q] = "limited", window'[q] = w
        PROVE  heap'[ref'[q]].resetAt = w /\ Max < Cardinality(Counted(w)')
    <2>1. verdict[q] = "limited" /\ window[q] = w /\ pc[q] = "done"
      BY <1>1, <1>6 DEF Shape
    <2>2. heap[ref[q]].resetAt = w /\ Max < Cardinality(Counted(w))
      BY <2>1 DEF Shared
    <2>3. heap'[ref'[q]] = heap[ref[q]]
      BY <1>1, <1>2, <2>1 DEF Shape
    <2>4. QED
      BY <1>3, <2>2, <2>3
  <1>7. QED
    BY <1>1, <1>2, <1>4, <1>5, <1>6 DEF Shared

\* Whoever bumps the shared object is one of those it counts.
LEMMA SharedCount == ASSUME Shape, Shared, NEW r \in Request, CountMemory(r) PROVE Shared'
  <1> DEFINE open == Open(heap[ref[r]], now[r])
             chosen == IF open THEN ref[r] ELSE r
             counter == Bumped(IF open THEN heap[chosen] ELSE Fresh(now[r]))
  <1>1. PICK o \in Request : o = chosen
    BY DEF Shape
  <1>2. /\ pc[r] = "get" /\ pc' = [pc EXCEPT ![r] = "set"]
        /\ ref' = [ref EXCEPT ![r] = o] /\ heap' = [heap EXCEPT ![o] = counter]
        /\ Put(r, o, counter) /\ UNCHANGED <<store, verdict, window>>
    BY <1>1 DEF CountMemory
  <1>3. \/ counter.count = heap[o].count + 1 /\ counter.resetAt = heap[o].resetAt /\ o = ref[r]
        \/ counter.count = 1 /\ o = r
    BY <1>1, Counts DEF Shape
  <1>4. counter \in Count
    BY <1>1, Counts DEF Shape
  <1> HIDE DEF open, chosen, counter
  <1>5. \A q \in Request : q # r => pc'[q] = pc[q] /\ ref'[q] = ref[q]
    BY <1>2 DEF Shape
  <1>6. pc'[r] = "set" /\ ref'[r] = o /\ heap'[o] = counter /\ \A p \in Request : p # o => heap'[p] = heap[p]
    BY <1>2 DEF Shape
  <1>7. \A q \in Request : pc[q] \in {"set", "done"} => q # r /\ ref[q] # r
    BY <1>2 DEF Shape, Shared
  <1>8. Users(o)' = Users(o) \cup {r} /\ r \notin Users(o)
    BY <1>2, <1>5, <1>6 DEF Users
  <1>9. \A p \in Request : p # o => Users(p)' = Users(p)
    BY <1>2, <1>5, <1>6 DEF Users
  <1>10. Cardinality(Users(o)') = Cardinality(Users(o)) + 1
    BY <1>8, UsersIn, OneMore
  <1>11. ASSUME NEW p \in Request PROVE heap'[p].count <= Cardinality(Users(p)')
    <2>1. heap[p].count <= Cardinality(Users(p)) /\ Cardinality(Users(p)) \in Nat /\ heap[p].count \in Nat
      BY UsersIn DEF Shared, Shape, Count
    <2>2. CASE p = o
      <3>1. heap'[p].count = heap[p].count + 1 \/ heap'[p].count = 1
        BY <1>3, <1>6, <2>2
      <3>2. QED
        BY <1>10, <2>1, <2>2, <3>1
    <2>3. CASE p # o
      BY <1>6, <1>9, <2>1, <2>3
    <2>4. QED
      BY <2>2, <2>3
  <1>12. \A q \in Request : pc[q] \in {"set", "done"} =>
             /\ pc'[q] \in {"set", "done"} /\ ref'[q] = ref[q]
             /\ heap'[ref[q]].resetAt = heap[ref[q]].resetAt
    <2>1. ASSUME NEW q \in Request, pc[q] \in {"set", "done"}
          PROVE  heap'[ref[q]].resetAt = heap[ref[q]].resetAt
      <3>1. CASE ref[q] = o
        BY <1>3, <1>6, <1>7, <2>1, <3>1
      <3>2. CASE ref[q] # o
        BY <1>6, <3>2 DEF Shape
      <3>3. QED
        BY <3>1, <3>2
    <2>2. QED
      BY <1>5, <1>7, <2>1
  <1>13. ASSUME NEW w PROVE Cardinality(Counted(w)) <= Cardinality(Counted(w)')
    <2>1. Counted(w) \subseteq Counted(w)'
      BY <1>12 DEF Counted
    <2>2. Counted(w)' \subseteq Request
      BY DEF Counted
    <2>3. QED
      BY <2>1, <2>2, Grown
  <1>14. ASSUME NEW q \in Request, NEW w \in Nat, verdict'[q] = "limited", window'[q] = w
        PROVE  heap'[ref'[q]].resetAt = w /\ Max < Cardinality(Counted(w)')
    <2>1. verdict[q] = "limited" /\ window[q] = w /\ pc[q] = "done"
      BY <1>2, <1>14 DEF Shape
    <2>2. heap[ref[q]].resetAt = w /\ Max < Cardinality(Counted(w))
      BY <2>1 DEF Shared
    <2>3. Cardinality(Counted(w)') \in Nat
      <3>1. Counted(w)' \subseteq Request
        BY DEF Counted
      <3>2. QED
        BY <3>1, Finite
    <2>4. QED
      BY <1>12, <1>13, <2>1, <2>2, <2>3, UsersIn, LimiterAssumption
  <1>15. stored'.object = o /\ pc'[o] \in {"set", "done"}
    <2>1. stored'.object = o
      BY <1>2, <1>4, Puts
    <2>2. ref[r] = r \/ pc[ref[r]] \in {"set", "done"}
      BY DEF Shared
    <2>3. QED
      BY <1>3, <1>5, <1>6, <2>1, <2>2
  <1>16. \A q \in Request : ref'[q] = q \/ pc'[ref'[q]] \in {"set", "done"}
    BY <1>2, <1>5, <1>6, <1>15 DEF Shape, Shared
  <1>17. QED
    BY <1>2, <1>11, <1>14, <1>15, <1>16 DEF Shared

\* A verdict by a shared object comes with its cause.
LEMMA SharedDecide == ASSUME Shape, Shared, NEW r \in Request, Decide(r) PROVE Shared'
  <1>1. PICK m, x \in Nat : Is(heap[ref[r]], m, x)
    BY DEF Shape, Is, Count
  <1>2. PICK v \in Verdicts : v = IF m > Max THEN "limited" ELSE "admitted"
    BY DEF Verdicts
  <1>3. /\ verdict' = [verdict EXCEPT ![r] = v] /\ window' = [window EXCEPT ![r] = x]
        /\ pc' = [pc EXCEPT ![r] = "done"] /\ pc[r] = "set" /\ UNCHANGED <<store, heap, ref, stored>>
    BY <1>1, <1>2 DEF Decide, Verdict, Shared, Over, Is
  <1>4. \A q \in Request : pc'[q] \in {"set", "done"} <=> pc[q] \in {"set", "done"}
    BY <1>3 DEF Shape
  <1>5. (\A o : Users(o)' = Users(o)) /\ (\A w : Counted(w)' = Counted(w))
    BY <1>3, <1>4 DEF Users, Counted
  <1>6. m > Max => Max < Cardinality(Counted(x))
    <2>1. PICK o \in Request : o = ref[r]
      BY DEF Shape
    <2>2. m <= Cardinality(Users(o))
      BY <1>1, <2>1 DEF Shared, Is
    <2>3. Users(o) \subseteq Counted(x)
      BY <1>1, <2>1 DEF Users, Counted, Is
    <2>4. Cardinality(Users(o)) <= Cardinality(Counted(x))
      BY <2>3, UsersIn, Grown
    <2>5. QED
      BY <2>2, <2>4, UsersIn, LimiterAssumption
  <1>7. ASSUME NEW q \in Request, NEW w \in Nat, verdict'[q] = "limited", window'[q] = w
        PROVE  heap[ref[q]].resetAt = w /\ Max < Cardinality(Counted(w))
    <2>1. CASE q = r
      <3>1. w = x /\ v = "limited"
        BY <1>3, <1>7, <2>1 DEF Shape
      <3>2. QED
        BY <1>1, <1>2, <1>6, <2>1, <3>1 DEF Is
    <2>2. CASE q # r
      <3>1. verdict[q] = "limited" /\ window[q] = w
        BY <1>3, <1>7, <2>2 DEF Shape
      <3>2. QED
        BY <3>1 DEF Shared
    <2>3. QED
      BY <2>1, <2>2
  <1>8. QED
    BY <1>3, <1>4, <1>5, <1>7 DEF Shared, Shape

\* Every step keeps the part about shared objects.
LEMMA SharedKeep == ASSUME Shape, Shared, [Next]_vars PROVE Shared'
  <1>1. CASE UNCHANGED <<store, pc, heap, ref, stored, verdict, window>>
    BY <1>1 DEF Shared, Users, Counted
  <1>2. ASSUME NEW r \in Request PROVE ~Local(r) /\ ~CountRedis(r) /\ ~Apply(r) /\ ~StoreFails(r)
    BY DEF Local, CountRedis, Apply, StoreFails, Shared
  <1>3. QED
    BY <1>1, <1>2, SharedArrive, SharedCount, SharedDecide DEF Next, Handle, Tick, vars

-----------------------------------------------------------------------------
(* Requests that take turns                                                  *)

\* The window a request opens, when the one before it is over, is new.
LEMMA NewWindow ==
    ASSUME Shape, Turns, NEW t \in Nat, Outlived(t), NEW x \in Nat, x = t + WindowMs
    PROVE  Ahead(1, x)
  <1>1. WindowMs \in Nat /\ WindowMs > 0
    BY LimiterAssumption
  <1>2. ASSUME NEW q \in Request, WasJudged(q) PROVE window[q] + WindowMs <= x /\ window[q] # x
    <2>1. stored.present
      BY <1>2 DEF Turns
    <2>2. PICK n, y \in Nat : Is(stored.value, n, y)
      BY DEF Shape, Is, Count
    <2>3. y <= t
      BY <2>1, <2>2 DEF Outlived, Is
    <2>4. Latest(y)
      BY <2>1, <2>2 DEF Turns, Tallied
    <2>5. window[q] <= y /\ window[q] \in Nat
      BY <1>1, <1>2, <2>4 DEF Latest, Shape
    <2>6. QED
      BY <1>1, <2>3, <2>5
  <1>3. Judged(x, "admitted") = {}
    BY <1>2 DEF Judged, WasJudged
  <1>4. Adm(x) = 0
    BY <1>3, FS_EmptySet DEF Adm
  <1>5. QED
    BY <1>2, <1>4 DEF Ahead, Latest

\* The count after that of the stored counter is ahead of what was admitted.
LEMMA NextCount ==
    ASSUME Shape, Turns, stored.present, NEW n \in Nat, NEW x \in Nat, Is(stored.value, n, x),
           NEW m \in Nat, m = n + 1
    PROVE  Ahead(m, x)
  BY JudgedIn DEF Turns, Tallied, Ahead

\* A verdict that is taken in turn.
LEMMA JudgedInTurn ==
    ASSUME Shape, Turns, NEW r \in Request, pc[r] # "done", NEW v \in {"admitted", "limited"},
           NEW x \in Nat, NEW m \in Nat, Ahead(m, x), UNCHANGED store,
           verdict' = [verdict EXCEPT ![r] = v], window' = [window EXCEPT ![r] = x],
           v = "admitted" => m <= Limit
    PROVE  /\ \A w \in Nat : Adm(w)' <= Limit'
           /\ \A p, q \in Request :
                 (WasJudged(p) /\ WasJudged(q) /\ window[p] < window[q] => window[p] + WindowMs <= window[q])'
           /\ Tallied(m, x)'
  <1>1. v \in Verdicts /\ WindowMs \in Nat /\ WindowMs > 0 /\ Max \in Nat
    BY LimiterAssumption DEF Verdicts
  <1>2. \A w : Adm(w) \in Nat /\ Adm(w)' = Adm(w) + IF w = x /\ v = "admitted" THEN 1 ELSE 0
    BY <1>1, Judges, JudgedIn
  <1>3. Limit' = Limit /\ Limit \in Nat
    BY <1>1 DEF Limit, Later
  <1>4. ASSUME NEW w \in Nat PROVE Adm(w)' <= Limit'
    <2>1. Adm(w) <= Limit
      BY DEF Turns
    <2>2. QED
      BY <1>2, <1>3, <2>1 DEF Ahead
  <1>5. \A q \in Request :
            /\ q # r => (WasJudged(q)' <=> WasJudged(q)) /\ window'[q] = window[q]
            /\ q = r => window'[q] = x
            /\ window[q] \in Nat
    BY DEF WasJudged, Shape
  <1>6. \A q \in Request : WasJudged(q) => window[q] = x \/ window[q] + WindowMs <= x
    BY DEF Ahead, Latest
  <1>7. Latest(x)'
    BY <1>5, <1>6 DEF Latest
  <1>8. ASSUME NEW p \in Request, NEW q \in Request,
               WasJudged(p)', WasJudged(q)', window'[p] < window'[q]
        PROVE  window'[p] + WindowMs <= window'[q]
    <2>1. CASE p # r /\ q # r
      BY <1>5, <1>8, <2>1 DEF Turns
    <2>2. CASE p # r /\ q = r
      BY <1>1, <1>5, <1>6, <1>8, <2>2
    <2>3. CASE p = r /\ q # r
      BY <1>1, <1>5, <1>6, <1>8, <2>3
    <2>4. CASE p = r /\ q = r
      BY <1>5, <1>8, <2>4
    <2>5. QED
      BY <2>1, <2>2, <2>3, <2>4
  <1>9. Tallied(m, x)'
    BY <1>2, <1>7 DEF Ahead, Tallied
  <1>10. QED
    BY <1>4, <1>8, <1>9

\* The local Map keeps the bound and the windows apart.
LEMMA TurnsLocal == ASSUME Shape, Turns, NEW r \in Request, Local(r) PROVE Turns'
  <1> DEFINE opens == ~(stored.present /\ Open(stored.value, clock))
             counter == Bumped(IF opens THEN Fresh(clock) ELSE stored.value)
  <1>1. PICK m, x \in Nat : Is(counter, m, x)
    BY Counts DEF Shape, Is, Count
  <1>2. PICK v \in {"admitted", "limited"} : v = IF Over(IF opens THEN 0 ELSE m) THEN "limited" ELSE "admitted"
    OBVIOUS
  <1>3. Ahead(m, x) /\ (opens => m = 1)
    <2>1. CASE opens
      <3>1. m = 1 /\ x = clock + WindowMs
        BY <1>1, <2>1, Counts DEF Shape, Is
      <3>2. Outlived(clock) /\ clock \in Nat
        BY <2>1 DEF Outlived, Open, Shape, Count
      <3>3. QED
        BY <3>1, <3>2, NewWindow
    <2>2. CASE ~opens
      <3>1. PICK n \in Nat : n = stored.value.count
        BY DEF Shape, Count
      <3>2. m = n + 1 /\ Is(stored.value, n, x)
        BY <1>1, <2>2, <3>1, Counts DEF Shape, Is
      <3>3. QED
        BY <2>2, <3>2, NextCount
    <2>3. QED
      BY <2>1, <2>2
  <1>4. /\ stored' = [stored EXCEPT !.present = TRUE, !.value = counter]
        /\ Verdict(r, IF opens THEN 0 ELSE counter.count, counter.resetAt)
        /\ pc[r] = "new" /\ store = "local" /\ UNCHANGED <<store, heap, ref>>
    BY DEF Local
  <1>5. /\ verdict' = [verdict EXCEPT ![r] = v] /\ window' = [window EXCEPT ![r] = x]
        /\ pc' = [pc EXCEPT ![r] = "done"]
    BY <1>1, <1>2, <1>4 DEF Verdict, Is
  <1>6. stored'.present /\ Is(stored.value, m, x)'
    BY <1>1, <1>4 DEF Is, Shape
  <1> HIDE DEF counter
  <1>7. v = "admitted" => m <= Limit
    BY <1>2, <1>3, <1>4, LimiterAssumption DEF Over, Limit, Later
  <1>8. /\ \A w \in Nat : Adm(w)' <= Limit'
        /\ \A p, q \in Request :
              (WasJudged(p) /\ WasJudged(q) /\ window[p] < window[q] => window[p] + WindowMs <= window[q])'
        /\ Tallied(m, x)'
    BY <1>3, <1>4, <1>5, <1>7, JudgedInTurn
  <1>9. \A q \in Request : ~Handled(q)'
    BY <1>4, <1>5 DEF Turns, Handled, Shape
  <1>10. ASSUME NEW n \in Nat, NEW w \in Nat, Is(stored.value, n, w)' PROVE Tallied(n, w)'
    <2>1. n = m /\ w = x
      BY <1>6, <1>10 DEF Is
    <2>2. QED
      BY <1>8, <2>1
  <1>11. QED
    BY <1>4, <1>6, <1>8, <1>9, <1>10 DEF Turns, Handled

\* The next request in turn reads the latest window or starts after it.
LEMMA TurnsArrive ==
    ASSUME Shape, Turns, NEW r \in Request, Arrive(r), ~disturbed' PROVE Turns'
  <1>1. /\ store # "local" /\ pc[r] = "new" /\ pc' = [pc EXCEPT ![r] = "get"]
        /\ now' = [now EXCEPT ![r] = clock]
        /\ UNCHANGED <<store, clock, stored, verdict, window>>
        /\ \A q \in Request : ~Handled(q)
    BY DEF Arrive, Handled
  <1>2. \/ store = "memory" /\ Live(clock) /\ ref' = [ref EXCEPT ![r] = stored.object] /\ heap' = heap
        \/ /\ ~(store = "memory" /\ Live(clock))
           /\ heap' = [heap EXCEPT ![r] = Fresh(clock)] /\ ref' = ref
    BY DEF Arrive
  <1>3. \A q \in Request : (Handled(q)' => q = r) /\ pc'[q] \notin {"set", "applied"}
    BY <1>1 DEF Handled, Shape
  <1>4. /\ \A w : Adm(w)' = Adm(w)
        /\ \A n, w : Tallied(n, w)' <=> Tallied(n, w)
        /\ \A q \in Request : WasJudged(q)' <=> WasJudged(q)
    BY <1>1, ThroughSame DEF Tallied, WasJudged
  <1>5. \A q \in Request : pc'[q] = IF q = r THEN "get" ELSE pc[q]
    BY <1>1 DEF Shape
  <1>6. ASSUME store = "memory", stored.present
        PROVE  /\ stored.object \in Request /\ stored.object # r
               /\ pc'[stored.object] \in {"set", "done"} /\ stored.value = heap'[stored.object]
    <2>1. /\ stored.object \in Request /\ pc[stored.object] \in {"set", "done"}
          /\ stored.value = heap[stored.object]
      BY <1>6 DEF Turns
    <2>2. QED
      BY <1>1, <1>2, <1>5, <2>1 DEF Shape
  <1>7. ASSUME store = "memory", NEW q \in Request PROVE AtObject(q)'
    <2>1. CASE q # r
      <3>1. ref'[q] = ref[q] /\ pc'[q] = pc[q] /\ pc[q] \notin {"get", "set", "applied"}
        BY <1>1, <1>2, <1>5, <2>1 DEF Shape, Handled
      <3>2. AtObject(q)
        BY <1>7 DEF Turns
      <3>3. QED
        BY <3>1, <3>2 DEF AtObject
    <2>2. CASE q = r /\ Live(clock)
      BY <1>1, <1>2, <1>5, <1>7, <2>2 DEF AtObject, Live, Shape
    <2>3. CASE q = r /\ ~Live(clock)
      <3>1. Outlived(clock)
        BY <1>1, <2>3 DEF Outlived, Live, Turns, Shape, Count
      <3>2. ref'[r] = r /\ heap'[r] = Fresh(clock) /\ now'[r] = clock
        <4>1. ref[r] = r
          BY <1>1, <1>7 DEF Turns, AtObject
        <4>2. QED
          BY <1>1, <1>2, <2>3, <4>1 DEF Shape
      <3>3. QED
        BY <1>1, <1>5, <2>3, <3>1, <3>2 DEF AtObject, Outlived, Fresh
    <2>4. QED
      BY <2>1, <2>2, <2>3
  <1>8. store = "redis" => \A q \in Request : ref'[q] = q /\ pc'[q] # "applied"
    BY <1>2, <1>3 DEF Turns
  <1>9. Limit' = Limit
    BY <1>1 DEF Limit
  <1>10. \A n, w \in Nat : Is(stored.value, n, w)' <=> Is(stored.value, n, w)
    BY <1>1 DEF Is
  <1>11. QED
    BY <1>1, <1>3, <1>4, <1>6, <1>7, <1>8, <1>9, <1>10 DEF Turns

\* Once r has its count, ahead of what its window admitted, its turn goes on.
LEMMA TurnsCount ==
    ASSUME Shape, Turns, Shape', NEW r \in Request, pc[r] = "get", pc' = [pc EXCEPT ![r] = "set"],
           store # "local", UNCHANGED <<store, verdict, window>>,
           NEW m \in Nat, NEW x \in Nat, Ahead(m, x), Is(heap[ref[r]], m, x)',
           \A n, w \in Nat : stored'.present /\ Is(stored.value, n, w)' => Tallied(n, w),
           stored.present => stored'.present,
           stored'.present => stored'.value.resetAt <= stored'.expiresAt,
           store = "redis" => ref' = ref,
           store = "memory" =>
               /\ stored'.present /\ stored'.object = ref'[r] /\ ref'[r] \in Request
               /\ pc'[ref'[r]] \in {"set", "done"} /\ stored'.value = heap'[ref'[r]]
               /\ \A q \in Request : q # r => ref'[q] = ref[q]
    PROVE  Turns'
  <1>1. \A q \in Request : q # r => ~Handled(q) /\ pc'[q] = pc[q]
    BY DEF Turns, Handled, Shape
  <1>2. pc'[r] = "set"
    BY DEF Shape
  <1>3. /\ \A w : Adm(w)' = Adm(w)
        /\ \A n, w : (Tallied(n, w)' <=> Tallied(n, w)) /\ (Ahead(n, w)' <=> Ahead(n, w))
        /\ \A q \in Request : WasJudged(q)' <=> WasJudged(q)
    BY ThroughSame DEF Tallied, Ahead, WasJudged
  <1>4. Limit' = Limit
    BY DEF Limit
  <1>5. \A q \in Request : Handled(q)' => q = r
    BY <1>1 DEF Handled
  <1>6. ASSUME NEW q \in Request, NEW n \in Nat, NEW w \in Nat,
               pc'[q] \in {"set", "applied"}, Is(heap[ref[q]], n, w)'
        PROVE  Ahead(n, w)'
    <2>1. q = r
      BY <1>1, <1>6 DEF Handled
    <2>2. n = m /\ w = x
      BY <1>6, <2>1 DEF Is
    <2>3. QED
      BY <1>3, <2>2
  <1>7. ASSUME store = "memory", NEW q \in Request PROVE AtObject(q)'
    <2>1. CASE q = r
      BY <1>2, <1>7, <2>1 DEF AtObject
    <2>2. CASE q # r
      <3>1. AtObject(q) /\ pc[q] \notin {"get", "set", "applied"}
        BY <1>1, <1>7 , <2>2 DEF Turns, Handled
      <3>2. QED
        BY <1>1, <1>7, <2>2, <3>1 DEF AtObject
    <2>3. QED
      BY <2>1, <2>2
  <1>8. \A n, w \in Nat : stored'.present /\ Is(stored.value, n, w)' => Tallied(n, w)'
    BY <1>3
  <1>9. \A q \in Request : WasJudged(q)' => stored'.present
    BY <1>3 DEF Turns
  <1>10. \A w \in Nat : Adm(w)' <= Limit'
    BY <1>3, <1>4 DEF Turns
  <1>11. \A p, q \in Request :
            (WasJudged(p) /\ WasJudged(q) /\ window[p] < window[q] => window[p] + WindowMs <= window[q])'
    BY <1>3 DEF Turns
  <1>12. store = "redis" => \A q \in Request : ref'[q] = q /\ pc'[q] # "applied"
    BY <1>1, <1>2 DEF Turns, Handled
  <1>13. QED
    BY <1>5, <1>6, <1>7, <1>8, <1>9, <1>10, <1>11, <1>12 DEF Turns

\* Its count in MemoryCache runs ahead of those its window admitted.
LEMMA TurnsCountMemory ==
    ASSUME Shape, Turns, Shape', NEW r \in Request, CountMemory(r) PROVE Turns'
  <1> DEFINE open == Open(heap[ref[r]], now[r])
             chosen == IF open THEN ref[r] ELSE r
             counter == Bumped(IF open THEN heap[chosen] ELSE Fresh(now[r]))
  <1>1. PICK m, x \in Nat : Is(counter, m, x)
    BY Counts DEF Shape, Is, Count
  <1>2. /\ store = "memory" /\ pc[r] = "get" /\ pc' = [pc EXCEPT ![r] = "set"]
        /\ ref' = [ref EXCEPT ![r] = chosen] /\ heap' = [heap EXCEPT ![chosen] = counter]
        /\ Put(r, chosen, counter) /\ UNCHANGED <<store, verdict, window>>
    BY DEF CountMemory
  <1>3. \/ /\ stored.present /\ ref[r] = stored.object /\ heap[ref[r]] = stored.value
           /\ pc[ref[r]] \in {"set", "done"}
        \/ ref[r] = r /\ heap[r] = Fresh(now[r]) /\ Outlived(now[r])
    <2>1. /\ AtObject(r)
          /\ stored.present => /\ stored.object \in Request /\ pc[stored.object] \in {"set", "done"}
                              /\ stored.value = heap[stored.object]
      BY <1>2 DEF Turns
    <2>2. CASE stored.present /\ ref[r] = stored.object
      BY <2>1, <2>2
    <2>3. CASE ref[r] = r /\ heap[r] = Fresh(now[r]) /\ Outlived(now[r])
      BY <2>3
    <2>4. QED
      BY <1>2, <2>1, <2>2, <2>3 DEF AtObject
  <1>4. Ahead(m, x)
    <2>1. CASE stored.present /\ ref[r] = stored.object /\ heap[ref[r]] = stored.value /\ open
      <3>1. PICK n \in Nat : n = stored.value.count
        BY DEF Shape, Count
      <3>2. m = n + 1 /\ Is(stored.value, n, x)
        BY <1>1, <2>1, <3>1, Counts DEF Shape, Is
      <3>3. QED
        BY <2>1, <3>2, NextCount
    <2>2. CASE stored.present /\ heap[ref[r]] = stored.value /\ ~open
      <3>1. m = 1 /\ x = now[r] + WindowMs
        BY <1>1, <2>2, Counts DEF Shape, Is
      <3>2. Outlived(now[r]) /\ now[r] \in Nat
        BY <2>2 DEF Outlived, Open, Shape, Count
      <3>3. QED
        BY <3>1, <3>2, NewWindow
    <2>3. CASE ref[r] = r /\ heap[r] = Fresh(now[r]) /\ Outlived(now[r])
      <3>1. m = 1 /\ x = now[r] + WindowMs
        BY <1>1, <2>3, Counts DEF Shape, Is
      <3>2. now[r] \in Nat
        BY DEF Shape
      <3>3. QED
        BY <2>3, <3>1, <3>2, NewWindow
    <2>4. QED
      BY <1>3, <2>1, <2>2, <2>3
  <1>5. chosen \in Request /\ counter \in Count
    BY Counts DEF Shape
  <1>6. pc'[chosen] \in {"set", "done"}
    BY <1>2, <1>3 DEF Shape
  <1> HIDE DEF open, chosen, counter
  <1>7. /\ stored'.present /\ stored'.object = chosen /\ stored'.value = counter
        /\ stored'.value.resetAt <= stored'.expiresAt
    <2>1. stored'.expiresAt \in Nat /\ counter.resetAt \in Nat
      BY <1>5 DEF Shape, Count
    <2>2. QED
      BY <1>2, <1>5, <2>1, Puts
  <1>8. ref'[r] = chosen /\ heap'[chosen] = counter /\ \A q \in Request : q # r => ref'[q] = ref[q]
    BY <1>2, <1>5 DEF Shape
  <1>9. Is(heap[ref[r]], m, x)'
    BY <1>1, <1>8 DEF Is
  <1>10. ASSUME NEW n \in Nat, NEW w \in Nat, Is(stored.value, n, w)' PROVE Tallied(n, w)
    <2>1. n = m /\ w = x
      BY <1>1, <1>7, <1>10 DEF Is
    <2>2. QED
      BY <1>4, <2>1, JudgedIn DEF Ahead, Tallied
  <1>11. QED
    BY <1>2, <1>4, <1>5, <1>6, <1>7, <1>8, <1>9, <1>10, TurnsCount

\* Its count in Redis runs ahead of those its window admitted.
LEMMA TurnsCountRedis ==
    ASSUME Shape, Turns, Shape', NEW r \in Request, CountRedis(r), ~disturbed' PROVE Turns'
  <1> DEFINE known == Live(clock) /\ Open(stored.value, now[r])
             counter == Bumped(IF known THEN stored.value ELSE Fresh(now[r]))
  <1>1. PICK m, x \in Nat : Is(counter, m, x)
    BY Counts DEF Shape, Is, Count
  <1>2. /\ store = "redis" /\ pc[r] = "get" /\ pc' = [pc EXCEPT ![r] = "set"]
        /\ heap' = [heap EXCEPT ![r] = counter]
        /\ UNCHANGED <<store, ref, stored, verdict, window>>
        /\ ~(stored.present /\ stored.expiresAt \in now[r]+1..clock)
    BY DEF CountRedis
  <1>3. Ahead(m, x)
    <2>1. CASE known
      <3>1. PICK n \in Nat : n = stored.value.count
        BY DEF Shape, Count
      <3>2. m = n + 1 /\ Is(stored.value, n, x)
        BY <1>1, <2>1, <3>1, Counts DEF Shape, Is
      <3>3. QED
        BY <2>1, <3>2, NextCount DEF Live
    <2>2. CASE ~known
      <3>1. m = 1 /\ x = now[r] + WindowMs /\ now[r] \in Nat
        BY <1>1, <2>2, Counts DEF Shape, Is
      <3>2. Outlived(now[r])
        <4>1. stored.present => stored.value.resetAt <= stored.expiresAt
          BY <1>2 DEF Turns
        <4>2. /\ stored.value.resetAt \in Nat /\ stored.expiresAt \in Nat
              /\ now[r] \in Nat /\ clock \in Nat /\ now[r] <= clock
          BY DEF Shape, Count
        <4>3. QED
          BY <1>2, <2>2, <4>1, <4>2 DEF Outlived, Live, Open
      <3>3. QED
        BY <3>1, <3>2, NewWindow
    <2>3. QED
      BY <2>1, <2>2
  <1> HIDE DEF known, counter
  <1>4. Is(heap[ref[r]], m, x)'
    <2>1. ref'[r] = r /\ heap'[r] = counter
      BY <1>2 DEF Turns, Shape
    <2>2. QED
      BY <1>1, <2>1 DEF Is
  <1>5. \A n, w \in Nat : stored'.present /\ Is(stored.value, n, w)' => Tallied(n, w)
    BY <1>2 DEF Turns, Is
  <1>6. stored'.present => stored'.value.resetAt <= stored'.expiresAt
    BY <1>2 DEF Turns
  <1>7. QED
    BY <1>2, <1>3, <1>4, <1>5, <1>6, TurnsCount

\* When Redis applies the set of the one request in the handler, the stored count is
\* that request's.
LEMMA TurnsApply ==
    ASSUME Shape, Turns, Shape', NEW r \in Request, Apply(r) PROVE Turns'
  <1>1. /\ store = "redis" /\ pc[r] = "set" /\ Put(r, r, heap[r])
        /\ pc' = [pc EXCEPT ![r] = "applied"]
        /\ UNCHANGED <<store, clock, now, heap, ref, verdict, window>>
    BY DEF Apply
  <1>2. PICK m, x \in Nat : Is(heap[r], m, x)
    BY DEF Shape, Is, Count
  <1>3. ref[r] = r /\ Ahead(m, x)
    BY <1>1, <1>2 DEF Turns
  <1>4. stored'.present /\ stored'.value = heap[r] /\ stored'.value.resetAt <= stored'.expiresAt
    <2>1. heap[r] \in Count /\ heap[r].resetAt \in Nat /\ stored'.expiresAt \in Nat
      BY DEF Shape, Count
    <2>2. QED
      BY <1>1, <2>1, Puts
  <1>5. \A q \in Request : pc'[q] = IF q = r THEN "applied" ELSE pc[q]
    BY <1>1 DEF Shape
  <1>6. /\ \A w : Adm(w)' = Adm(w)
        /\ \A n, w : (Tallied(n, w)' <=> Tallied(n, w)) /\ (Ahead(n, w)' <=> Ahead(n, w))
        /\ \A q \in Request : WasJudged(q)' <=> WasJudged(q)
    BY <1>1, ThroughSame DEF Tallied, Ahead, WasJudged
  <1>7. ASSUME NEW n \in Nat, NEW w \in Nat, Is(stored.value, n, w)' PROVE Tallied(n, w)'
    <2>1. n = m /\ w = x
      BY <1>2, <1>4, <1>7 DEF Is
    <2>2. Tallied(n, w)
      BY <1>3, <2>1, JudgedIn DEF Ahead, Tallied
    <2>3. QED
      BY <1>6, <2>2
  <1>8. \A q \in Request : Handled(q)' <=> Handled(q)
    BY <1>1, <1>5 DEF Handled
  <1>9. ASSUME NEW q \in Request, NEW n \in Nat, NEW w \in Nat,
               pc'[q] \in {"set", "applied"}, Is(heap[ref[q]], n, w)'
        PROVE  Ahead(n, w)'
    <2>1. pc[q] \in {"set", "applied"} /\ Is(heap[ref[q]], n, w)
      BY <1>1, <1>5, <1>9 DEF Is
    <2>2. QED
      BY <1>6, <2>1 DEF Turns
  <1>10. \A q \in Request : ref'[q] = q /\ (pc'[q] = "applied" => q = r)
    BY <1>1, <1>5 DEF Turns, Handled
  <1>11. \A w \in Nat : Adm(w)' <= Limit'
    BY <1>1, <1>6 DEF Turns, Limit
  <1>12. \A p, q \in Request :
            (WasJudged(p) /\ WasJudged(q) /\ window[p] < window[q] => window[p] + WindowMs <= window[q])'
    BY <1>1, <1>6 DEF Turns
  <1>13. \A p, q \in Request : Handled(p)' /\ Handled(q)' => p = q
    BY <1>8 DEF Turns
  <1>14. \A q \in Request : pc'[q] = "applied" => stored'.present /\ stored'.value = heap'[q]
    BY <1>1, <1>4, <1>10
  <1>15. QED
    BY <1>1, <1>4, <1>7, <1>9, <1>10, <1>11, <1>12, <1>13, <1>14 DEF Turns

\* When r leaves the handler it is empty, and only what is stored counts.
LEMMA TurnsLeave ==
    ASSUME Shape, Turns, Shape', NEW r \in Request, Handled(r),
           pc' = [pc EXCEPT ![r] = "done"], UNCHANGED <<store, heap, ref, stored>>,
           \A w \in Nat : Adm(w)' <= Limit',
           \A p, q \in Request :
              (WasJudged(p) /\ WasJudged(q) /\ window[p] < window[q] => window[p] + WindowMs <= window[q])',
           \A n, w \in Nat : stored'.present /\ Is(stored.value, n, w)' => Tallied(n, w)',
           \A q \in Request : WasJudged(q)' => stored'.present
    PROVE  Turns'
  <1>1. \A q \in Request : pc'[q] = IF q = r THEN "done" ELSE pc[q]
    BY DEF Shape
  <1>2. \A q \in Request : ~Handled(q)' /\ pc'[q] \notin {"get", "set", "applied"}
    BY <1>1 DEF Turns, Handled
  <1>3. store = "memory" => \A q \in Request : AtObject(q)'
    BY <1>1, <1>2 DEF Turns, AtObject
  <1>4. store = "memory" /\ stored'.present =>
            /\ stored'.object \in Request /\ pc'[stored'.object] \in {"set", "done"}
            /\ stored'.value = heap'[stored'.object]
    BY <1>1 DEF Turns
  <1>5. store = "redis" => \A q \in Request : ref'[q] = q
    BY DEF Turns
  <1>6. stored'.present /\ store # "local" => stored'.value.resetAt <= stored'.expiresAt
    BY DEF Turns
  <1>7. QED
    BY <1>2, <1>3, <1>4, <1>5, <1>6 DEF Turns

\* Its verdict is covered by that count.
LEMMA TurnsDecide ==
    ASSUME Shape, Turns, Shape', NEW r \in Request, Decide(r) PROVE Turns'
  <1>1. PICK m, x \in Nat : Is(heap[ref[r]], m, x)
    BY DEF Shape, Is, Count
  <1>2. PICK v \in {"admitted", "limited"} : v = IF m > Max THEN "limited" ELSE "admitted"
    OBVIOUS
  <1>3. /\ verdict' = [verdict EXCEPT ![r] = v] /\ window' = [window EXCEPT ![r] = x]
        /\ pc' = [pc EXCEPT ![r] = "done"] /\ pc[r] = IF store = "redis" THEN "applied" ELSE "set"
        /\ UNCHANGED <<store, heap, ref, stored>>
    BY <1>1, <1>2 DEF Decide, Verdict, Over, Is
  <1>4. store # "local"
    BY <1>3 DEF Turns, Handled
  <1>5. Ahead(m, x)
    BY <1>1, <1>3 DEF Turns
  <1>6. v = "admitted" => m <= Limit
    BY <1>2, <1>4, LimiterAssumption DEF Limit
  <1>7. /\ \A w \in Nat : Adm(w)' <= Limit'
        /\ \A p, q \in Request :
              (WasJudged(p) /\ WasJudged(q) /\ window[p] < window[q] => window[p] + WindowMs <= window[q])'
        /\ Tallied(m, x)'
    BY <1>3, <1>5, <1>6, JudgedInTurn
  <1>8. stored.present /\ stored.value = heap[ref[r]]
    <2>1. CASE store = "redis"
      BY <1>3, <2>1 DEF Turns
    <2>2. CASE store = "memory"
      BY <1>3, <2>2 DEF Turns, AtObject
    <2>3. QED
      BY <1>4, <2>1, <2>2 DEF Shape
  <1>9. ASSUME NEW n \in Nat, NEW w \in Nat, Is(stored.value, n, w)' PROVE Tallied(n, w)'
    <2>1. n = m /\ w = x
      BY <1>1, <1>3, <1>8, <1>9 DEF Is
    <2>2. QED
      BY <1>7, <2>1
  <1>10. Handled(r) /\ \A q \in Request : stored'.present
    BY <1>3, <1>8 DEF Handled
  <1>11. QED
    BY <1>3, <1>7, <1>9, <1>10, TurnsLeave

\* A store that rejects counts nobody.
LEMMA TurnsStoreFails ==
    ASSUME Shape, Turns, Shape', NEW r \in Request, StoreFails(r) PROVE Turns'
  <1>1. PICK x \in Nat : x = IF pc[r] = "get" THEN window[r] ELSE heap[r].resetAt
    BY DEF Shape, Count
  <1>2. /\ verdict' = [verdict EXCEPT ![r] = "failed"] /\ window' = [window EXCEPT ![r] = x]
        /\ pc' = [pc EXCEPT ![r] = "done"] /\ Handled(r)
        /\ UNCHANGED <<store, heap, ref, stored>>
    BY <1>1 DEF StoreFails, Shape, Handled
  <1>3. \A q \in Request : (WasJudged(q)' <=> WasJudged(q)) /\ (WasJudged(q) => window'[q] = window[q])
    BY <1>2 DEF WasJudged, Shape, Handled
  <1>4. \A w : Adm(w)' = Adm(w)
    <2>1. \A w : Judged(w, "admitted")' = Judged(w, "admitted")
      BY <1>2, <1>3 DEF Judged, WasJudged, Shape
    <2>2. QED
      BY <2>1 DEF Adm
  <1>5. \A n, w : Tallied(n, w)' <=> Tallied(n, w)
    BY <1>3, <1>4 DEF Tallied, Latest
  <1>6. Limit' = Limit
    BY <1>2 DEF Limit
  <1>7. \A n, w \in Nat : stored'.present /\ Is(stored.value, n, w)' => Tallied(n, w)'
    BY <1>2, <1>5 DEF Turns, Is
  <1>8. /\ \A w \in Nat : Adm(w)' <= Limit'
        /\ \A q \in Request : WasJudged(q)' => stored'.present
    BY <1>2, <1>3, <1>4, <1>6 DEF Turns
  <1>9. \A p, q \in Request :
            (WasJudged(p) /\ WasJudged(q) /\ window[p] < window[q] => window[p] + WindowMs <= window[q])'
    BY <1>3 DEF Turns
  <1>10. QED
    BY <1>2, <1>7, <1>8, <1>9, TurnsLeave

\* A step that judges nobody and leaves the store alone keeps the turns.
LEMMA TurnsSame ==
    ASSUME Turns, UNCHANGED <<store, pc, now, heap, ref, stored, verdict, window>> PROVE Turns'
  <1>1. /\ \A w : Adm(w)' = Adm(w)
        /\ \A n, w : (Tallied(n, w)' <=> Tallied(n, w)) /\ (Ahead(n, w)' <=> Ahead(n, w))
        /\ \A q \in Request : (WasJudged(q)' <=> WasJudged(q)) /\ (AtObject(q)' <=> AtObject(q))
    BY ThroughSame DEF Tallied, Ahead, WasJudged, AtObject, Outlived, Fresh
  <1>2. Limit' = Limit /\ \A q \in Request : Handled(q)' <=> Handled(q)
    BY DEF Limit, Handled
  <1>3. QED
    BY <1>1, <1>2 DEF Turns, Is

\* Every step keeps the part about requests in turn.
LEMMA TurnsKeep == ASSUME Shape, Turns, [Next]_vars, ~disturbed' PROVE Turns'
  <1>1. Shape'
    BY ShapeKeeps
  <1>2. CASE Tick \/ UNCHANGED vars
    BY <1>2, TurnsSame DEF Tick, vars
  <1>3. QED
    BY <1>1, <1>2, TurnsLocal, TurnsArrive, TurnsCountMemory, TurnsCountRedis, TurnsApply,
       TurnsDecide, TurnsStoreFails DEF Next, Handle

-----------------------------------------------------------------------------
(* The theorems                                                              *)

\* The invariant holds at the start.
LEMMA Initially == Init => IInv
  <1> SUFFICES ASSUME Init PROVE IInv
    OBVIOUS
  <1>1. Shape
    BY ShapeInitially
  <1>2. /\ stored.present = FALSE
        /\ \A r \in Request : /\ ref[r] = r /\ heap[r].count = 0
                              /\ pc[r] = "new" /\ verdict[r] = "none"
    BY DEF Init, Nothing, Zero
  <1>3. store # "memory" => Copies
    BY <1>2 DEF Copies
  <1>4. store = "memory" => Shared
    BY <1>2, UsersIn DEF Shared
  <1>5. Turns
    <2>1. ASSUME NEW w PROVE Adm(w) = 0
      <3>1. Judged(w, "admitted") = {}
        BY <1>2 DEF Judged
      <3>2. QED
        BY <3>1, FS_EmptySet DEF Adm
    <2>2. \A w \in Nat : Adm(w) <= Limit
      BY <2>1, LimiterAssumption DEF Limit, Later
    <2>3. \A q \in Request : ~WasJudged(q) /\ ~Handled(q) /\ AtObject(q)
      BY <1>2 DEF WasJudged, Handled, AtObject
    <2>4. QED
      BY <1>2, <2>2, <2>3 DEF Turns
  <1>6. QED
    BY <1>1, <1>3, <1>4, <1>5 DEF IInv

\* Every step keeps the invariant.
LEMMA Keeps == IInv /\ [Next]_vars => IInv'
  <1> SUFFICES ASSUME IInv, [Next]_vars PROVE IInv'
    OBVIOUS
  <1>1. ~disturbed' => ~disturbed
    BY DEF Next, Handle, Tick, Local, Arrive, CountMemory, CountRedis, Apply, Decide,
       StoreFails, vars
  <1>2. QED
    BY <1>1, ShapeKeeps, CopiesKeep, SharedKeep, TurnsKeep DEF IInv

\* The invariant holds in every state the limiter can reach.
THEOREM LimiterIsInvariant == Spec => []IInv
  BY Initially, Keeps, PTL DEF Spec

\* No window admits more than the limit while requests take turns, and the windows
\* of one client do not overlap (createRateLimiter, over each of its stores).
THEOREM WindowsAreBounded == Spec => []WindowBound
  <1>1. ASSUME IInv PROVE WindowBound
    <2>1. SUFFICES ASSUME ~disturbed PROVE WindowBound
      BY DEF WindowBound
    <2>2. Turns
      BY <1>1, <2>1 DEF IInv
    <2>3. ASSUME NEW w \in Window
          PROVE  Cardinality(Judged(w, "admitted")) <= IF store = "local" THEN Later(1, Max) ELSE Max
      <3>1. w \in Nat
        BY LimiterAssumption DEF Window
      <3>2. QED
        BY <2>2, <3>1 DEF Turns, Adm, Limit
    <2>4. ASSUME NEW q \in Request, NEW r \in Request,
                 {verdict[q], verdict[r]} \subseteq {"admitted", "limited"}, window[q] < window[r]
          PROVE  window[q] + WindowMs <= window[r]
      BY <2>2, <2>4 DEF Turns, WasJudged
    <2>5. QED
      BY <2>3, <2>4 DEF WindowBound
  <1>2. IInv => WindowBound
    BY <1>1
  <1>3. QED
    BY <1>2, LimiterIsInvariant, PTL

\* Nobody is turned away without cause, however requests race (createRateLimiter).
THEOREM RejectedForCause == Spec => []NoEarlyRejection
  <1>1. ASSUME IInv, NEW r \in Request, verdict[r] = "limited", store = "memory"
        PROVE  Max < Cardinality({q \in Request : pc[q] \in {"set", "done"} /\
                                      heap[ref[q]].resetAt = window[r]})
    <2>1. PICK w \in Nat : w = window[r]
      BY <1>1 DEF IInv, Shape
    <2>2. Max < Cardinality(Counted(w))
      BY <1>1, <2>1 DEF IInv, Copies, Shared
    <2>3. QED
      BY <2>1, <2>2 DEF Counted
  <1>2. ASSUME IInv, NEW r \in Request, verdict[r] = "limited", store # "memory"
        PROVE  Max <= Cardinality(Through(window[r]))
    <2>1. PICK w \in Nat : w = window[r]
      BY <1>2 DEF IInv, Shape
    <2>2. QED
      BY <1>2, <2>1 DEF IInv, Copies, Shared, Past
  <1>3. IInv => NoEarlyRejection
    BY <1>1, <1>2 DEF NoEarlyRejection
  <1>4. QED
    BY <1>3, LimiterIsInvariant, PTL

-----------------------------------------------------------------------------
(* Types                                                                     *)

\* What Shape leaves out: nothing is dated beyond the windows that can have begun.
Dated ==
    /\ store \in Stores /\ clock <= MaxTime
    /\ \A r \in Request : heap[r].resetAt <= MaxTime + WindowMs /\ window[r] <= MaxTime + WindowMs
    /\ stored.value.resetAt <= MaxTime + WindowMs
    /\ stored.expiresAt <= MaxTime + MaxTime + WindowMs

\* An entry is set to run out at most a window beyond the bound of the clock.
LEMMA PutDated ==
    ASSUME Shape, Dated, NEW r \in Request, NEW o \in Request, NEW c \in Count,
           c.resetAt <= MaxTime + WindowMs, Put(r, o, c)
    PROVE  stored'.value.resetAt <= MaxTime + WindowMs /\ stored'.expiresAt <= MaxTime + MaxTime + WindowMs
  <1>1. clock \in Nat /\ clock <= MaxTime /\ now[r] \in Nat /\ c.resetAt \in Nat
    BY DEF Shape, Dated, Count
  <1>2. Ttl(r, c) \in Nat /\ Ttl(r, c) <= MaxTime + WindowMs
    BY <1>1, LimiterAssumption DEF Ttl, Later
  <1>3. stored'.value = c /\ stored'.expiresAt = clock + Ttl(r, c)
    BY DEF Put
  <1>4. QED
    BY <1>1, <1>2, <1>3, LimiterAssumption

\* Each step of a handler keeps the dates within bounds.
LEMMA DatedKeeps == ASSUME Shape, Dated, [Next]_vars PROVE Dated'
  <1> DEFINE B == MaxTime + WindowMs
  <1>1. B \in Nat
    BY LimiterAssumption
  <1>2. ASSUME NEW t \in Nat, t <= MaxTime
        PROVE  Fresh(t) \in Count /\ Fresh(t).resetAt <= B /\ Bumped(Fresh(t)) \in Count
               /\ Bumped(Fresh(t)).resetAt <= B
    <2>1. Fresh(t) \in Count /\ Fresh(t).resetAt = t + WindowMs
      BY Counts DEF Fresh
    <2>2. Bumped(Fresh(t)) \in Count /\ Bumped(Fresh(t)).resetAt = t + WindowMs
      BY <2>1, Counts
    <2>3. t + WindowMs <= B
      BY <1>2, LimiterAssumption
    <2>4. QED
      BY <2>1, <2>2, <2>3
  <1>3. \A c \in Count : Bumped(c) \in Count /\ Bumped(c).resetAt = c.resetAt
    BY Counts
  <1>4. \A r \in Request : now[r] \in Nat /\ now[r] <= MaxTime /\ heap[r] \in Count
    BY LimiterAssumption DEF Shape, Dated
  <1>5. clock \in Nat /\ clock <= MaxTime /\ stored.value \in Count
    BY DEF Shape, Dated
  <1>6. CASE UNCHANGED vars
    BY <1>6 DEF vars, Dated
  <1>7. CASE Tick
    BY <1>7, <1>5, LimiterAssumption DEF Tick, Dated
  <1>8. ASSUME NEW r \in Request, Local(r) PROVE Dated'
    <2> DEFINE opens == ~(stored.present /\ Open(stored.value, clock))
               c == Bumped(IF opens THEN Fresh(clock) ELSE stored.value)
    <2>1. c \in Count /\ c.resetAt <= B
      BY <1>2, <1>3, <1>5 DEF Dated
    <2>2. /\ stored' = [stored EXCEPT !.present = TRUE, !.value = c]
          /\ window' = [window EXCEPT ![r] = c.resetAt]
          /\ UNCHANGED <<store, clock, heap>>
      BY <1>8 DEF Local, Verdict
    <2> HIDE DEF c
    <2>3. stored'.value = c /\ stored'.expiresAt = stored.expiresAt
      BY <2>2 DEF Shape
    <2>4. QED
      BY <2>1, <2>2, <2>3 DEF Dated, Shape
  <1>9. ASSUME NEW r \in Request, Arrive(r) PROVE Dated'
    <2>1. heap' = heap \/ heap' = [heap EXCEPT ![r] = Fresh(clock)]
      BY <1>9 DEF Arrive
    <2>2. \A q \in Request : heap'[q].resetAt <= B
      BY <1>2, <1>5, <2>1 DEF Dated, Shape
    <2>3. QED
      BY <1>9, <2>2 DEF Arrive, Dated
  <1>10. ASSUME NEW r \in Request, CountMemory(r) PROVE Dated'
    <2> DEFINE open == Open(heap[ref[r]], now[r])
               o == IF open THEN ref[r] ELSE r
               c == Bumped(IF open THEN heap[o] ELSE Fresh(now[r]))
    <2>1. o \in Request
      BY DEF Shape
    <2>2. c \in Count /\ c.resetAt <= B
      BY <1>2, <1>3, <1>4, <2>1 DEF Dated
    <2>3. heap' = [heap EXCEPT ![o] = c] /\ Put(r, o, c) /\ UNCHANGED <<store, clock, window>>
      BY <1>10 DEF CountMemory
    <2> HIDE DEF c, o
    <2>4. \A q \in Request : heap'[q].resetAt <= B
      BY <2>1, <2>2, <2>3 DEF Dated, Shape
    <2>5. stored'.value.resetAt <= B /\ stored'.expiresAt <= MaxTime + MaxTime + WindowMs
      BY <2>1, <2>2, <2>3, PutDated
    <2>6. QED
      BY <2>3, <2>4, <2>5 DEF Dated
  <1>11. ASSUME NEW r \in Request, CountRedis(r) PROVE Dated'
    <2>1. PICK c \in {stored.value, Fresh(now[r])} : heap' = [heap EXCEPT ![r] = Bumped(c)]
      BY <1>11 DEF CountRedis
    <2>2. Bumped(c).resetAt <= B
      BY <1>2, <1>3, <1>4, <1>5 DEF Dated
    <2>3. \A q \in Request : heap'[q].resetAt <= B
      BY <2>1, <2>2 DEF Dated, Shape
    <2>4. QED
      BY <1>11, <2>3 DEF CountRedis, Dated
  <1>12. ASSUME NEW r \in Request, Decide(r) \/ StoreFails(r) PROVE Dated'
    <2>1. UNCHANGED <<stored, store, clock, heap>>
      BY <1>12 DEF Decide, StoreFails
    <2>3. PICK w : window' = [window EXCEPT ![r] = w] /\ w \in {window[r], heap[r].resetAt, heap[ref[r]].resetAt}
      BY <1>12 DEF Decide, StoreFails, Verdict
    <2>4. w <= B
      BY <2>3 DEF Dated, Shape
    <2>5. \A q \in Request : window'[q] <= B
      BY <2>3, <2>4 DEF Dated, Shape
    <2>6. QED
      BY <2>1, <2>5 DEF Dated
  <1>13. ASSUME NEW r \in Request, Apply(r) PROVE Dated'
    <2>1. heap[r].resetAt <= B /\ Put(r, r, heap[r]) /\ UNCHANGED <<store, clock, heap, window>>
      BY <1>13 DEF Apply, Dated
    <2>2. stored'.value.resetAt <= B /\ stored'.expiresAt <= MaxTime + MaxTime + WindowMs
      BY <1>4, <2>1, PutDated
    <2>3. QED
      BY <2>1, <2>2 DEF Dated
  <1>14. QED
    BY <1>6, <1>7, <1>8, <1>9, <1>10, <1>11, <1>12, <1>13 DEF Next, Handle

\* Every reachable state of a limiter that anyone asks has its type: no window ends,
\* and no entry runs out, later than one that the last request began.
THEOREM LimiterTypes == ASSUME Request # {} PROVE Spec => []TypeOK
  <1>1. Init => Dated
    BY LimiterAssumption DEF Init, Dated, Nothing, Zero
  <1>2. Spec => []Dated
    <2>1. IInv /\ Dated /\ [Next]_vars => Dated'
      BY DatedKeeps DEF IInv
    <2>2. QED
      BY <1>1, <2>1, LimiterIsInvariant, PTL DEF Spec
  <1>3. IInv /\ Dated => TypeOK
    <2> SUFFICES ASSUME IInv, Dated PROVE TypeOK
      OBVIOUS
    <2> USE DEF IInv
    <2>1. Holder = Request
      BY DEF Holder
    <2>2. \A c \in Count : c.resetAt <= MaxTime + WindowMs => c \in Counter
      BY LimiterAssumption DEF Count, Counter, Window
    <2>3. heap \in [Request -> Counter]
      BY <2>2 DEF Shape, Dated
    <2>4. stored \in [present : BOOLEAN, object : Request, value : Counter,
                      expiresAt : 0..(MaxTime + MaxTime + WindowMs)]
      <3>1. stored.value \in Counter /\ stored.expiresAt \in 0..(MaxTime + MaxTime + WindowMs)
        BY <2>2, LimiterAssumption DEF Shape, Dated
      <3>2. QED
        BY <2>1, <3>1 DEF Shape
    <2>5. clock \in Time /\ now \in [Request -> Time] /\ window \in [Request -> Window]
      <3>1. clock \in Time
        BY LimiterAssumption DEF Shape, Dated, Time
      <3>2. \A r \in Request : now[r] \in Time /\ window[r] \in Window
        BY LimiterAssumption DEF Shape, Dated, Time, Window
      <3>3. QED
        BY <3>1, <3>2 DEF Shape
    <2>6. QED
      BY <2>3, <2>4, <2>5 DEF TypeOK, Shape, Verdicts, Dated
  <1>4. QED
    BY <1>2, <1>3, LimiterIsInvariant, PTL
=============================================================================
