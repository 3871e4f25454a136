----------------------------- MODULE DataProofs -----------------------------
(* What holds of values read through a cache (CacheWrap) and of rows read   *)
(* page by page (OrmPages), for any callers, lifetimes, ids and page sizes, *)
(* while what they come from is changed.                                    *)
EXTENDS CacheWrap, OrmPages, FiniteSetTheorems, SequenceTheorems, WellFoundedInduction, TLAPS

-----------------------------------------------------------------------------
(* CacheWrap                                                                *)

\* How long an entry lives: some time, and no more than the TTL and a second.
LEMMA LifetimeBound == ASSUME NEW c \in Cache PROVE Lifetime(c) \in Nat /\ Lifetime(c) <= TtlMs + SecondMs
  <1> DEFINE q == (TtlMs + SecondMs - 1) \div SecondMs
  <1>1. q \in Nat /\ SecondMs * q <= TtlMs + SecondMs - 1
    BY CacheAssumption
  <1>2. SecondMs * q \in Nat
    BY <1>1, CacheAssumption
  <1>3. SecondMs * 1 = SecondMs
    BY CacheAssumption
  <1> HIDE DEF q
  <1>4. SecondMs * Later(1, q) \in {SecondMs, SecondMs * q}
    BY <1>3 DEF Later
  <1>5. SecondMs * Later(1, q) \in Nat /\ SecondMs * Later(1, q) <= TtlMs + SecondMs
    BY <1>1, <1>2, <1>4, CacheAssumption
  <1>6. QED
    BY <1>5, CacheAssumption DEF Lifetime, q

\* No stale value is about while the source and the caches are in step, but where a
\* delete did not reach.
Holding(w) == pc[w] \in {"loaded", "set"}
Fresh ==
    ~pending =>
        /\ \A c \in Cache \ missed : Live(c) => entry[c].version = source
        /\ \A w \in Caller \ crossed : Holding(w) => value[w] = source

\* When a value was read and when the source left it: a loader saw its version
\* before that, and an entry holds one that a loader saw no longer before it was
\* stored than the slowest took.
Read(w) ==
    /\ value[w] <= source /\ loadedAt[w] <= clock
    /\ value[w] # source => loadedAt[w] <= replacedAt[value[w]]
Aged(c) ==
    /\ entry[c].version <= source /\ entry[c].expiresAt <= clock + Lifetime(c)
    /\ entry[c].version # source =>
           entry[c].expiresAt <= replacedAt[entry[c].version] + Lifetime(c) + slowest
Dated ==
    /\ \A w \in Caller : Holding(w) => Read(w)
    /\ \A c \in Cache : entry[c].present /\ Lifetime(c) # 0 => Aged(c)

CacheInv == TypeOK /\ Fresh /\ Dated

\* The invariant holds of empty caches.
LEMMA CacheInitially == Init => CacheInv
  <1> SUFFICES ASSUME Init PROVE CacheInv
    OBVIOUS
  <1>1. 0 \in Version /\ Never \in Nat /\ 0 \in 0..Never /\ Never \in 0..Never /\ 0 \in 0..MaxTime
    BY CacheAssumption DEF Version, Never
  <1>2. Absent \in Entry
    BY <1>1 DEF Absent, Entry
  <1>3. TypeOK
    BY <1>1, <1>2 DEF Init, TypeOK
  <1>4. (\A c \in Cache : entry[c] = Absent) /\ (\A w \in Caller : pc[w] = "idle") /\ ~Absent.present
    BY DEF Init, Absent
  <1>5. Fresh /\ Dated
    BY <1>4 DEF Fresh, Dated, Live, Holding
  <1>6. QED
    BY <1>3, <1>5 DEF CacheInv

\* A step that stores nothing, reads nothing and changes no source, in which entries may
\* go, callers may give up, and time may pass.
LEMMA CacheLoses ==
    ASSUME CacheInv, TypeOK', UNCHANGED <<kind, source, replacedAt, slowest>>,
           \A c \in Cache : entry'[c] \in {entry[c], Absent},
           \A w \in Caller : pc'[w] \in {"loaded", "set"} =>
               Holding(w) /\ value'[w] = value[w] /\ loadedAt'[w] = loadedAt[w],
           clock' >= clock,
           pending => pending' \/ \A w \in Caller : Holding(w) => w \in crossed',
           pending => pending' \/ \A c \in Cache : Live(c)' => c \in missed',
           \A w \in crossed : pc'[w] \in {"loaded", "set"} => w \in crossed',
           \A c \in missed : Live(c)' => c \in missed'
    PROVE  CacheInv'
  <1> USE CacheAssumption DEF CacheInv, TypeOK
  <1>1. ~Absent.present
    BY DEF Absent
  <1>2. \A c \in Cache : Live(c)' => Live(c) /\ entry'[c] = entry[c]
    BY <1>1 DEF Live, Entry, Never
  <1>3. \A w \in Caller : Holding(w)' => Holding(w) /\ value'[w] = value[w] /\ loadedAt'[w] = loadedAt[w]
    BY DEF Holding
  <1>4. Fresh'
    <2>1. ASSUME ~pending', NEW c \in Cache, c \notin missed', Live(c)' PROVE entry'[c].version = source'
      BY <1>2, <2>1 DEF Fresh
    <2>2. ASSUME ~pending', NEW w \in Caller, w \notin crossed', Holding(w)' PROVE value'[w] = source'
      <3>1. Holding(w) /\ value'[w] = value[w]
        BY <1>3, <2>2
      <3>2. w \notin crossed
        BY <2>2 DEF Holding
      <3>3. QED
        BY <2>2, <3>1, <3>2 DEF Fresh
    <2>3. QED
      BY <2>1, <2>2 DEF Fresh
  <1>5. \A c \in Cache : Lifetime(c)' = Lifetime(c) /\ Lifetime(c) \in Nat
    BY LifetimeBound DEF Lifetime
  <1>6. ASSUME NEW w \in Caller, Holding(w)' PROVE Read(w)'
    <2>1. Read(w) /\ value'[w] = value[w] /\ loadedAt'[w] = loadedAt[w]
      BY <1>3, <1>6 DEF Dated
    <2>2. QED
      BY <2>1 DEF Read
  <1>7. ASSUME NEW c \in Cache, entry'[c].present, Lifetime(c)' # 0 PROVE Aged(c)'
    <2>1. entry'[c] = entry[c] /\ entry[c] \in Entry
      BY <1>1, <1>7
    <2>2. Aged(c) /\ Lifetime(c)' = Lifetime(c) /\ Lifetime(c) \in Nat
      BY <1>5, <1>7, <2>1 DEF Dated
    <2>3. clock \in Nat /\ clock' \in Nat /\ entry[c].expiresAt \in Nat
      BY <2>1 DEF Entry, Never
    <2>4. QED
      BY <2>1, <2>2, <2>3 DEF Aged
  <1>8. QED
    BY <1>4, <1>6, <1>7 DEF Dated

\* The loader reads the source of now.
LEMMA CacheLoad == ASSUME CacheInv, NEW w \in Caller, Load(w) PROVE CacheInv'
  <1> USE CacheAssumption DEF CacheInv, TypeOK
  <1>1. /\ UNCHANGED <<kind, driver, clock, source, replacedAt, entry, target, slowest, pending, missed>>
        /\ crossed' = crossed \ {w}
        /\ \A v \in Caller : /\ pc'[v] = (IF v = w THEN "loaded" ELSE pc[v])
                             /\ value'[v] = (IF v = w THEN source ELSE value[v])
                             /\ loadedAt'[v] = (IF v = w THEN clock ELSE loadedAt[v])
    BY DEF Load, program
  <1>2. TypeOK'
    BY DEF Load, program
  <1>3. \A c \in Cache : (Live(c)' <=> Live(c)) /\ Lifetime(c)' = Lifetime(c)
    BY <1>1 DEF Live, Lifetime
  <1>4. Fresh'
    BY <1>1, <1>3 DEF Fresh, Holding
  <1>5. Dated'
    <2>1. \A v \in Caller : Holding(v)' => Read(v)'
      BY <1>1 DEF Dated, Holding, Read, Version
    <2>2. \A c \in Cache : entry'[c].present /\ Lifetime(c)' # 0 => Aged(c)'
      BY <1>1, <1>3 DEF Dated, Aged
    <2>3. QED
      BY <2>1, <2>2 DEF Dated
  <1>6. QED
    BY <1>2, <1>4, <1>5

\* What a loader read is stored.
LEMMA CacheStore == ASSUME CacheInv, NEW w \in Caller, NEW c \in Cache, Store(w, c) PROVE CacheInv'
  <1> USE CacheAssumption DEF CacheInv, TypeOK
  <1> DEFINE e == [present |-> TRUE, version |-> value[w], expiresAt |-> Expiry(c)]
  <1>1. /\ Holding(w) /\ UNCHANGED <<kind, driver, clock, source, replacedAt, pending>>
        /\ entry' = [entry EXCEPT ![c] = e]
        /\ slowest' = Later(slowest, clock - loadedAt[w])
        /\ missed' = IF w \in crossed THEN missed \cup {c} ELSE missed \ {c}
        /\ crossed' = crossed \ {w} /\ Return(w)
    BY DEF Store, Holding, program, Return
  <1>2. Expiry(c) \in 0..Never /\ (Lifetime(c) # 0 => Expiry(c) = clock + Lifetime(c))
    BY LifetimeBound DEF Expiry, Never
  <1>3. Read(w) /\ loadedAt[w] \in Nat /\ clock \in Nat /\ slowest \in Nat /\ value[w] \in Version
    BY <1>1 DEF Dated
  <1>4. slowest' \in 0..MaxTime /\ slowest' >= slowest /\ slowest' >= clock - loadedAt[w]
    BY <1>1, <1>3 DEF Later, Read
  <1>5. e \in Entry /\ e.present /\ e.version = value[w] /\ e.expiresAt = Expiry(c)
    BY <1>2, <1>3 DEF Entry
  <1> HIDE DEF e
  <1>6. /\ \A d \in Cache : entry'[d] = IF d = c THEN e ELSE entry[d]
        /\ \A v \in Caller \ {w} : pc'[v] = pc[v] /\ value'[v] = value[v] /\ loadedAt'[v] = loadedAt[v]
        /\ pc'[w] = "idle"
    BY <1>1 DEF Return
  <1>7. TypeOK'
    <2>1. 0 \in Version /\ 0 \in 0..MaxTime
      BY DEF Version
    <2>2. entry' \in [Cache -> Entry] /\ missed' \subseteq Cache /\ crossed' \subseteq Caller
      BY <1>1, <1>5
    <2>3. QED
      BY <1>1, <1>4, <2>1, <2>2 DEF Return
  <1>8. \A d \in Cache : Lifetime(d)' = Lifetime(d)
    BY <1>1 DEF Lifetime
  <1>9. Fresh'
    <2>1. ASSUME ~pending, NEW d \in Cache, d \notin missed', Live(d)' PROVE entry'[d].version = source
      <3>1. CASE d = c
        <4>1. w \notin crossed
          BY <1>1, <2>1, <3>1
        <4>2. value[w] = source
          BY <1>1, <2>1, <4>1 DEF Fresh
        <4>3. QED
          BY <1>5, <1>6, <3>1, <4>2
      <3>2. CASE d # c
        <4>1. d \notin missed /\ Live(d) /\ entry'[d] = entry[d]
          BY <1>1, <1>6, <2>1, <3>2 DEF Live
        <4>2. QED
          BY <2>1, <4>1 DEF Fresh
      <3>3. QED
        BY <3>1, <3>2
    <2>2. \A v \in Caller : Holding(v)' => v # w /\ Holding(v) /\ value'[v] = value[v]
      BY <1>6 DEF Holding
    <2>3. QED
      BY <1>1, <2>1, <2>2 DEF Fresh
  <1>10. Dated'
    <2>1. ASSUME NEW v \in Caller, Holding(v)' PROVE Read(v)'
      <3>1. v # w /\ Holding(v)
        BY <1>6, <2>1 DEF Holding
      <3>2. Read(v)
        BY <3>1 DEF Dated
      <3>3. QED
        BY <1>1, <1>6, <3>1, <3>2 DEF Read
    <2>2. ASSUME NEW d \in Cache, entry'[d].present, Lifetime(d) # 0 PROVE Aged(d)'
      <3>1. Lifetime(d) \in Nat /\ Lifetime(d)' = Lifetime(d) /\ slowest' \in Nat
        BY <1>4, <1>8, LifetimeBound
      <3>2. CASE d = c
        <4>1. entry'[c].version = value[w] /\ entry'[c].expiresAt = clock + Lifetime(c)
          BY <1>2, <1>5, <1>6, <2>2, <3>2
        <4>2. value[w] \in Nat /\ source \in Nat /\ replacedAt[value[w]] \in Nat
          BY <1>3 DEF Version, Never
        <4>3. QED
          BY <1>1, <1>3, <1>4, <3>1, <3>2, <4>1, <4>2 DEF Aged, Read
      <3>3. CASE d # c
        <4>1. entry'[d] = entry[d] /\ Aged(d) /\ entry[d] \in Entry
          BY <1>6, <2>2, <3>3 DEF Dated
        <4>2. entry[d].expiresAt \in Nat /\ replacedAt[entry[d].version] \in Nat
          BY <4>1 DEF Entry, Never
        <4>3. QED
          BY <1>1, <1>3, <1>4, <3>1, <4>1, <4>2 DEF Aged
      <3>4. QED
        BY <3>2, <3>3
    <2>3. QED
      BY <1>8, <2>1, <2>2 DEF Dated
  <1>11. QED
    BY <1>7, <1>9, <1>10

\* The source moves on, and what was read before is of a version it has left.
LEMMA CacheChange == ASSUME CacheInv, Change PROVE CacheInv'
  <1> USE CacheAssumption DEF CacheInv, TypeOK
  <1>1. /\ UNCHANGED <<kind, driver, clock, entry, pc, value, loadedAt, target, slowest, crossed, missed>>
        /\ source' = source + 1 /\ source \in Nat /\ pending'
        /\ \A v \in Version : replacedAt'[v] = IF v = source THEN clock ELSE replacedAt[v]
    BY DEF Change, callers, Version
  <1>2. TypeOK' /\ Fresh'
    BY DEF Change, callers, Version, Fresh, Never
  <1>3. ASSUME NEW w \in Caller, Holding(w)' PROVE Read(w)'
    <2>1. Read(w)
      BY <1>1, <1>3 DEF Dated, Holding
    <2>2. QED
      BY <1>1, <2>1 DEF Read, Version
  <1>4. ASSUME NEW c \in Cache, entry'[c].present, Lifetime(c)' # 0 PROVE Aged(c)'
    <2>1. Lifetime(c)' = Lifetime(c) /\ Lifetime(c) \in Nat /\ entry[c] \in Entry
      BY <1>1, LifetimeBound DEF Lifetime
    <2>2. Aged(c) /\ clock \in Nat /\ slowest \in Nat
      BY <1>1, <1>4, <2>1 DEF Dated
    <2>3. entry[c].version \in Nat /\ entry[c].version \in Version /\ entry[c].expiresAt \in Nat
      BY <2>1 DEF Entry, Version, Never
    <2>4. QED
      BY <1>1, <2>1, <2>2, <2>3 DEF Aged
  <1>5. QED
    BY <1>2, <1>3, <1>4 DEF Dated

\* Every step of a wrap(), of the program, of the drivers and of the clock keeps it.
LEMMA CacheKeeps == CacheInv /\ [Next]_vars => CacheInv'
  <1> SUFFICES ASSUME CacheInv, [Next]_vars PROVE CacheInv'
    OBVIOUS
  <1> USE CacheAssumption
  <1>0. TypeOK
    BY DEF CacheInv
  <1>1. ASSUME NEW w \in Caller, (\E c \in Cache : Miss(w, c)) \/ Send(w) PROVE CacheInv'
    <2>1. TypeOK'
      BY <1>0, <1>1 DEF TypeOK, Miss, Send, program
    <2>2. \A v \in Caller : pc'[v] \in {"loaded", "set"} => Holding(v)
      BY <1>0, <1>1 DEF TypeOK, Miss, Send, Holding
    <2>3. UNCHANGED <<kind, clock, source, replacedAt, entry, value, loadedAt, slowest, pending, crossed, missed>>
      BY <1>1 DEF Miss, Send, program
    <2>4. clock' >= clock
      BY <1>0, <2>3 DEF TypeOK
    <2>5. QED
      BY <2>1, <2>2, <2>3, <2>4, CacheLoses
  <1>2. ASSUME NEW w \in Caller, Reject(w) PROVE CacheInv'
    <2>1. TypeOK'
      BY <1>0, <1>2 DEF TypeOK, Reject, Return, program, Version
    <2>2. \A v \in Caller : pc'[v] \in {"loaded", "set"} =>
              v # w /\ Holding(v) /\ value'[v] = value[v] /\ loadedAt'[v] = loadedAt[v]
      BY <1>0, <1>2 DEF TypeOK, Reject, Return, Holding
    <2>3. UNCHANGED <<kind, clock, source, replacedAt, entry, slowest, pending, missed>> /\ crossed' = crossed \ {w}
      BY <1>2 DEF Reject, Return, program
    <2>4. clock' >= clock
      BY <1>0, <2>3 DEF TypeOK
    <2>5. crossed \subseteq Caller
      BY <1>0 DEF TypeOK
    <2>6. QED
      BY <2>1, <2>2, <2>3, <2>4, <2>5, CacheLoses
  <1>3. ASSUME NEW c \in Cache, Del(c) PROVE CacheInv'
    <2>1. /\ entry' = [entry EXCEPT ![c] = Absent] /\ ~pending'
          /\ crossed' = {w \in Caller : pc[w] \in {"loaded", "set"}}
          /\ missed' = {x \in Cache \ {c} : x \in missed \/ Live(x)}
          /\ UNCHANGED <<kind, driver, clock, source, replacedAt, pc, value, loadedAt, target, slowest>>
      BY <1>3 DEF Del, Forget, program, callers
    <2>2. Absent \in Entry /\ ~Absent.present
      BY DEF Absent, Entry, Version, Never
    <2>3. TypeOK'
      <3>1. pending' \in BOOLEAN
        BY <1>3 DEF Del
      <3>2. QED
        BY <1>0, <2>1, <2>2, <3>1 DEF TypeOK
    <2>4. \A x \in Cache : entry'[x] = IF x = c THEN Absent ELSE entry[x]
      BY <1>0, <2>1 DEF TypeOK
    <2>5. \A x \in Cache : Live(x)' => x # c /\ Live(x)
      BY <2>1, <2>2, <2>4 DEF Live
    <2>6. missed \subseteq Cache /\ crossed \subseteq Caller /\ clock' >= clock
      BY <1>0, <2>1 DEF TypeOK
    <2>7. \A v \in Caller : pc'[v] \in {"loaded", "set"} =>
              Holding(v) /\ value'[v] = value[v] /\ loadedAt'[v] = loadedAt[v] /\ v \in crossed'
      BY <2>1 DEF Holding
    <2>8. (\A w \in Caller : Holding(w) => w \in crossed') /\ \A x \in Cache : Live(x)' => x \in missed'
      BY <2>1, <2>5 DEF Holding
    <2>9. QED
      BY <2>1, <2>3, <2>4, <2>6, <2>7, <2>8, CacheLoses
  <1>4. CASE Close
    <2>1. /\ entry' = [entry EXCEPT ![driver] = Absent] /\ missed' = missed \ {driver}
          /\ UNCHANGED <<kind, driver, clock, source, replacedAt, pc, value, loadedAt, target, slowest, pending, crossed>>
      BY <1>4 DEF Close, Forget, program, callers
    <2>2. Absent \in Entry /\ ~Absent.present
      BY DEF Absent, Entry, Version, Never
    <2>3. TypeOK'
      BY <1>0, <2>1, <2>2 DEF TypeOK
    <2>4. \A x \in Cache : entry'[x] = IF x = driver THEN Absent ELSE entry[x]
      BY <1>0, <2>1 DEF TypeOK
    <2>5. \A x \in Cache : Live(x)' => x # driver
      BY <2>1, <2>2, <2>4 DEF Live
    <2>6. missed \subseteq Cache /\ clock' >= clock
      BY <1>0, <2>1 DEF TypeOK
    <2>7. \A v \in Caller : pc'[v] \in {"loaded", "set"} => Holding(v)
      BY <2>1 DEF Holding
    <2>8. QED
      BY <2>1, <2>3, <2>4, <2>5, <2>6, <2>7, CacheLoses
  <1>5. CASE Tick \/ (\E c \in Cache : Use(c)) \/ UNCHANGED vars
    <2>1. /\ UNCHANGED <<kind, source, replacedAt, entry, pc, value, loadedAt, slowest, pending, crossed, missed>>
          /\ clock' \in {clock, clock + 1}
      BY <1>5 DEF Tick, Use, vars, program, callers
    <2>2. TypeOK' /\ clock' >= clock
      BY <1>0, <1>5 DEF TypeOK, Tick, Use, vars, program, callers
    <2>3. \A v \in Caller : pc'[v] \in {"loaded", "set"} => Holding(v)
      BY <2>1 DEF Holding
    <2>4. QED
      BY <2>1, <2>2, <2>3, CacheLoses
  <1>6. QED
    BY <1>1, <1>2, <1>3, <1>4, <1>5, CacheLoad, CacheStore, CacheChange DEF Next

\* Hence it always holds, for any callers, caches, versions and TTL.
THEOREM CacheIsInvariant == Spec => []CacheInv
  BY CacheInitially, CacheKeeps, PTL DEF Spec

\* Every reachable state of a wrapped key has its type: no lifetime, version or
\* moment runs out of its range.
THEOREM CacheTypes == Spec => []TypeOK
  <1>1. CacheInv => TypeOK
    BY DEF CacheInv
  <1>2. QED
    BY <1>1, CacheIsInvariant, PTL

\* DeleteIsFinal always holds: once the program has deleted a changed value (del()), no
\* cache serves it, now or when it is given back, unless it held the value while the
\* delete went to another, or stored what a wrap had loaded before the delete.
THEOREM DeletesAreFinal == Spec => []DeleteIsFinal
  <1>1. CacheInv => DeleteIsFinal
    BY DEF CacheInv, Fresh, DeleteIsFinal
  <1>2. QED
    BY <1>1, CacheIsInvariant, PTL

\* StalenessBounded always holds: get() serves a value for at most the entry's lifetime
\* after its source moved on, and the time the slowest loader took, whatever races.
THEOREM StaleForAWhile == Spec => []StalenessBounded
  <1>1. CacheInv => StalenessBounded
    <2>1. ASSUME CacheInv, NEW c \in Cache, Live(c), Lifetime(c) # 0, entry[c].version # source
          PROVE  clock - replacedAt[entry[c].version] < Lifetime(c) + slowest
      <3>1. Aged(c) /\ entry[c] \in Entry /\ entry[c].expiresAt > clock
        BY <2>1 DEF CacheInv, TypeOK, Dated, Live
      <3>2. entry[c].expiresAt \in Nat /\ replacedAt[entry[c].version] \in Nat /\ clock \in Nat
            /\ slowest \in Nat /\ Lifetime(c) \in Nat
        BY <2>1, <3>1, LifetimeBound, CacheAssumption DEF CacheInv, TypeOK, Entry, Never
      <3>3. QED
        BY <2>1, <3>1, <3>2 DEF Aged
    <2>2. QED
      BY <2>1 DEF StalenessBounded
  <1>2. QED
    BY <1>1, CacheIsInvariant, PTL

-----------------------------------------------------------------------------
(* OrmPages                                                                 *)

\* A serial number is one stored row's.
OwnSerials ==
    /\ Len(rows) <= inserted
    /\ \A i \in DOMAIN rows : rows[i].serial <= inserted
    /\ \A i, j \in DOMAIN rows : rows[i].serial = rows[j].serial => i = j

NotBegun == ~Begun => got = <<>> /\ after = None /\ ~done /\ steady = {} /\ ~written

\* The cursor is the last _id that was returned.
CursorAt ==
    walk = "cursor" =>
        /\ total = None
        /\ ~done => /\ Begun => after # None
                    /\ \A m \in DOMAIN got : got[m].key <= after

SteadyHere == \A n \in steady : \E i \in DOMAIN rows : rows[i].serial = n /\ rows[i].fit

\* What the cursor is past has been returned.
Covered ==
    walk = "cursor" => \A i \in DOMAIN rows :
        rows[i].serial \in steady /\ (done \/ rows[i].key <= after) =>
            \E m \in DOMAIN got : got[m].key = rows[i].key

\* While nothing is written, the pages so far are a prefix of what matches.
Count0 == Cardinality(Matching(None))
ByPages ==
    walk = "offset" /\ Begun /\ ~written =>
        /\ got = SubSeq(Sorted(None), 1, Smaller((page - 1) * PageSize, Count0))
        /\ total # None => total = Count0
        /\ done => (page - 1) * PageSize >= Count0

PagesInv ==
    /\ WalkTypeOK /\ OwnSerials /\ NotBegun /\ CursorAt /\ SteadyHere
    /\ Covered /\ ByPages /\ WalkForward

-----------------------------------------------------------------------------
\* Every set of numbers but the empty one has a least one.
LEMMA LeastOf == ASSUME NEW S \in SUBSET Nat, S # {} PROVE \E x \in S : \A y \in S : x <= y
<1> DEFINE R == {ss \in Nat \X Nat : ss[1] < ss[2]}
<1>1. IsWellFoundedOn(R, Nat)
    BY NatLessThanWellFounded DEF OpToRel
<1>2. \A x, y \in Nat : y < x => <<y, x>> \in R
    OBVIOUS
<1> HIDE DEF R
<1>3. PICK x \in S : \A y \in S : <<y, x>> \notin R
    BY <1>1, WFMin
<1>4. \A y \in S : ~ (y < x)
    BY <1>2, <1>3
<1>5. \A y \in S : x <= y
    BY <1>4
<1> QED
    BY <1>5

\* The row that updateOne and deleteOne find.
LEMMA FirstIsThere ==
    ASSUME rows \in Seq(Row), NEW k, \E r \in Elements(rows) : r.key = k
    PROVE  First(k) \in DOMAIN rows /\ rows[First(k)].key = k
<1> DEFINE S == {i \in DOMAIN rows : rows[i].key = k}
<1>1. DOMAIN rows = 1..Len(rows) /\ Len(rows) \in Nat
    OBVIOUS
<1>2. S \in SUBSET Nat /\ S # {}
    BY <1>1 DEF Elements
<1>3. PICK i \in S : \A j \in S : i <= j
    BY <1>2, LeastOf
<1>4. i \in DOMAIN rows /\ rows[i].key = k /\ \A j \in 1..(i - 1) : rows[j].key # k
    BY <1>1, <1>3
<1> QED
    BY <1>4 DEF First

\* A sequence without its f-th element.
LEMMA LeavingOut ==
    ASSUME NEW S, NEW s \in Seq(S), NEW f \in 1..Len(s)
    PROVE  LET t == SubSeq(s, 1, f - 1) \o SubSeq(s, f + 1, Len(s))
           IN  /\ t \in Seq(S) /\ Len(t) = Len(s) - 1
               /\ \A i \in 1..Len(t) : t[i] = s[IF i < f THEN i ELSE i + 1]
<1> DEFINE u == SubSeq(s, 1, f - 1)
           v == SubSeq(s, f + 1, Len(s))
<1>1. Len(s) \in Nat /\ \A i \in 1..Len(s) : s[i] \in S
    BY ElementOfSeq
<1>2. /\ u \in Seq(S) /\ Len(u) = f - 1
      /\ \A i \in 1..(f - 1) : u[i] = s[i]
    <2>1. \A i \in 1..(f - 1) : s[i] \in S
        BY <1>1
    <2> QED
        BY <1>1, <2>1, SubSeqProperties
<1>3. /\ v \in Seq(S) /\ Len(v) = Len(s) - f
      /\ \A i \in 1..(Len(s) - f) : v[i] = s[f + i]
    <2>1. \A i \in (f + 1)..Len(s) : s[i] \in S
        BY <1>1
    <2> QED
        BY <1>1, <2>1, SubSeqProperties
<1> HIDE DEF u, v
<1>4. /\ u \o v \in Seq(S) /\ Len(u \o v) = Len(s) - 1
      /\ \A i \in 1..(Len(s) - 1) : (u \o v)[i] = IF i <= Len(u) THEN u[i] ELSE v[i - Len(u)]
    <2>1. /\ u \o v \in Seq(S) /\ Len(u \o v) = Len(u) + Len(v)
          /\ \A i \in 1..(Len(u) + Len(v)) : (u \o v)[i] = IF i <= Len(u) THEN u[i] ELSE v[i - Len(u)]
        BY <1>2, <1>3, ConcatProperties
    <2> QED
        BY <1>1, <1>2, <1>3, <2>1
<1>5. ASSUME NEW i \in 1..(Len(s) - 1) PROVE (u \o v)[i] = s[IF i < f THEN i ELSE i + 1]
    <2>1. CASE i < f
        BY <2>1, <1>1, <1>2, <1>4
    <2>2. CASE i >= f
        <3>1. i - Len(u) \in 1..(Len(s) - f) /\ f + (i - Len(u)) = i + 1
            BY <2>2, <1>1, <1>2
        <3> QED
            BY <2>2, <3>1, <1>1, <1>2, <1>3, <1>4
    <2> QED
        <3>1. i < f \/ i >= f
            BY <1>1
        <3> QED
            BY <3>1, <2>1, <2>2
<1> QED
    BY <1>1, <1>4, <1>5 DEF u, v

-----------------------------------------------------------------------------
\* Sorting: the rank of a row that matches is its place.
LEMMA RankIsPlace ==
    ASSUME rows \in Seq(Row), NEW a
    PROVE  /\ Cardinality(Matching(a)) \in Nat
           /\ Cardinality(Matching(a)) <= Len(rows)
           /\ \A i \in Matching(a) : Rank(i, a) \in 1..Cardinality(Matching(a))
           /\ \A i, j \in Matching(a) : Before(i, j) => Rank(i, a) < Rank(j, a)
           /\ \A k \in 1..Cardinality(Matching(a)) : \E i \in Matching(a) : Rank(i, a) = k
<1> DEFINE M == Matching(a)
           n == Cardinality(M)
           Those(i) == {j \in M : Before(j, i)}
<1>1. /\ Len(rows) \in Nat /\ DOMAIN rows = 1..Len(rows) /\ M \subseteq 1..Len(rows)
      /\ \A i \in M : rows[i].key \in Nat /\ i \in Nat
    <2>1. \A r \in Row : r.key \in Nat
        BY PagesAssumption DEF Row
    <2> QED
        BY <2>1 DEF Matching
<1>2. IsFiniteSet(M) /\ n \in Nat /\ n <= Len(rows)
    <2>1. IsFiniteSet(1..Len(rows)) /\ Cardinality(1..Len(rows)) = Len(rows)
        BY <1>1, FS_Interval
    <2> QED
        BY <1>1, <2>1, FS_Subset, FS_CardinalityType
<1>3. \A i \in M : IsFiniteSet(Those(i)) /\ Cardinality(Those(i)) \in Nat /\ i \notin Those(i)
    <2> SUFFICES ASSUME NEW i \in M
                 PROVE  IsFiniteSet(Those(i)) /\ Cardinality(Those(i)) \in Nat /\ i \notin Those(i)
        OBVIOUS
    <2>1. Those(i) \in SUBSET M
        OBVIOUS
    <2>2. IsFiniteSet(Those(i))
        BY <1>2, <2>1, FS_Subset
    <2>3. i \notin Those(i)
        BY <1>1 DEF Before
    <2> QED
        BY <2>2, <2>3, FS_CardinalityType
<1>4. \A i \in M : Rank(i, a) \in 1..n
    <2> SUFFICES ASSUME NEW i \in M PROVE Rank(i, a) \in 1..n
        OBVIOUS
    <2>1. Those(i) \in SUBSET M /\ Those(i) # M
        BY <1>3
    <2>2. Cardinality(Those(i)) <= n /\ Cardinality(Those(i)) # n
        BY <1>2, <2>1, FS_Subset
    <2> QED
        <3>1. Rank(i, a) = 1 + Cardinality(Those(i))
            BY DEF Rank
        <3>2. \A c, m \in Nat : c <= m /\ c # m => 1 + c \in 1..m
            OBVIOUS
        <3> QED
            BY <1>2, <1>3, <2>2, <3>1, <3>2
<1>5. \A i, j \in M : Before(i, j) => Rank(i, a) < Rank(j, a)
    <2> SUFFICES ASSUME NEW i \in M, NEW j \in M, Before(i, j) PROVE Rank(i, a) < Rank(j, a)
        OBVIOUS
    <2>1. Those(i) \subseteq Those(j)
        BY <1>1 DEF Before
    <2>2. i \in Those(j) /\ i \notin Those(i)
        BY <1>3
    <2>3. Cardinality(Those(i)) <= Cardinality(Those(j)) /\ Cardinality(Those(i)) # Cardinality(Those(j))
        BY <1>3, <2>1, <2>2, FS_Subset
    <2> QED
        BY <1>3, <2>3 DEF Rank
<1>6. \A k \in 1..n : \E i \in M : Rank(i, a) = k
    <2> DEFINE f == [i \in M |-> Rank(i, a)]
    <2>1. f \in [M -> 1..n]
        BY <1>4
    <2>2. \A i, j \in M : f[i] = f[j] => i = j
        <3> SUFFICES ASSUME NEW i \in M, NEW j \in M, i # j PROVE Rank(i, a) # Rank(j, a)
            OBVIOUS
        <3>1. Before(i, j) \/ Before(j, i)
            BY <1>1 DEF Before
        <3> QED
            BY <1>4, <1>5, <3>1
    <2>3. f \in Injection(M, 1..n)
        BY <2>1, <2>2 DEF Injection, IsInjective
    <2>4. IsFiniteSet(1..n) /\ Cardinality(1..n) = n
        BY <1>2, FS_Interval
    <2>5. f \in Surjection(M, 1..n)
        BY <2>3, <2>4, FS_Injection
    <2>6. \A k \in 1..n : \E i \in M : f[i] = k
        BY <2>5 DEF Surjection
    <2> QED
        BY <2>6
<1> QED
    BY <1>2, <1>4, <1>5, <1>6

\* What materialize() sorts: the rows that match, each once, in _id order.
LEMMA SortedIs ==
    ASSUME rows \in Seq(Row), NEW a
    PROVE  LET n == Cardinality(Matching(a))
               s == Sorted(a)
           IN  /\ n \in Nat /\ n <= Len(rows)
               /\ s \in Seq(Row) /\ Len(s) = n /\ DOMAIN s = 1..n
               /\ \A i \in Matching(a) : \E k \in 1..n : s[k] = rows[i]
               /\ \A k \in 1..n : \E i \in Matching(a) : s[k] = rows[i]
               /\ \A k, l \in 1..n : k < l => s[k].key <= s[l].key
               /\ OwnSerials => \A k, l \in 1..n : k < l => s[k].serial # s[l].serial
<1> DEFINE M == Matching(a)
           n == Cardinality(M)
           At(k) == CHOOSE i \in M : Rank(i, a) = k
           s == Sorted(a)
<1>1. /\ n \in Nat /\ n <= Len(rows)
      /\ \A i \in M : Rank(i, a) \in 1..n
      /\ \A i, j \in M : Before(i, j) => Rank(i, a) < Rank(j, a)
      /\ \A k \in 1..n : \E i \in M : Rank(i, a) = k
    BY RankIsPlace
<1>2. \A k \in 1..n : At(k) \in M /\ Rank(At(k), a) = k
    BY <1>1
<1>3. \A i \in M : i \in DOMAIN rows /\ i \in Nat /\ rows[i] \in Row /\ rows[i].key \in Nat
    <2>1. \A r \in Row : r.key \in Nat
        BY PagesAssumption DEF Row
    <2> QED
        BY <2>1 DEF Matching
<1>4. s = [k \in 1..n |-> rows[At(k)]]
    BY DEF Sorted
<1>5. \A i, j \in M : Rank(i, a) = Rank(j, a) => i = j
    <2> SUFFICES ASSUME NEW i \in M, NEW j \in M, i # j PROVE Rank(i, a) # Rank(j, a)
        OBVIOUS
    <2>1. Before(i, j) \/ Before(j, i)
        BY <1>3 DEF Before
    <2> QED
        BY <1>1, <2>1
<1> HIDE DEF M, n, At, s
<1>6. s \in [1..n -> Row] /\ \A k \in 1..n : s[k] = rows[At(k)]
    BY <1>2, <1>3, <1>4
<1>7. s \in Seq(Row) /\ Len(s) = n /\ DOMAIN s = 1..n
    BY <1>1, <1>6
<1>8. \A i \in M : \E k \in 1..n : s[k] = rows[i]
    <2> SUFFICES ASSUME NEW i \in M PROVE \E k \in 1..n : s[k] = rows[i]
        OBVIOUS
    <2>1. Rank(i, a) \in 1..n /\ At(Rank(i, a)) = i
        BY <1>1, <1>2, <1>5
    <2> QED
        BY <1>6, <2>1
<1>9. \A k, l \in 1..n : k < l => s[k].key <= s[l].key /\ At(k) # At(l)
    <2> SUFFICES ASSUME NEW k \in 1..n, NEW l \in 1..n, k < l
                 PROVE  s[k].key <= s[l].key /\ At(k) # At(l)
        OBVIOUS
    <2>1. At(k) \in M /\ At(l) \in M /\ Rank(At(k), a) = k /\ Rank(At(l), a) = l
        BY <1>2
    <2>2. ~ Before(At(l), At(k))
        BY <1>1, <2>1
    <2>3. At(k) # At(l)
        BY <2>1
    <2>4. rows[At(k)].key <= rows[At(l)].key
        BY <1>3, <2>1, <2>2 DEF Before
    <2> QED
        BY <1>6, <2>3, <2>4
<1>10. OwnSerials => \A k, l \in 1..n : k < l => s[k].serial # s[l].serial
    <2> SUFFICES ASSUME OwnSerials, NEW k \in 1..n, NEW l \in 1..n, k < l
                 PROVE  s[k].serial # s[l].serial
        OBVIOUS
    <2>1. At(k) \in DOMAIN rows /\ At(l) \in DOMAIN rows /\ At(k) # At(l)
        BY <1>2, <1>3, <1>9
    <2> QED
        BY <1>6, <2>1 DEF OwnSerials
<1>11. \A k \in 1..n : \E i \in M : s[k] = rows[i]
    BY <1>2, <1>6
<1> QED
    BY <1>1, <1>7, <1>8, <1>9, <1>10, <1>11 DEF M, n, s

\* A page is a stretch of that.
LEMMA PageIs ==
    ASSUME rows \in Seq(Row), NEW a, NEW skip \in Nat, NEW limit \in Nat
    PROVE  LET n == Cardinality(Matching(a))
               last == Smaller(skip + limit, n)
               items == Materialize(a, skip, limit)
           IN  /\ items = SubSeq(Sorted(a), skip + 1, last)
               /\ items \in Seq(Row)
               /\ Len(items) = IF skip < last THEN last - skip ELSE 0
               /\ \A k \in 1..Len(items) : items[k] = Sorted(a)[skip + k]
<1> DEFINE n == Cardinality(Matching(a))
           last == Smaller(skip + limit, n)
<1>1. n \in Nat /\ Sorted(a) \in Seq(Row) /\ Len(Sorted(a)) = n
    BY SortedIs
<1>2. last \in Nat /\ last <= n
    BY <1>1 DEF Smaller
<1>3. Materialize(a, skip, limit) = SubSeq(Sorted(a), skip + 1, last)
    BY <1>1 DEF Materialize
<1>4. \A i \in (skip + 1)..last : Sorted(a)[i] \in Row
    BY <1>1, <1>2, ElementOfSeq
<1> HIDE DEF n, last
<1>5. /\ SubSeq(Sorted(a), skip + 1, last) \in Seq(Row)
      /\ Len(SubSeq(Sorted(a), skip + 1, last)) = IF skip + 1 <= last THEN last - (skip + 1) + 1 ELSE 0
      /\ \A i \in 1..(last - (skip + 1) + 1) :
            SubSeq(Sorted(a), skip + 1, last)[i] = Sorted(a)[(skip + 1) + i - 1]
    BY <1>2, <1>4, SubSeqProperties
<1>6. Len(SubSeq(Sorted(a), skip + 1, last)) = IF skip < last THEN last - skip ELSE 0
    BY <1>2, <1>5
<1>7. ASSUME NEW k \in 1..Len(Materialize(a, skip, limit))
      PROVE  Materialize(a, skip, limit)[k] = Sorted(a)[skip + k]
    <2>1. k \in 1..(last - (skip + 1) + 1) /\ (skip + 1) + k - 1 = skip + k
        BY <1>2, <1>3, <1>6
    <2> QED
        BY <1>3, <1>5, <2>1
<1> QED
    BY <1>3, <1>5, <1>6, <1>7 DEF n, last

-----------------------------------------------------------------------------
\* The bound on pages is a number.
LEMMA PagesBounded == MaxPage \in Nat /\ MaxPage >= Cardinality(Key) + 1 /\ MaxPage >= MaxInsert + 1
<1>1. Cardinality(Key) \in Nat /\ MaxInsert \in Nat
    BY PagesAssumption, FS_CardinalityType
<1> QED
    BY <1>1 DEF MaxPage

\* The invariant holds of an empty collection before any page.
LEMMA PagesInitially == WalkInit => PagesInv
<1> SUFFICES ASSUME WalkInit PROVE PagesInv
    OBVIOUS
<1>1. /\ rows \in Seq(Row) /\ got \in Seq(Row) /\ Len(rows) = 0
      /\ DOMAIN rows = {} /\ DOMAIN got = {}
    BY DEF WalkInit
<1>2. WalkTypeOK
    <2>1. 0 \in 0..MaxInsert /\ 1 \in 1..(MaxPage + 1)
        BY PagesAssumption, PagesBounded
    <2> QED
        BY <1>1, <2>1 DEF WalkInit, WalkTypeOK
<1>3. /\ OwnSerials /\ NotBegun /\ CursorAt /\ SteadyHere /\ Covered
      /\ ByPages /\ WalkForward
    BY <1>1 DEF WalkInit, OwnSerials, NotBegun, CursorAt, SteadyHere, Covered,
        ByPages, WalkForward, Begun, None
<1> QED
    BY <1>2, <1>3 DEF PagesInv

\* What the type invariant says, in the form the steps need.
LEMMA PagesTyped ==
    ASSUME PagesInv
    PROVE  /\ rows \in Seq(Row) /\ Len(rows) \in Nat /\ DOMAIN rows = 1..Len(rows)
           /\ got \in Seq(Row) /\ Len(got) \in Nat /\ DOMAIN got = 1..Len(got)
           /\ inserted \in Nat /\ inserted <= MaxInsert /\ MaxInsert \in Nat
           /\ page \in Nat \ {0} /\ after \in Int /\ PageSize \in Nat \ {0}
           /\ \A r \in Row : r.key \in Key /\ r.key \in Nat /\ r.serial \in 1..MaxInsert /\ r.fit \in BOOLEAN
           /\ \A k \in Key : k \in Nat /\ k # None
           /\ steady \subseteq 1..inserted
<1>1. /\ rows \in Seq(Row) /\ got \in Seq(Row) /\ inserted \in 0..MaxInsert
      /\ page \in 1..(MaxPage + 1) /\ after \in Key \cup {None} /\ steady \subseteq 1..inserted
    BY DEF PagesInv, WalkTypeOK
<1>2. /\ Key \subseteq Nat /\ None \in Int /\ None \notin Nat /\ MaxInsert \in Nat
      /\ PageSize \in Nat \ {0}
    BY PagesAssumption DEF None
<1>3. \A r \in Row : r.key \in Key /\ r.serial \in 1..MaxInsert /\ r.fit \in BOOLEAN
    BY DEF Row
<1>4. Len(rows) \in Nat /\ DOMAIN rows = 1..Len(rows) /\ Len(got) \in Nat /\ DOMAIN got = 1..Len(got)
    BY <1>1
<1>5. after \in Int /\ inserted \in Nat /\ inserted <= MaxInsert /\ page \in Nat \ {0}
    BY <1>1, <1>2
<1> QED
    BY <1>1, <1>2, <1>3, <1>4, <1>5

\* What a write between two queries may change: rows that it leaves alone keep their
\* serial number and _id.
LEMMA WriteKeeps ==
    ASSUME PagesInv, ~done, UNCHANGED <<walk, after, page, total, got, done>>,
           written' = Begun, rows' \in Seq(Row), inserted' \in inserted..MaxInsert,
           steady' \subseteq steady, OwnSerials', SteadyHere',
           \A i \in DOMAIN rows' : rows'[i].serial \in steady' =>
               \E j \in DOMAIN rows : /\ rows[j].serial = rows'[i].serial
                                      /\ rows[j].key = rows'[i].key
    PROVE  PagesInv'
<1>1. Begun' <=> Begun
    BY DEF Begun
<1>2. WalkTypeOK'
    <2>1. inserted' \in 0..MaxInsert /\ steady' \subseteq 1..inserted' /\ written' \in BOOLEAN
        BY PagesTyped, PagesAssumption DEF Begun
    <2> QED
        BY <2>1 DEF PagesInv, WalkTypeOK
<1>3. \A i \in DOMAIN rows' : rows'[i] \in Row /\ rows'[i].serial \in Nat
    <2>1. \A i \in DOMAIN rows' : rows'[i] \in Row
        OBVIOUS
    <2> QED
        BY <2>1, PagesTyped
<1>5. NotBegun'
    BY <1>1 DEF PagesInv, NotBegun
<1>6. CursorAt'
    BY <1>1 DEF PagesInv, CursorAt
<1>7. Covered'
    <2> SUFFICES ASSUME walk = "cursor", NEW i \in DOMAIN rows',
                        rows'[i].serial \in steady', rows'[i].key <= after
                 PROVE  \E m \in DOMAIN got : got[m].key = rows'[i].key
        BY DEF Covered
    <2>2. PICK j \in DOMAIN rows : rows[j].serial = rows'[i].serial /\ rows[j].key = rows'[i].key
        OBVIOUS
    <2> QED
        BY <2>2 DEF PagesInv, Covered
<1>8. ByPages' /\ WalkForward'
    BY <1>1 DEF PagesInv, ByPages, WalkForward
<1> QED
    BY <1>2, <1>5, <1>6, <1>7, <1>8 DEF PagesInv

\* insertOne: a new serial number, which nobody has been promised.
LEMMA InsertKeeps ==
    ASSUME PagesInv, NEW k \in Key, NEW f \in BOOLEAN, Insert(k, f)
    PROVE  PagesInv'
<1> DEFINE r == [key |-> k, serial |-> inserted + 1, fit |-> f]
<1>1. /\ ~done /\ inserted < MaxInsert /\ inserted' = inserted + 1 /\ rows' = Append(rows, r)
      /\ UNCHANGED <<walk, after, page, total, got, done, steady>> /\ written' = Begun
    BY DEF Insert
<1>2. r \in Row /\ inserted' \in inserted..MaxInsert /\ inserted' > inserted
    BY <1>1, PagesTyped DEF Row
<1>3. /\ rows' \in Seq(Row) /\ Len(rows') = Len(rows) + 1 /\ DOMAIN rows' = 1..(Len(rows) + 1)
      /\ rows'[Len(rows) + 1] = r
      /\ \A i \in 1..Len(rows) : rows'[i] = rows[i]
    BY <1>1, <1>2, PagesTyped
<1>4. \A i \in DOMAIN rows : rows[i].serial <= inserted /\ rows[i].serial \in Nat
    BY PagesTyped DEF PagesInv, OwnSerials
<1>5. OwnSerials'
    <2>1. Len(rows') <= inserted'
        BY <1>1, <1>3, PagesTyped DEF PagesInv, OwnSerials
    <2>2. \A i \in DOMAIN rows' : rows'[i].serial <= inserted'
        BY <1>1, <1>3, <1>4, PagesTyped
    <2>3. ASSUME NEW i \in DOMAIN rows', NEW j \in DOMAIN rows', rows'[i].serial = rows'[j].serial
          PROVE  i = j
        <3>1. CASE i \in DOMAIN rows /\ j \in DOMAIN rows
            BY <2>3, <3>1, <1>3, PagesTyped DEF PagesInv, OwnSerials
        <3>2. CASE i = Len(rows) + 1 /\ j \in DOMAIN rows
            BY <2>3, <3>2, <1>3, <1>4, PagesTyped
        <3>3. CASE j = Len(rows) + 1 /\ i \in DOMAIN rows
            BY <2>3, <3>3, <1>3, <1>4, PagesTyped
        <3> QED
            BY <1>3, <3>1, <3>2, <3>3, PagesTyped
    <2> QED
        BY <2>1, <2>2, <2>3 DEF OwnSerials
<1>6. SteadyHere'
    BY <1>1, <1>3, PagesTyped DEF PagesInv, SteadyHere
<1>7. \A i \in DOMAIN rows' : rows'[i].serial \in steady' =>
          \E j \in DOMAIN rows : /\ rows[j].serial = rows'[i].serial
                                 /\ rows[j].key = rows'[i].key
    <2> SUFFICES ASSUME NEW i \in DOMAIN rows', rows'[i].serial \in steady'
                 PROVE  i \in DOMAIN rows /\ rows'[i] = rows[i]
        OBVIOUS
    <2>0. rows'[i].serial <= inserted
        BY <1>1, PagesTyped
    <2>1. i # Len(rows) + 1
        BY <1>3, <2>0, PagesTyped
    <2> QED
        BY <2>1, <1>3, PagesTyped
<1> QED
    BY <1>1, <1>2, <1>3, <1>5, <1>6, <1>7, WriteKeeps

\* updateOne: the row keeps its place and serial number, and is promised no more.
LEMMA UpdateKeeps ==
    ASSUME PagesInv, NEW k \in Key, NEW m \in Key, NEW fit \in BOOLEAN, Update(k, m, fit)
    PROVE  PagesInv'
<1> DEFINE f == First(k)
<1>1. /\ ~done /\ rows' = [rows EXCEPT ![f] = SetOver(rows[f], m, fit)]
      /\ steady' = steady \ {rows[f].serial} /\ written' = Begun
      /\ UNCHANGED <<walk, inserted, after, page, total, got, done>>
      /\ \E r \in Elements(rows) : r.key = k
    BY DEF Update
<1>2. f \in DOMAIN rows
    BY <1>1, FirstIsThere, PagesTyped
<1> HIDE DEF f
<1>3. SetOver(rows[f], m, fit) \in Row /\ SetOver(rows[f], m, fit).serial = rows[f].serial
    <2>1. rows[f] \in Row
        BY <1>2, PagesTyped
    <2> QED
        BY <2>1 DEF Row, SetOver
<1>4. /\ rows' \in Seq(Row) /\ Len(rows') = Len(rows) /\ DOMAIN rows' = DOMAIN rows
      /\ rows'[f] = SetOver(rows[f], m, fit)
      /\ \A i \in DOMAIN rows : i # f => rows'[i] = rows[i]
    BY <1>1, <1>2, <1>3, PagesTyped, ExceptSeq
<1>5. \A i \in DOMAIN rows : rows'[i].serial = rows[i].serial
    BY <1>3, <1>4
<1>6. OwnSerials'
    BY <1>1, <1>4, <1>5 DEF PagesInv, OwnSerials
<1>7. SteadyHere'
    <2> SUFFICES ASSUME NEW n \in steady, n # rows[f].serial
                 PROVE  \E i \in DOMAIN rows : rows'[i].serial = n /\ rows'[i].fit
        BY <1>1, <1>4 DEF SteadyHere
    <2>1. PICK i \in DOMAIN rows : rows[i].serial = n /\ rows[i].fit
        BY DEF PagesInv, SteadyHere
    <2> QED
        BY <1>4, <2>1
<1> QED
    <2>1. inserted' \in inserted..MaxInsert /\ steady' \subseteq steady
        BY <1>1, PagesTyped
    <2>2. \A i \in DOMAIN rows' : rows'[i].serial \in steady' => i \in DOMAIN rows /\ rows'[i] = rows[i]
        BY <1>1, <1>4, <1>5
    <2> QED
        BY <1>1, <1>4, <1>6, <1>7, <2>1, <2>2, WriteKeeps

\* deleteOne: the rows behind the first of that _id move up.
LEMMA DestroyKeeps ==
    ASSUME PagesInv, NEW k \in Key, Destroy(k)
    PROVE  PagesInv'
<1> DEFINE f == First(k)
<1>1. /\ ~done /\ rows' = SubSeq(rows, 1, f - 1) \o SubSeq(rows, f + 1, Len(rows))
      /\ steady' = steady \ {rows[f].serial} /\ written' = Begun
      /\ UNCHANGED <<walk, inserted, after, page, total, got, done>>
      /\ \E r \in Elements(rows) : r.key = k
    BY DEF Destroy
<1>2. f \in DOMAIN rows
    BY <1>1, FirstIsThere, PagesTyped
<1> HIDE DEF f
<1> DEFINE At(i) == IF i < f THEN i ELSE i + 1
<1>3. /\ rows' \in Seq(Row) /\ Len(rows') = Len(rows) - 1 /\ DOMAIN rows' = 1..Len(rows')
      /\ \A i \in DOMAIN rows' : rows'[i] = rows[At(i)]
    <2>1. f \in 1..Len(rows)
        BY <1>2, PagesTyped
    <2> DEFINE t == SubSeq(rows, 1, f - 1) \o SubSeq(rows, f + 1, Len(rows))
    <2>2. /\ t \in Seq(Row) /\ Len(t) = Len(rows) - 1
          /\ \A i \in 1..Len(t) : t[i] = rows[IF i < f THEN i ELSE i + 1]
        BY <2>1, PagesTyped, LeavingOut
    <2>3. rows' = t
        BY <1>1
    <2> HIDE DEF t
    <2> QED
        BY <2>2, <2>3
<1>4. \A i \in DOMAIN rows' : At(i) \in DOMAIN rows /\ At(i) # f
    BY <1>2, <1>3, PagesTyped
<1>5. \A i, j \in DOMAIN rows' : At(i) = At(j) => i = j
    BY <1>2, <1>3, PagesTyped
<1>6. \A j \in DOMAIN rows : j # f => \E i \in DOMAIN rows' : At(i) = j
    <2> SUFFICES ASSUME NEW j \in DOMAIN rows, j # f
                 PROVE  \E i \in DOMAIN rows' : At(i) = j
        OBVIOUS
    <2>1. CASE j < f
        BY <2>1, <1>2, <1>3, PagesTyped
    <2>2. CASE j > f
        <3>1. j - 1 \in DOMAIN rows' /\ At(j - 1) = j
            BY <2>2, <1>2, <1>3, PagesTyped
        <3> QED
            BY <3>1
    <2> QED
        BY <2>1, <2>2, <1>2, PagesTyped
<1> HIDE DEF At
<1>7. OwnSerials'
    <2>1. Len(rows') <= inserted'
        BY <1>1, <1>3, PagesTyped DEF PagesInv, OwnSerials
    <2>2. \A i \in DOMAIN rows' : rows'[i].serial <= inserted'
        BY <1>1, <1>3, <1>4 DEF PagesInv, OwnSerials
    <2>3. \A i, j \in DOMAIN rows' : rows'[i].serial = rows'[j].serial => i = j
        BY <1>3, <1>4, <1>5 DEF PagesInv, OwnSerials
    <2> QED
        BY <2>1, <2>2, <2>3 DEF OwnSerials
<1>8. SteadyHere'
    <2> SUFFICES ASSUME NEW n \in steady, n # rows[f].serial
                 PROVE  \E i \in DOMAIN rows' : rows'[i].serial = n /\ rows'[i].fit
        BY <1>1 DEF SteadyHere
    <2>1. PICK j \in DOMAIN rows : rows[j].serial = n /\ rows[j].fit
        BY DEF PagesInv, SteadyHere
    <2>2. PICK i \in DOMAIN rows' : At(i) = j
        BY <1>6, <2>1
    <2> QED
        BY <1>3, <2>1, <2>2
<1>9. \A i \in DOMAIN rows' : \E j \in DOMAIN rows :
          rows[j].serial = rows'[i].serial /\ rows[j].key = rows'[i].key
    BY <1>3, <1>4
<1> QED
    <2>1. inserted' \in inserted..MaxInsert /\ steady' \subseteq steady
        BY <1>1, PagesTyped
    <2> QED
        BY <1>1, <1>3, <1>7, <1>8, <1>9, <2>1, WriteKeeps

-----------------------------------------------------------------------------
\* What a page leaves alone.
LEMMA BeginKeeps ==
    ASSUME PagesInv, Begin, UNCHANGED <<rows, inserted>>
    PROVE  /\ steady' \subseteq 1..inserted /\ SteadyHere' /\ written' \in BOOLEAN
           /\ Begun => steady' = steady /\ written' = written
           /\ ~Begun => steady' = {rows[i].serial : i \in Matching(None)} /\ ~written'
<1>1. CASE Begun
    BY <1>1, PagesTyped DEF Begin, PagesInv, WalkTypeOK, SteadyHere
<1>2. CASE ~Begun
    <2>1. steady' = {rows[i].serial : i \in Matching(None)} /\ written' = FALSE
        BY <1>2 DEF Begin
    <2>2. \A i \in Matching(None) : i \in DOMAIN rows /\ rows[i].fit
        BY DEF Matching, Match
    <2>3. \A i \in Matching(None) : rows[i].serial \in 1..inserted
        <3> SUFFICES ASSUME NEW i \in Matching(None) PROVE rows[i].serial \in 1..inserted
            OBVIOUS
        <3>1. i \in DOMAIN rows /\ rows[i] \in Row
            BY <2>2, PagesTyped
        <3>2. rows[i].serial <= inserted /\ rows[i].serial \in 1..MaxInsert
            BY <3>1, PagesTyped DEF PagesInv, OwnSerials
        <3> QED
            BY <3>2, PagesTyped
    <2>4. SteadyHere'
        BY <2>1, <2>2 DEF SteadyHere
    <2> QED
        BY <1>2, <2>1, <2>3, <2>4
<1> QED
    BY <1>1, <1>2

\* A page of the cursor: the first rows of what is past it.
LEMMA CursorTakes ==
    ASSUME PagesInv, CursorPage
    PROVE  LET s == Sorted(after)
               n == Cardinality(Matching(after))
               m == IF n > PageSize THEN PageSize ELSE n
           IN  /\ got' \in Seq(Row) /\ Len(got') = Len(got) + m
               /\ \A i \in 1..Len(got) : got'[i] = got[i]
               /\ \A k \in 1..m : got'[Len(got) + k] = s[k]
               /\ n > PageSize => done' = FALSE /\ after' = s[PageSize].key
               /\ n <= PageSize => done' = TRUE /\ after' = after
<1> DEFINE s == Sorted(after)
           n == Cardinality(Matching(after))
           m == IF n > PageSize THEN PageSize ELSE n
           items == Materialize(after, 0, Limit)
           more == Len(items) > PageSize
           taken == IF more THEN SubSeq(items, 1, PageSize) ELSE items
<1>1. n \in Nat /\ s \in Seq(Row) /\ Len(s) = n /\ DOMAIN s = 1..n
    BY SortedIs, PagesTyped
<1>2. Limit \in Nat /\ Limit = PageSize + 1 /\ PageSize \in Nat \ {0}
    BY PagesTyped DEF Limit
<1>3. /\ items \in Seq(Row) /\ Len(items) = Smaller(Limit, n)
      /\ \A k \in 1..Len(items) : items[k] = s[k]
    <2>1. /\ items \in Seq(Row)
          /\ Len(items) = IF 0 < Smaller(0 + Limit, n) THEN Smaller(0 + Limit, n) - 0 ELSE 0
          /\ \A k \in 1..Len(items) : items[k] = Sorted(after)[0 + k]
        <3>1. rows \in Seq(Row) /\ 0 \in Nat /\ Limit \in Nat
            BY <1>2, PagesTyped
        <3> QED
            BY <3>1, PageIs
    <2> QED
        BY <1>1, <1>2, <2>1 DEF Smaller
<1>4. /\ got' = got \o taken
      /\ more => done' = FALSE /\ after' = items[PageSize].key
      /\ ~more => done' = TRUE /\ after' = after
    <2>1. /\ got' = got \o taken /\ done' = ~more
          /\ after' = IF more THEN items[PageSize].key ELSE after
        BY DEF CursorPage
    <2>2. CASE more
        BY <2>1, <2>2
    <2>3. CASE ~more
        BY <2>1, <2>3
    <2> QED
        BY <2>1, <2>2, <2>3
<1> HIDE DEF s, n, items
<1>5. /\ more <=> n > PageSize
      /\ ~more => Len(items) = n
      /\ more => Len(items) = PageSize + 1
    BY <1>1, <1>2, <1>3 DEF Smaller
<1>6. taken \in Seq(Row) /\ Len(taken) = m /\ \A k \in 1..m : taken[k] = s[k]
    <2>1. CASE more
        <3>1. \A k \in 1..PageSize : items[k] \in Row
            BY <2>1, <1>2, <1>3, <1>5, ElementOfSeq
        <3>2. /\ SubSeq(items, 1, PageSize) \in Seq(Row)
              /\ Len(SubSeq(items, 1, PageSize)) = IF 1 <= PageSize THEN PageSize - 1 + 1 ELSE 0
              /\ \A k \in 1..(PageSize - 1 + 1) : SubSeq(items, 1, PageSize)[k] = items[1 + k - 1]
            BY <1>2, <3>1, SubSeqProperties
        <3>3. Len(SubSeq(items, 1, PageSize)) = PageSize
            BY <1>2, <3>2
        <3>4. ASSUME NEW k \in 1..PageSize PROVE SubSeq(items, 1, PageSize)[k] = s[k]
            <4>1. k \in 1..(PageSize - 1 + 1) /\ 1 + k - 1 = k /\ k \in 1..Len(items)
                BY <2>1, <1>2, <1>5
            <4> QED
                BY <3>2, <4>1, <1>3
        <3> QED
            BY <2>1, <1>5, <3>2, <3>3, <3>4
    <2>2. CASE ~more
        BY <2>2, <1>3, <1>5
    <2> QED
        BY <2>1, <2>2
<1> HIDE DEF taken, more
<1>7. m \in Nat /\ m <= n
    BY <1>1, <1>2
<1> HIDE DEF m
<1>8. /\ got' \in Seq(Row) /\ Len(got') = Len(got) + m
      /\ \A i \in 1..(Len(got) + m) : got'[i] = IF i <= Len(got) THEN got[i] ELSE taken[i - Len(got)]
    BY <1>4, <1>6, PagesTyped, ConcatProperties
<1>9. \A i \in 1..Len(got) : got'[i] = got[i]
    BY <1>7, <1>8, PagesTyped
<1>10. ASSUME NEW k \in 1..m PROVE got'[Len(got) + k] = s[k]
    <2>1. Len(got) + k \in 1..(Len(got) + m) /\ ~(Len(got) + k <= Len(got)) /\ (Len(got) + k) - Len(got) = k
        BY <1>7, PagesTyped
    <2> QED
        BY <2>1, <1>6, <1>8
<1>11. n > PageSize => done' = FALSE /\ after' = s[PageSize].key
    BY <1>2, <1>3, <1>4, <1>5
<1>12. n <= PageSize => done' = TRUE /\ after' = after
    BY <1>1, <1>2, <1>4, <1>5
<1> QED
    BY <1>8, <1>9, <1>10, <1>11, <1>12 DEF s, n, m

\* A page of the cursor: what it returns is past all that was returned, and up to the
\* next cursor nothing is left out.
LEMMA CursorPageKeeps == ASSUME PagesInv, CursorPage PROVE PagesInv'
<1> DEFINE s == Sorted(after)
           n == Cardinality(Matching(after))
           m == IF n > PageSize THEN PageSize ELSE n
<1>1. /\ walk = "cursor" /\ ~done /\ page <= MaxPage /\ page' = page + 1
      /\ UNCHANGED <<walk, rows, inserted, total>> /\ Begin
    BY DEF CursorPage
<1>2. /\ n \in Nat /\ s \in Seq(Row) /\ Len(s) = n /\ DOMAIN s = 1..n
      /\ \A i \in Matching(after) : \E k \in 1..n : s[k] = rows[i]
      /\ \A k \in 1..n : \E i \in Matching(after) : s[k] = rows[i]
      /\ \A k, l \in 1..n : k < l => s[k].key <= s[l].key
      /\ \A k, l \in 1..n : k < l => s[k].serial # s[l].serial
    BY SortedIs, PagesTyped DEF PagesInv
<1>3. /\ got' \in Seq(Row) /\ Len(got') = Len(got) + m
      /\ \A i \in 1..Len(got) : got'[i] = got[i]
      /\ \A k \in 1..m : got'[Len(got) + k] = s[k]
      /\ n > PageSize => done' = FALSE /\ after' = s[PageSize].key
      /\ n <= PageSize => done' = TRUE /\ after' = after
    BY CursorTakes
<1> HIDE DEF s, n
<1>4. /\ n \in Nat /\ m \in Nat /\ m <= n /\ PageSize \in Nat \ {0}
      /\ n > PageSize => m = PageSize
      /\ n <= PageSize => m = n
      /\ n > PageSize \/ n <= PageSize
    BY <1>2, PagesTyped
<1> HIDE DEF m
<1>5. \A k \in 1..n : /\ s[k] \in Row /\ s[k].key \in Nat
                      /\ after # None => s[k].key > after
                      /\ \E i \in DOMAIN rows : s[k] = rows[i]
    <2> SUFFICES ASSUME NEW k \in 1..n
                 PROVE  /\ s[k] \in Row /\ s[k].key \in Nat
                        /\ after # None => s[k].key > after
                        /\ \E i \in DOMAIN rows : s[k] = rows[i]
        OBVIOUS
    <2>1. PICK i \in Matching(after) : s[k] = rows[i]
        BY <1>2
    <2>2. i \in DOMAIN rows /\ (after # None => rows[i].key > after)
        BY DEF Matching, Match
    <2>3. rows[i] \in Row
        BY <2>2, PagesTyped
    <2> QED
        BY <2>1, <2>2, <2>3, PagesTyped
<1>6. DOMAIN got' = 1..(Len(got) + m) /\ Len(got) \in Nat
    BY <1>3, <1>4, PagesTyped
\* A returned row is an old one, or one of the page.
<1>7. ASSUME NEW i \in DOMAIN got'
      PROVE  \/ i \in DOMAIN got /\ got'[i] = got[i]
             \/ i - Len(got) \in 1..m /\ got'[i] = s[i - Len(got)] /\ i \notin DOMAIN got
    <2>1. CASE i <= Len(got)
        BY <2>1, <1>3, <1>6, PagesTyped
    <2>2. CASE i > Len(got)
        <3>1. i - Len(got) \in 1..m /\ Len(got) + (i - Len(got)) = i
            BY <2>2, <1>4, <1>6
        <3> QED
            BY <2>2, <3>1, <1>3, <1>6, PagesTyped
    <2> QED
        BY <2>1, <2>2, <1>4, <1>6
<1>8. \A i \in DOMAIN got : i \in DOMAIN got' /\ got'[i] = got[i]
    BY <1>3, <1>4, <1>6, PagesTyped
<1>9. \A k \in 1..m : \E j \in DOMAIN got' : got'[j] = s[k]
    <2> SUFFICES ASSUME NEW k \in 1..m PROVE \E j \in DOMAIN got' : got'[j] = s[k]
        OBVIOUS
    <2>1. Len(got) + k \in DOMAIN got'
        BY <1>4, <1>6
    <2> QED
        BY <1>3, <2>1
<1>10. /\ steady' \subseteq 1..inserted /\ SteadyHere' /\ written' \in BOOLEAN
       /\ Begun => steady' = steady
       /\ ~Begun => steady' = {rows[i].serial : i \in Matching(None)}
    BY <1>1, BeginKeeps
<1>11. /\ total = None
       /\ Begun => after # None
       /\ \A i \in DOMAIN got : got[i].key <= after
    BY <1>1 DEF PagesInv, CursorAt
<1>12. Begun'
    BY <1>1, PagesTyped DEF Begun
<1>13. after' \in Key \cup {None}
    <2>1. CASE n > PageSize
        <3>1. PageSize \in 1..n
            BY <2>1, <1>2, <1>4
        <3> QED
            BY <2>1, <3>1, <1>3, <1>5, PagesTyped
    <2>2. CASE ~(n > PageSize)
        <3>1. after' = after
            BY <2>2, <1>2, <1>3, <1>4
        <3> QED
            BY <3>1 DEF PagesInv, WalkTypeOK
    <2> QED
        BY <2>1, <2>2
<1>14. WalkTypeOK'
    <2>1. page' \in 1..(MaxPage + 1) /\ done' \in BOOLEAN
        <3>1. page + 1 \in 1..(MaxPage + 1)
            BY <1>1, PagesTyped, PagesBounded
        <3> QED
            BY <3>1, <1>1, <1>3, <1>4
    <2> QED
        BY <1>1, <1>3, <1>10, <1>13, <2>1 DEF PagesInv, WalkTypeOK
<1>15. OwnSerials'
    BY <1>1 DEF PagesInv, OwnSerials
<1>17. NotBegun'
    BY <1>12 DEF NotBegun
<1>18. CursorAt'
    <2> SUFFICES ASSUME ~done'
                 PROVE  after' # None /\ \A i \in DOMAIN got' : got'[i].key <= after'
        BY <1>1, <1>11, <1>12 DEF CursorAt
    <2>1. n > PageSize /\ after' = s[PageSize].key /\ PageSize \in 1..n /\ m = PageSize
        BY <1>2, <1>3, <1>4
    <2>2. after # None => after < after'
        BY <2>1, <1>5
    <2>3. after' \in Nat /\ after' # None
        BY <2>1, <1>5 DEF None
    <2>4. ASSUME NEW i \in DOMAIN got' PROVE got'[i].key <= after'
        <3>1. CASE i \in DOMAIN got /\ got'[i] = got[i]
            <4>1. got[i].key <= after /\ got[i].key \in Nat
                BY <3>1, <1>11, PagesTyped
            <4>2. after # None
                BY <4>1 DEF None
            <4> QED
                BY <3>1, <4>1, <4>2, <2>2, <2>3, PagesTyped
        <3>2. CASE i - Len(got) \in 1..m /\ got'[i] = s[i - Len(got)]
            <4>1. i - Len(got) \in 1..n /\ i - Len(got) <= PageSize
                BY <3>2, <2>1, <1>4
            <4>2. i - Len(got) = PageSize \/ i - Len(got) < PageSize
                BY <4>1, <1>4
            <4>3. s[i - Len(got)].key <= s[PageSize].key
                <5>1. CASE i - Len(got) = PageSize
                    BY <5>1, <2>1, <1>5
                <5>2. CASE i - Len(got) < PageSize
                    BY <5>2, <4>1, <2>1, <1>2
                <5> QED
                    BY <4>2, <5>1, <5>2
            <4> QED
                BY <3>2, <4>3, <2>1
        <3> QED
            BY <1>7, <3>1, <3>2
    <2> QED
        BY <2>3, <2>4
<1>19. Covered'
    <2> SUFFICES ASSUME NEW i \in DOMAIN rows, rows[i].serial \in steady',
                        done' \/ rows[i].key <= after'
                 PROVE  \E j \in DOMAIN got' : got'[j].key = rows[i].key
        BY <1>1 DEF Covered
    <2>1. rows[i] \in Row /\ rows[i].key \in Nat
        BY PagesTyped
    <2>2. CASE after # None /\ rows[i].key <= after
        <3>1. Begun
            BY <2>2 DEF PagesInv, NotBegun
        <3>2. \E j \in DOMAIN got : got[j].key = rows[i].key
            BY <3>1, <2>2, <1>1, <1>10 DEF PagesInv, Covered
        <3> QED
            BY <3>2, <1>8
    <2>3. CASE ~(after # None /\ rows[i].key <= after)
        <3>1. i \in Matching(after)
            <4>1. CASE Begun
                <5>1. after # None /\ rows[i].key > after /\ steady' = steady
                    BY <4>1, <2>1, <2>3, <1>10, <1>11, PagesTyped
                <5>2. rows[i].fit
                    <6>1. PICK j \in DOMAIN rows : rows[j].serial = rows[i].serial /\ rows[j].fit
                        BY <5>1 DEF PagesInv, SteadyHere
                    <6> QED
                        BY <6>1 DEF PagesInv, OwnSerials
                <5> QED
                    BY <5>1, <5>2 DEF Matching, Match
            <4>2. CASE ~Begun
                <5>1. after = None
                    BY <4>2 DEF PagesInv, NotBegun
                <5>2. PICK j \in Matching(None) : rows[j].serial = rows[i].serial
                    BY <4>2, <1>10
                <5>3. j \in DOMAIN rows /\ j = i
                    BY <5>2 DEF PagesInv, OwnSerials, Matching
                <5> QED
                    BY <5>1, <5>2, <5>3
            <4> QED
                BY <4>1, <4>2
        <3>2. PICK k \in 1..n : s[k] = rows[i]
            BY <3>1, <1>2
        <3>3. CASE k <= m
            <4>1. k \in 1..m
                BY <3>3, <1>4
            <4> QED
                BY <4>1, <3>2, <1>9
        <3>4. CASE k > m
            <4>1. n > PageSize /\ m = PageSize /\ PageSize < k /\ PageSize \in 1..n
                BY <3>4, <1>2, <1>4
            <4>2. ~done' /\ after' = s[PageSize].key
                BY <4>1, <1>2, <1>3, <1>4
            <4>3. s[PageSize].key <= s[k].key /\ s[PageSize].key \in Nat
                BY <4>1, <1>2, <1>5
            <4>4. s[PageSize].key = rows[i].key
                BY <3>2, <4>2, <4>3, <2>1
            <4>5. PageSize \in 1..m
                BY <4>1, <1>4
            <4> QED
                BY <4>4, <4>5, <1>9
        <3> QED
            BY <3>3, <3>4, <1>4
    <2> QED
        BY <2>2, <2>3
<1>20. ByPages'
    BY <1>1 DEF ByPages
<1>21. WalkForward'
    <2> SUFFICES ASSUME NEW i \in DOMAIN got', NEW j \in DOMAIN got', i < j
                 PROVE  /\ got'[i].key <= got'[j].key
                        /\ got'[i].serial = got'[j].serial => got'[i].key < got'[j].key
        BY DEF WalkForward
    <2>1. CASE j \in DOMAIN got
        <3>1. i \in DOMAIN got
            BY <2>1, <1>6, PagesTyped
        <3> QED
            BY <2>1, <3>1, <1>1, <1>8 DEF PagesInv, WalkForward
    <2>2. CASE j - Len(got) \in 1..m /\ got'[j] = s[j - Len(got)]
        <3>1. j - Len(got) \in 1..n
            BY <2>2, <1>4
        <3>2. CASE i \in DOMAIN got /\ got'[i] = got[i]
            <4>1. got[i].key <= after /\ got[i].key \in Nat
                BY <3>2, <1>11, PagesTyped
            <4>2. after # None
                BY <4>1 DEF None
            <4>3. s[j - Len(got)].key > after /\ s[j - Len(got)].key \in Nat
                BY <3>1, <4>2, <1>5
            <4>4. got[i].key < s[j - Len(got)].key
                BY <4>1, <4>3, PagesTyped
            <4> QED
                BY <2>2, <3>2, <4>1, <4>3, <4>4
        <3>3. CASE i - Len(got) \in 1..m /\ got'[i] = s[i - Len(got)]
            <4>1. i - Len(got) \in 1..n /\ i - Len(got) < j - Len(got)
                BY <3>3, <1>4, <1>6
            <4> QED
                BY <2>2, <3>1, <3>3, <4>1, <1>2
        <3> QED
            BY <1>7, <3>2, <3>3
    <2> QED
        BY <1>7, <2>1, <2>2
<1> QED
    BY <1>10, <1>14, <1>15, <1>17, <1>18, <1>19, <1>20, <1>21 DEF PagesInv

-----------------------------------------------------------------------------
\* Nothing about the order changes while no row does.
LEMMA SameSorted ==
    ASSUME UNCHANGED rows
    PROVE  Sorted(None)' = Sorted(None) /\ Count0' = Count0
<1>1. Matching(None)' = Matching(None)
    BY DEF Matching
<1>2. \A i \in Matching(None) : Rank(i, None)' = Rank(i, None)
    BY <1>1 DEF Rank, Before
<1> QED
    BY <1>1, <1>2 DEF Sorted, Count0, Rank, Before

\* Once a count of n has led to p pages at most, they have room for n rows.
LEMMA PagesSuffice ==
    ASSUME NEW n \in Nat, NEW p \in Nat, PageSize \in Nat \ {0}, p >= Pages(n)
    PROVE  p * PageSize >= n
<1>1. CASE n = 0
    BY <1>1
<1>2. CASE n # 0
    <2> DEFINE q == (n + PageSize - 1) \div PageSize
    <2>1. q \in Nat /\ p >= q
        BY <1>2 DEF Pages
    <2>2. q * PageSize + PageSize > n + PageSize - 1
        OBVIOUS
    <2> HIDE DEF q
    <2>3. p * PageSize >= q * PageSize
        BY <2>1
    <2>4. q * PageSize \in Nat /\ p * PageSize \in Nat
        BY <2>1
    <2> QED
        BY <2>2, <2>3, <2>4
<1> QED
    BY <1>1, <1>2

\* paginate's count, of the first page or a later one.
LEMMA CountKeeps == ASSUME PagesInv, Count PROVE PagesInv'
<1>1. /\ walk = "offset" /\ ~done /\ total = None /\ total' = Count0 /\ Begin
      /\ UNCHANGED <<walk, rows, inserted, after, page, got, done>>
    BY DEF Count, Count0
<1>2. /\ steady' \subseteq 1..inserted /\ SteadyHere' /\ written' \in BOOLEAN
      /\ Begun => written' = written
    BY <1>1, BeginKeeps
<1>3. Count0 \in Nat /\ Count0 <= MaxInsert
    BY SortedIs, PagesTyped DEF Count0, PagesInv, OwnSerials
<1>4. Begun'
    BY <1>1, <1>3 DEF Begun, None
<1>5. WalkTypeOK'
    BY <1>1, <1>2, <1>3, PagesTyped DEF PagesInv, WalkTypeOK
<1>6. ByPages'
    <2> SUFFICES ASSUME ~written'
                 PROVE  got = SubSeq(Sorted(None), 1, Smaller((page - 1) * PageSize, Count0))
        BY <1>1, SameSorted DEF ByPages
    <2>1. CASE Begun
        BY <2>1, <1>1, <1>2 DEF PagesInv, ByPages
    <2>2. CASE ~Begun
        <3>1. got = <<>> /\ page = 1
            BY <2>2, PagesTyped DEF PagesInv, NotBegun, Begun
        <3>2. (page - 1) * PageSize = 0
            BY <3>1, PagesTyped
        <3>3. Smaller(0, Count0) = 0
            BY <1>3 DEF Smaller
        <3>4. SubSeq(Sorted(None), 1, 0) = <<>>
            BY SubSeqEmpty
        <3> QED
            BY <3>1, <3>2, <3>3, <3>4
    <2> QED
        BY <2>1, <2>2
<1>7. OwnSerials' /\ CursorAt' /\ Covered' /\ WalkForward'
    BY <1>1 DEF PagesInv, OwnSerials, CursorAt, Covered, WalkForward
<1>8. NotBegun'
    BY <1>4 DEF NotBegun
<1> QED
    BY <1>2, <1>5, <1>6, <1>7, <1>8 DEF PagesInv

\* paginate's find: the next stretch of the same order, if nothing was written.
LEMMA OffsetPageKeeps == ASSUME PagesInv, OffsetPage PROVE PagesInv'
<1> DEFINE skip == (page - 1) * PageSize
           s == Sorted(None)
           items == Materialize(None, skip, PageSize)
           last == Smaller(skip + PageSize, Count0)
<1>1. /\ walk = "offset" /\ total # None /\ page <= MaxPage /\ page' = page + 1
      /\ got' = got \o items /\ done' = LastPage /\ total' = None
      /\ UNCHANGED <<walk, rows, inserted, after, steady, written>>
    BY DEF OffsetPage
<1>2. /\ Count0 \in Nat /\ s \in Seq(Row) /\ Len(s) = Count0 /\ Count0 <= Len(rows)
    BY SortedIs, PagesTyped DEF Count0
<1>3. skip \in Nat /\ PageSize \in Nat \ {0}
    BY PagesTyped
<1>4. items = SubSeq(s, skip + 1, last) /\ items \in Seq(Row)
    BY <1>3, PagesTyped, PageIs DEF Count0
<1>5. (page' - 1) * PageSize = skip + PageSize
    <2>1. page \in Nat /\ PageSize \in Nat /\ page' = page + 1
        BY <1>1, <1>3, PagesTyped
    <2>2. (page - 1) * PageSize + PageSize = page * PageSize
        BY <2>1
    <2> QED
        BY <2>1, <2>2
<1> HIDE DEF skip, s, items, last
<1>6. Begun /\ Begun'
    BY <1>1, PagesTyped DEF Begun
<1>7. got' \in Seq(Row)
    BY <1>1, <1>4, PagesTyped, ConcatProperties
<1>8. last \in Nat /\ last <= Count0
    BY <1>2, <1>3 DEF last, Smaller
<1>9. SubSeq(s, 1, Smaller(skip, Count0)) \o SubSeq(s, skip + 1, last) = SubSeq(s, 1, last)
    <2>1. CASE skip <= Count0
        <3>1. Smaller(skip, Count0) = skip /\ skip \in 0..Len(s) /\ last \in skip..Len(s)
            BY <2>1, <1>2, <1>3 DEF last, Smaller
        <3>2. 1 \in 1..(Len(s) + 1) /\ 1 - 1 = 0
            BY <1>2
        <3> QED
            BY <3>1, <3>2, <1>2, ConcatAdjacentSubSeq
    <2>2. CASE ~(skip <= Count0)
        <3>1. Smaller(skip, Count0) = Count0 /\ last = Count0 /\ last < skip + 1
            BY <2>2, <1>2, <1>3 DEF last, Smaller
        <3>2. SubSeq(s, skip + 1, last) = <<>>
            BY <3>1, <1>2, <1>3, SubSeqEmpty
        <3>3. SubSeq(s, 1, Count0) = s
            BY <1>2, SubSeqFull
        <3>4. s \o <<>> = s
            BY <1>2, ConcatEmptySeq
        <3> QED
            BY <3>1, <3>2, <3>3, <3>4
    <2> QED
        BY <2>1, <2>2
<1>10. ByPages'
    <2> SUFFICES ASSUME ~written
                 PROVE  /\ got' = SubSeq(s, 1, Smaller((page' - 1) * PageSize, Count0))
                        /\ done' => (page' - 1) * PageSize >= Count0
        BY <1>1, <1>6, SameSorted DEF ByPages, s
    <2>1. got = SubSeq(s, 1, Smaller(skip, Count0)) /\ total = Count0
        BY <1>1, <1>6 DEF PagesInv, ByPages, s, skip
    <2>2. got' = SubSeq(s, 1, last)
        BY <2>1, <1>1, <1>4, <1>9
    <2>3. done' => page * PageSize >= Count0
        BY <2>1, <1>1, <1>2, PagesTyped, PagesSuffice DEF LastPage
    <2>4. (page' - 1) * PageSize = page * PageSize
        BY <1>1, PagesTyped
    <2> QED
        BY <2>2, <2>3, <2>4, <1>5 DEF last
<1>11. WalkTypeOK'
    <2>1. done' \in BOOLEAN /\ page' \in 1..(MaxPage + 1)
        BY <1>1, PagesTyped, PagesBounded DEF LastPage
    <2> QED
        BY <1>1, <1>7, <2>1 DEF PagesInv, WalkTypeOK
<1>13. OwnSerials' /\ CursorAt' /\ Covered' /\ WalkForward' /\ SteadyHere'
    BY <1>1 DEF PagesInv, OwnSerials, CursorAt, Covered, WalkForward, SteadyHere
<1>14. NotBegun'
    BY <1>6 DEF NotBegun
<1> QED
    BY <1>10, <1>11, <1>13, <1>14 DEF PagesInv

\* Every step keeps the invariant.
LEMMA PagesStep == PagesInv /\ [WalkNext]_walkVars => PagesInv'
<1> SUFFICES ASSUME PagesInv, [WalkNext]_walkVars PROVE PagesInv'
    OBVIOUS
<1>1. CASE UNCHANGED walkVars
    <2>1. UNCHANGED <<walk, rows, inserted, after, page, total, got, done, steady, written>>
        BY <1>1 DEF walkVars
    <2>2. ByPages'
        BY <2>1, SameSorted DEF PagesInv, ByPages, Begun
    <2> QED
        BY <2>1, <2>2 DEF PagesInv, WalkTypeOK, OwnSerials, NotBegun, CursorAt,
            SteadyHere, Covered, WalkForward, Begun
<1> QED
    BY <1>1, InsertKeeps, UpdateKeeps, DestroyKeeps, CursorPageKeeps, CountKeeps, OffsetPageKeeps
    DEF WalkNext

\* Hence it always holds, for any ids, page size and writes.
THEOREM PagesInvariant == WalkSpec => []PagesInv
<1> QED
    BY PagesInitially, PagesStep, PTL DEF WalkSpec

\* Every reachable state of a walk has its type.
THEOREM WalkTypes == WalkSpec => []WalkTypeOK
<1>1. PagesInv => WalkTypeOK
    BY DEF PagesInv
<1>2. QED
    BY <1>1, PagesInvariant, PTL

\* WalkForward always holds: pages of cursorPaginate are in _id order, and repeat a row
\* only under a greater _id that it was given since, whatever is written between them.
THEOREM CursorGoesForward == WalkSpec => []WalkForward
<1>1. PagesInv => WalkForward
    BY DEF PagesInv
<1> QED
    BY <1>1, PagesInvariant, PTL

\* WalkComplete always holds: for every row that fitted when it began and was left alone,
\* a finished walk of cursorPaginate has returned a row of its _id.
THEOREM CursorMissesNothing == WalkSpec => []WalkComplete
<1>1. PagesInv => WalkComplete
    <2> SUFFICES ASSUME PagesInv, walk = "cursor", done, NEW n \in steady
                 PROVE  \E r \in Elements(got) : r.key = KeyOf(n)
        BY DEF WalkComplete
    <2>1. PICK i \in DOMAIN rows : rows[i].serial = n
        BY DEF PagesInv, SteadyHere
    <2>2. PICK m \in DOMAIN got : got[m].key = rows[i].key
        BY <2>1 DEF PagesInv, Covered
    <2>3. rows[i] \in Elements(rows) /\ \A r \in Elements(rows) : r.serial = n => r = rows[i]
        BY <2>1 DEF PagesInv, OwnSerials, Elements
    <2>4. KeyOf(n) = rows[i].key
        BY <2>1, <2>3 DEF KeyOf
    <2> QED
        BY <2>2, <2>4 DEF Elements
<1> QED
    BY <1>1, PagesInvariant, PTL

\* OffsetExact always holds: if nothing was written, the pages of paginate put together
\* are the rows that match, in order and once each.
THEOREM OffsetPagesPartition == WalkSpec => []OffsetExact
<1>1. PagesInv => OffsetExact
    <2> SUFFICES ASSUME PagesInv, walk = "offset", done, ~written PROVE got = Sorted(None)
        BY DEF OffsetExact
    <2>1. Begun
        BY DEF PagesInv, NotBegun
    <2>2. /\ got = SubSeq(Sorted(None), 1, Smaller((page - 1) * PageSize, Count0))
          /\ (page - 1) * PageSize >= Count0
        BY <2>1 DEF PagesInv, ByPages
    <2>3. Count0 \in Nat /\ Sorted(None) \in Seq(Row) /\ Len(Sorted(None)) = Count0
        BY SortedIs, PagesTyped DEF Count0
    <2>4. (page - 1) * PageSize \in Nat
        BY PagesTyped
    <2>5. Smaller((page - 1) * PageSize, Count0) = Count0
        BY <2>2, <2>3, <2>4 DEF Smaller
    <2> QED
        BY <2>2, <2>3, <2>5, SubSeqFull
<1> QED
    BY <1>1, PagesInvariant, PTL

-----------------------------------------------------------------------------
\* A page of the cursor that is not the last moves it on.
LEMMA CursorMoves == ASSUME PagesInv, CursorPage PROVE done' \/ after' > after
<1> DEFINE s == Sorted(after)
           n == Cardinality(Matching(after))
<1>1. /\ n \in Nat
      /\ n > PageSize => done' = FALSE /\ after' = s[PageSize].key
      /\ n <= PageSize => done' = TRUE /\ after' = after
    BY CursorTakes, SortedIs, PagesTyped
<1>2. \A k \in 1..n : \E i \in Matching(after) : s[k] = rows[i]
    BY SortedIs, PagesTyped
<1> HIDE DEF s, n
<1>3. CASE n <= PageSize
    BY <1>3, <1>1
<1>4. CASE ~(n <= PageSize)
    <2>1. PageSize \in 1..n /\ after' = s[PageSize].key
        BY <1>1, <1>4, PagesTyped
    <2>2. PICK i \in Matching(after) : s[PageSize] = rows[i]
        BY <1>2, <2>1
    <2>3. i \in DOMAIN rows /\ rows[i] \in Row /\ (after # None => rows[i].key > after)
        BY PagesTyped DEF Matching, Match
    <2>4. rows[i].key > after
        BY <2>3, PagesTyped DEF None
    <2> QED
        BY <2>1, <2>2, <2>4
<1> QED
    BY <1>3, <1>4

\* An action property of the cursor: a page that is not the last hands on a greater
\* _id than it was asked with, so no page is read twice.
CursorRises == [][CursorPage => done' \/ after' > after]_walkVars

\* Every page of cursorPaginate but the last moves the cursor on, for any ids and writes.
THEOREM EachPageAdvances == WalkSpec => CursorRises
<1>1. PagesInv /\ [WalkNext]_walkVars => [CursorPage => done' \/ after' > after]_walkVars
    BY CursorMoves
<1> QED
    BY <1>1, PagesInvariant, PTL DEF CursorRises, WalkSpec

\* A walk that goes on has passed an _id with each page of the cursor, and counted more
\* pages than it has read of the others.
Passed == {k \in Key : k <= after}
Earned ==
    ~done => /\ walk = "cursor" => page - 1 <= Cardinality(Passed)
             /\ page <= MaxPage

\* There are no more pages than rows.
LEMMA PagesAreFew ==
    ASSUME NEW n \in Nat, PageSize \in Nat \ {0}, n # 0
    PROVE  Pages(n) \in Nat /\ Pages(n) <= n
<1> DEFINE q == (n + PageSize - 1) \div PageSize
<1>1. q \in Nat /\ q * PageSize <= n + PageSize - 1 /\ Pages(n) = q
    BY DEF Pages
<1> HIDE DEF q
<1>2. CASE q > n
    <2>1. q * PageSize >= (n + 1) * PageSize
        BY <1>1, <1>2
    <2>2. (n + 1) * PageSize = n * PageSize + PageSize
        OBVIOUS
    <2>3. n * PageSize >= n
        OBVIOUS
    <2>4. n * PageSize \in Nat /\ q * PageSize \in Nat
        BY <1>1
    <2> QED
        BY <1>1, <2>1, <2>2, <2>3, <2>4
<1> QED
    BY <1>1, <1>2

\* The cursor passes an _id when it rises to one, and there are so many of them.
LEMMA PassesOne ==
    ASSUME PagesInv, after' \in Key, after' > after
    PROVE  /\ Cardinality(Passed) \in Nat /\ Cardinality(Passed)' \in Nat
           /\ Cardinality(Passed)' >= Cardinality(Passed) + 1
           /\ Cardinality(Passed)' <= Cardinality(Key)
<1>1. IsFiniteSet(Key) /\ (\A k \in Key : k \in Nat) /\ after \in Int
    BY PagesAssumption, PagesTyped
<1>2. IsFiniteSet(Passed) /\ Cardinality(Passed) \in Nat
    BY <1>1, FS_Subset, FS_CardinalityType DEF Passed
<1>3. after' \notin Passed /\ Passed \cup {after'} \subseteq Passed'
    BY <1>1 DEF Passed
<1>4. Cardinality(Passed \cup {after'}) = Cardinality(Passed) + 1
    BY <1>2, <1>3, FS_AddElement
<1>5. Passed' \subseteq Key
    BY DEF Passed
<1>6. /\ IsFiniteSet(Passed') /\ Cardinality(Passed') \in Nat
      /\ Cardinality(Passed') <= Cardinality(Key)
    BY <1>1, <1>5, FS_Subset, FS_CardinalityType
<1>7. Cardinality(Passed \cup {after'}) <= Cardinality(Passed')
    BY <1>3, <1>6, FS_Subset
<1> QED
    BY <1>2, <1>4, <1>6, <1>7

\* The bound in the guards of CursorPage and OffsetPage cuts nothing off: a walk that has
\* not come to its last page is within it.
THEOREM BoundCutsNothing == WalkSpec => [](~done => page <= MaxPage)
<1>1. WalkInit => Earned
    <2>1. ASSUME WalkInit PROVE Earned
        <3>1. IsFiniteSet(Passed) /\ Cardinality(Passed) \in Nat
            BY PagesAssumption, FS_Subset, FS_CardinalityType DEF Passed
        <3> QED
            BY <2>1, <3>1, PagesAssumption, PagesBounded, FS_CardinalityType DEF WalkInit, Earned
    <2> QED
        BY <2>1
<1>2. PagesInv /\ Earned /\ [WalkNext]_walkVars => Earned'
    <2> SUFFICES ASSUME PagesInv, Earned, [WalkNext]_walkVars PROVE Earned'
        OBVIOUS
    <2>1. CASE CursorPage
        <3>1. SUFFICES ASSUME ~done'
                       PROVE  page' - 1 <= Cardinality(Passed)' /\ page' <= MaxPage
            BY DEF Earned
        <3>2. page' = page + 1 /\ walk = "cursor" /\ ~done
            BY <2>1 DEF CursorPage
        <3>3. after' > after
            BY <2>1, <3>1, CursorMoves
        <3>4. after' \in Key
            <4>1. PagesInv'
                BY <2>1, CursorPageKeeps
            <4>2. after' \in Key \cup {None} /\ after \in Key \cup {None}
                BY <4>1 DEF PagesInv, WalkTypeOK
            <4> QED
                BY <3>3, <4>2, PagesAssumption DEF None
        <3>5. /\ Cardinality(Passed) \in Nat /\ Cardinality(Passed)' \in Nat
              /\ Cardinality(Passed)' >= Cardinality(Passed) + 1
              /\ Cardinality(Passed)' <= Cardinality(Key)
            BY <3>3, <3>4, PassesOne
        <3>6. page - 1 <= Cardinality(Passed) /\ page \in Nat /\ Cardinality(Key) \in Nat
            BY <3>2, PagesTyped, PagesAssumption, FS_CardinalityType DEF Earned
        <3> QED
            BY <3>2, <3>5, <3>6, PagesBounded
    <2>2. CASE OffsetPage
        <3>1. SUFFICES ASSUME ~done' PROVE page' <= MaxPage
            BY <2>2 DEF Earned, OffsetPage
        <3>2. page' = page + 1 /\ ~(page >= Pages(total)) /\ total # None
            BY <2>2, <3>1 DEF OffsetPage, LastPage
        <3>3. total \in Nat /\ total <= MaxInsert
            BY <3>2, PagesTyped DEF PagesInv, WalkTypeOK, None
        <3>4. CASE total = 0
            BY <3>2, <3>4, PagesTyped DEF Pages
        <3>5. CASE total # 0
            <4>1. Pages(total) \in Nat /\ Pages(total) <= total
                BY <3>3, <3>5, PagesTyped, PagesAreFew
            <4> QED
                BY <3>2, <3>3, <4>1, PagesTyped, PagesBounded
        <3> QED
            BY <3>4, <3>5
    <2>3. CASE UNCHANGED <<walk, page, after, done>>
        BY <2>3 DEF Earned, Passed
    <2> QED
        BY <2>1, <2>2, <2>3 DEF WalkNext, walkVars, Insert, Update, Destroy, Count
<1>3. PagesInv /\ Earned => (~done => page <= MaxPage)
    BY DEF Earned
<1> QED
    BY <1>1, <1>2, <1>3, PagesInvariant, PTL DEF WalkSpec
=============================================================================
