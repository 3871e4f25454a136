-------------------------- MODULE HttpPipelineProofs --------------------------
(* What holds of the HTTP application for any requests, actors, mounts,       *)
(* errors and reporters, whatever layers it was built with.                   *)
EXTENDS HttpPipeline, SequenceTheorems, WellFoundedInduction, TLAPS

Layer == Framework \cup Feature \cup Mount
PhaseName == {"idle", "limiting", "handling", "reporting", "done"}

Shape ==
    /\ boot \in {"create", "register", "routes", "providers", "ready"}
    /\ finalized \in BOOLEAN /\ listening \in BOOLEAN
    /\ stack \in Seq(Layer) /\ early \subseteq Mount
    /\ phase \in [Request -> PhaseName] /\ kind \in [Request -> Kind]
    /\ at \in [Request -> Nat]
    /\ store \in [Request -> Request \cup {None}]
    /\ actor \in [Request -> Actor \cup {None}] /\ reqActor \in [Request -> Actor \cup {None}]
    /\ answers \in [Request -> Seq(Answer)]

\* The body parsers and the context come first, and once; the final handlers are
\* there from finalizeHttp on, behind everything mounted before.
Built ==
    /\ boot = "create" => stack = <<>>
    /\ Http => Len(stack) >= 3
    /\ \A i \in 1..Len(stack) : (stack[i] = "parsers" <=> i = 1) /\ (stack[i] = "context" <=> i = 2)
    /\ listening => finalized
    /\ finalized => boot = "ready"
    /\ finalized <=> \E n \in 1..Len(stack) : stack[n] = "notFound"
    /\ \A m \in early : \E i \in 1..Len(stack) :
          stack[i] = m /\ \A n \in 1..Len(stack) : stack[n] = "notFound" => i < n

\* A request that has not been answered is on its way to the final handlers, and
\* its async chain holds its own store once it is past requestContext.
Walks(r) ==
    /\ phase[r] = "idle" =>
          at[r] = 0 /\ store[r] = None /\ answers[r] = <<>> /\ actor[r] = None /\ reqActor[r] = None
    /\ phase[r] # "idle" =>
          /\ listening /\ at[r] \in 1..Len(stack) /\ at[r] # 2
          /\ store[r] = IF at[r] > 2 THEN r ELSE None
    /\ phase[r] \in {"limiting", "handling"} =>
          at[r] > 2 /\ \E n \in (at[r] + 1)..Len(stack) : stack[n] = "notFound"

\* What the one answer of r may say.
Says(r, a) ==
    /\ a.what = "envelope" => a.id = IF "context" \in a.headers THEN r ELSE None
    /\ (a.what = "notFound" /\ kind[r] \in early) => kind[r] \in {stack[i] : i \in 1..(at[r] - 1)}

Answered(r) == answers[r] = <<>> \/ \E a \in Answer : answers[r] = <<a>> /\ Says(r, a)

\* Nobody is known as somebody else, and behind authorize() as nobody.
Known(r) ==
    /\ actor[r] # None => actor[r] = kind[r]
    /\ reqActor[r] # None => reqActor[r] = kind[r]
    /\ (phase[r] = "handling" /\ kind[r] \in Actor /\ stack[at[r]] = "router") =>
          actor[r] = kind[r] /\ can(kind[r], Needed)

RequestInv(r) == Walks(r) /\ Answered(r) /\ Known(r)

IInv == Shape /\ Built /\ \A r \in Request : RequestInv(r)

\* Names of the framework, of mounted handlers and of actors are apart.
LEMMA Names ==
    /\ None \notin Request /\ None \notin Actor
    /\ Mount \cap (Framework \cup Feature \cup {"health", "route", "nowhere"} \cup Flaw) = {}
    /\ Actor \cap ({"health", "route", "nowhere"} \cup Flaw \cup Mount) = {}
    /\ Asked \subseteq Kind
  BY PipelineAssumption DEF None

-----------------------------------------------------------------------------
(* The walk                                                                  *)

\* A set of numbers has a least one.
LEMMA Least ==
    ASSUME NEW S \in SUBSET Nat, S # {} PROVE \E x \in S : \A y \in S : x <= y
  <1> DEFINE R == {ss \in Nat \X Nat : ss[1] < ss[2]}
  <1>1. IsWellFoundedOn(R, Nat)
    BY NatLessThanWellFounded DEF OpToRel
  <1>2. \A x, y \in Nat : y < x => <<y, x>> \in R
    OBVIOUS
  <1> HIDE DEF R
  <1>3. PICK x \in S : \A y \in S : <<y, x>> \notin R
    BY <1>1, WFMin
  <1>4. \A y \in S : ~ (y < x)
    BY <1>2, <1>3
  <1>5. \A y \in S : x <= y
    BY <1>4
  <1>6. QED
    BY <1>5

\* From anywhere in front of the final handlers the walk ends, at the first layer
\* that stops it and not behind them.
LEMMA WalkEnds ==
    ASSUME Shape, NEW k, NEW from \in Nat \ {0}, NEW n \in from..Len(stack), stack[n] = "notFound"
    PROVE  /\ Walk(from, k) \in from..n
           /\ Stops(stack[Walk(from, k)], k)
           /\ \A j \in from..(Walk(from, k) - 1) : ~Stops(stack[j], k)
  <1> DEFINE S == {i \in from..Len(stack) : Stops(stack[i], k)}
  <1>1. Len(stack) \in Nat
    BY DEF Shape
  <1>2. n \in S
    BY DEF Stops
  <1>3. S \in SUBSET Nat /\ S # {}
    BY <1>1, <1>2
  <1>4. PICK x \in S : \A y \in S : x <= y
    BY <1>3, Least
  <1>5. x \in from..Len(stack) /\ Stops(stack[x], k) /\ \A j \in from..(x - 1) : ~Stops(stack[j], k)
    BY <1>1, <1>4
  <1>6. \E i \in from..Len(stack) : Stops(stack[i], k) /\ \A j \in from..(i - 1) : ~Stops(stack[j], k)
    BY <1>5
  <1> DEFINE w == Walk(from, k)
  <1>7. w \in from..Len(stack) /\ Stops(stack[w], k) /\ \A j \in from..(w - 1) : ~Stops(stack[j], k)
    BY <1>6 DEF Walk
  <1>8. ~(n < w)
    BY <1>2, <1>7
  <1>9. QED
    BY <1>1, <1>7, <1>8

\* What a stop can be: never the context, and the parsers for a broken body only.
LEMMA StopShape ==
    ASSUME NEW l, NEW k, Stops(l, k)
    PROVE  l # "context" /\ (l = "parsers" => k = "badBody")
  BY Names DEF Stops, Framework

-----------------------------------------------------------------------------
(* Steps of the server                                                       *)

\* What is added to the stack leaves the requests where they are.
LEMMA RequestsStay ==
    ASSUME IInv, UNCHANGED clients, Shape', Built',
           Len(stack) <= Len(stack'), \A i \in 1..Len(stack) : stack'[i] = stack[i],
           listening => listening', listening => early' = early
    PROVE  IInv'
  <1> USE DEF IInv
  <1>1. UNCHANGED <<phase, kind, at, store, actor, reqActor, fault, answers, ended, reports>>
    BY DEF clients, actors
  <1>2. ASSUME NEW r \in Request PROVE RequestInv(r)'
    <2>1. Walks(r)'
      <3>1. Len(stack) \in Nat /\ Len(stack') \in Nat /\ at[r] \in Nat
        BY DEF Shape
      <3>2. QED
        BY <1>1, <3>1 DEF RequestInv, Walks
    <2>2. Answered(r)'
      <3>1. CASE answers[r] = <<>>
        BY <1>1, <3>1 DEF Answered
      <3>2. CASE answers[r] # <<>>
        <4>1. phase[r] # "idle" /\ listening /\ at[r] \in 1..Len(stack)
          BY <3>2 DEF RequestInv, Walks
        <4>2. PICK a \in Answer : answers[r] = <<a>> /\ Says(r, a)
          BY <3>2 DEF RequestInv, Answered
        <4>3. early' = early /\ kind' = kind /\ at' = at
          BY <1>1, <4>1
        <4>4. \A i \in 1..(at[r] - 1) : stack'[i] = stack[i]
          BY <4>1 DEF Shape
        <4>5. Says(r, a)'
          BY <4>2, <4>3, <4>4 DEF Says
        <4>6. QED
          BY <1>1, <4>2, <4>5 DEF Answered
      <3>3. QED
        BY <3>1, <3>2
    <2>3. Known(r)'
      <3>1. phase[r] = "handling" => at[r] \in 1..Len(stack)
        BY DEF RequestInv, Walks
      <3>2. QED
        BY <1>1, <3>1 DEF RequestInv, Known
    <2>4. QED
      BY <2>1, <2>2, <2>3 DEF RequestInv
  <1>3. QED
    BY <1>2

\* createApp goes on, and the stack is as it was.
LEMMA BootKeeps ==
    ASSUME IInv, boot' \in {"register", "routes", "providers", "ready"}, finalized => boot' = boot,
           UNCHANGED <<stack, finalized, listening, early, clients>>
    PROVE  IInv'
  <1>1. Shape' /\ Built'
    BY DEF IInv, Shape, Built, Http, clients, actors
  <1>2. Len(stack) <= Len(stack')
    BY DEF IInv, Shape
  <1>3. QED
    BY <1>1, <1>2, RequestsStay

\* createApp begins with the parsers, the context and the security headers.
LEMMA OrderShape ==
    ASSUME NEW features
    PROVE  /\ Order(features) \in Seq(Layer) /\ Len(Order(features)) >= 3
           /\ Order(features)[1] = "parsers" /\ Order(features)[2] = "context"
           /\ \A i \in 1..Len(Order(features)) : i > 2 =>
                 Order(features)[i] \notin {"parsers", "context", "notFound"}
  <1> DEFINE P == <<"parsers", "context", "security">>
             A == Optional("cors", features)
             B == Optional("cookies", features)
             C == Optional("limiter", features)
             D == Optional("health", features)
  <1>1. P \in Seq(Layer) /\ Len(P) = 3 /\ P[1] = "parsers" /\ P[2] = "context" /\ P[3] = "security"
    BY DEF Layer, Framework
  <1>2. A \in Seq(Feature) /\ B \in Seq(Feature) /\ C \in Seq(Feature) /\ D \in Seq(Feature)
    <2>1. \A l \in Feature : Optional(l, features) \in Seq(Feature)
      <3>1. \A l \in Feature : <<l>> \in Seq(Feature)
        OBVIOUS
      <3>2. <<>> \in Seq(Feature)
        OBVIOUS
      <3>3. QED
        BY <3>1, <3>2 DEF Optional
    <2>2. {"cors", "cookies", "limiter", "health"} = Feature
      BY DEF Feature
    <2>3. QED
      BY <2>1, <2>2
  <1> DEFINE Q == A \o B \o C \o D
  <1>3. Q \in Seq(Feature)
    <2> HIDE DEF A, B, C, D
    <2>1. A \o B \in Seq(Feature)
      BY <1>2
    <2>2. (A \o B) \o C \in Seq(Feature)
      BY <1>2, <2>1
    <2>3. QED
      BY <1>2, <2>2
  <1>4. Order(features) = P \o Q
    BY DEF Order
  <1> HIDE DEF P, Q
  <1>5. Q \in Seq(Layer)
    BY <1>3 DEF Layer
  <1>6. \A i \in 1..Len(Q) : Q[i] \notin {"parsers", "context", "notFound"}
    BY <1>3 DEF Feature
  <1>7. /\ P \o Q \in Seq(Layer) /\ Len(P \o Q) = Len(P) + Len(Q)
        /\ \A i \in 1..(Len(P) + Len(Q)) : (P \o Q)[i] = IF i <= Len(P) THEN P[i] ELSE Q[i - Len(P)]
    BY <1>1, <1>5, ConcatProperties
  <1>8. Len(Q) \in Nat
    BY <1>5
  <1>9. ASSUME NEW i \in 1..Len(P \o Q), i > 2
        PROVE  (P \o Q)[i] \notin {"parsers", "context", "notFound"}
    <2>1. CASE i = 3
      BY <1>1, <1>7, <1>8, <1>9, <2>1
    <2>2. CASE i > 3
      BY <1>1, <1>6, <1>7, <1>8, <1>9, <2>2
    <2>3. QED
      BY <1>7, <1>8, <1>9, <2>1, <2>2
  <1>10. QED
    BY <1>1, <1>4, <1>7, <1>8, <1>9

\* The first layers: no request has come yet.
LEMMA CreateKeeps == IInv /\ CreateHttp => IInv'
  <1> SUFFICES ASSUME IInv, CreateHttp PROVE IInv'
    OBVIOUS
  <1> USE DEF IInv
  <1>1. PICK features \in FeatureSets : stack' = Order(features)
    BY DEF CreateHttp
  <1>2. /\ boot = "create" /\ boot' = "register" /\ stack = <<>>
        /\ UNCHANGED <<finalized, listening, early, clients>>
    BY DEF CreateHttp, Built
  <1>3. Shape'
    BY <1>1, <1>2, OrderShape DEF Shape, clients, actors
  <1>4. ~finalized /\ ~listening /\ early = {}
    BY <1>2 DEF Built, Shape
  <1>5. Built'
    <2>1. \A i \in 1..Len(stack') : (stack'[i] = "parsers" <=> i = 1) /\ (stack'[i] = "context" <=> i = 2)
                                   /\ stack'[i] # "notFound"
      <3>1. ASSUME NEW i \in 1..Len(stack')
            PROVE  (stack'[i] = "parsers" <=> i = 1) /\ (stack'[i] = "context" <=> i = 2)
                   /\ stack'[i] # "notFound"
        <4>1. i = 1 \/ i = 2 \/ i > 2
          BY <1>3 DEF Shape
        <4>2. QED
          BY <1>1, <4>1, OrderShape
      <3>2. QED
        BY <3>1
    <2>2. Len(stack') >= 3
      BY <1>1, OrderShape
    <2>3. QED
      BY <1>2, <1>4, <2>1, <2>2 DEF Built, Http
  <1>6. Len(stack) = 0 /\ Len(stack') \in Nat
    BY <1>2, <1>3 DEF Shape
  <1>7. Len(stack) <= Len(stack') /\ \A i \in 1..Len(stack) : stack'[i] = stack[i]
    BY <1>6
  <1>8. QED
    BY <1>2, <1>3, <1>5, <1>7, RequestsStay

\* What is added behind the stack.
LEMMA Grows ==
    ASSUME Shape, NEW t \in Seq(Layer), stack' = stack \o t
    PROVE  /\ stack' \in Seq(Layer) /\ Len(stack') = Len(stack) + Len(t)
           /\ Len(stack) \in Nat /\ Len(t) \in Nat
           /\ \A i \in 1..Len(stack) : stack'[i] = stack[i]
           /\ \A j \in 1..Len(t) : stack'[Len(stack) + j] = t[j]
           /\ \A i \in 1..Len(stack') : i \in 1..Len(stack) \/ \E j \in 1..Len(t) : i = Len(stack) + j
  <1>1. stack \in Seq(Layer) /\ Len(stack) \in Nat /\ Len(t) \in Nat
    BY DEF Shape
  <1>2. /\ stack' \in Seq(Layer) /\ Len(stack') = Len(stack) + Len(t)
        /\ \A i \in 1..(Len(stack) + Len(t)) : stack'[i] = IF i <= Len(stack) THEN stack[i] ELSE t[i - Len(stack)]
    BY <1>1, ConcatProperties
  <1>3. \A i \in 1..Len(stack) : stack'[i] = stack[i]
    BY <1>1, <1>2
  <1>4. ASSUME NEW j \in 1..Len(t) PROVE stack'[Len(stack) + j] = t[j]
    BY <1>1, <1>2
  <1>5. ASSUME NEW i \in 1..Len(stack'), i \notin 1..Len(stack) PROVE \E j \in 1..Len(t) : i = Len(stack) + j
    <2>1. i - Len(stack) \in 1..Len(t) /\ i = Len(stack) + (i - Len(stack))
      BY <1>1, <1>2, <1>5
    <2>2. QED
      BY <2>1
  <1>6. QED
    BY <1>1, <1>2, <1>3, <1>4, <1>5

\* Layers that are none of the framework's first or last ones go behind the others.
LEMMA LayersKeep ==
    ASSUME IInv, NEW t \in Seq(Layer), stack' = stack \o t,
           \A j \in 1..Len(t) : t[j] \notin {"parsers", "context", "notFound"},
           Http, boot' \in {"routes", "providers", "ready", boot}, finalized => boot' = boot,
           UNCHANGED <<finalized, listening, clients>>,
           early \subseteq early', early' \subseteq Mount, finalized => early' = early,
           \A m \in early' \ early : \E j \in 1..Len(t) : t[j] = m
    PROVE  IInv'
  <1> USE DEF IInv
  <1> DEFINE G(s) == \A i \in 1..Len(s) : (s[i] = "parsers" <=> i = 1) /\ (s[i] = "context" <=> i = 2)
  <1>1. Shape'
    BY Grows DEF Shape, clients, actors
  <1>2. /\ Len(stack') = Len(stack) + Len(t) /\ Len(stack) \in Nat /\ Len(t) \in Nat /\ Len(stack) >= 3
        /\ \A i \in 1..Len(stack) : stack'[i] = stack[i]
        /\ \A j \in 1..Len(t) : stack'[Len(stack) + j] = t[j]
        /\ \A i \in 1..Len(stack') : i \in 1..Len(stack) \/ \E j \in 1..Len(t) : i = Len(stack) + j
    BY Grows DEF Built
  <1>3. \A i \in 1..Len(stack') : i \in 1..Len(stack) \/ stack'[i] \notin {"parsers", "context", "notFound"}
    BY <1>2
  <1>4. G(stack')
    <2>1. ASSUME NEW i \in 1..Len(stack')
          PROVE  (stack'[i] = "parsers" <=> i = 1) /\ (stack'[i] = "context" <=> i = 2)
      <3>1. CASE i \in 1..Len(stack)
        BY <1>2, <3>1 DEF Built
      <3>2. CASE i \notin 1..Len(stack)
        <4>1. i # 1 /\ i # 2
          <5>1. Len(stack) \in Nat /\ Len(stack) >= 3
            BY <1>2
          <5>2. 1 \in 1..Len(stack) /\ 2 \in 1..Len(stack)
            BY <5>1
          <5>3. QED
            BY <3>2, <5>2, Zenon
        <4>2. stack'[i] \notin {"parsers", "context", "notFound"}
          BY <1>3, <3>2, Zenon
        <4>3. stack'[i] # "parsers" /\ stack'[i] # "context"
          BY <4>2
        <4>4. QED
          BY <4>1, <4>3, Zenon
      <3>3. QED
        BY <3>1, <3>2
    <2>2. QED
      BY <2>1
  <1>5. \A n \in 1..Len(stack') : stack'[n] = "notFound" => n \in 1..Len(stack) /\ stack[n] = "notFound"
    BY <1>2, <1>3
  <1>6. 1..Len(stack) \subseteq 1..Len(stack')
    BY <1>2
  <1>7. finalized' <=> \E n \in 1..Len(stack') : stack'[n] = "notFound"
    BY <1>2, <1>5, <1>6 DEF Built
  <1>8. ASSUME NEW m \in early'
        PROVE  \E i \in 1..Len(stack') :
                   stack'[i] = m /\ \A n \in 1..Len(stack') : stack'[n] = "notFound" => i < n
    <2>1. CASE m \in early
      <3>1. PICK i \in 1..Len(stack) :
                stack[i] = m /\ \A n \in 1..Len(stack) : stack[n] = "notFound" => i < n
        BY <2>1 DEF Built
      <3>2. i \in 1..Len(stack') /\ stack'[i] = m
        BY <1>2, <1>6, <3>1
      <3>3. \A n \in 1..Len(stack') : stack'[n] = "notFound" => i < n
        BY <1>5, <3>1
      <3>4. QED
        BY <3>2, <3>3
    <2>2. CASE m \notin early
      <3>1. PICK j \in 1..Len(t) : t[j] = m
        BY <1>8, <2>2
      <3>2. Len(stack) + j \in 1..Len(stack') /\ stack'[Len(stack) + j] = m
        BY <1>2, <3>1
      <3>3. ~finalized'
        BY <1>8, <2>2
      <3>4. \A n \in 1..Len(stack') : stack'[n] # "notFound"
        BY <1>7, <3>3
      <3>5. QED
        BY <3>2, <3>4
    <2>3. QED
      BY <2>1, <2>2
  <1>9. boot' # "create" /\ Len(stack') >= 3 /\ (listening' => finalized') /\ (finalized' => boot' = "ready")
    BY <1>2 DEF Built, Http
  <1>10. Built'
    BY <1>4, <1>7, <1>8, <1>9 DEF Built
  <1>11. listening => early' = early
    BY DEF Built
  <1>12. Len(stack) <= Len(stack')
    BY <1>2
  <1>13. QED
    BY <1>1, <1>2, <1>10, <1>11, <1>12, RequestsStay

\* Something is mounted, before or behind the final handlers.
LEMMA MountsKeep == ASSUME IInv, NEW m \in Mount, Mounts(m) PROVE IInv'
  <1>1. /\ Http /\ stack' = stack \o <<m>>
        /\ early' = (IF finalized THEN early ELSE early \cup {m})
        /\ UNCHANGED <<boot, finalized, listening, clients>>
    BY DEF Mounts, IInv, Shape
  <1>2. m \notin {"parsers", "context", "notFound"} /\ m \in Layer
    BY Names DEF Framework, Layer
  <1>3. PICK t : t = <<m>>
    OBVIOUS
  <1>4. t \in Seq(Layer) /\ Len(t) = 1 /\ t[1] = m
    BY <1>2, <1>3
  <1>5. \A j \in 1..Len(t) : t[j] \notin {"parsers", "context", "notFound"}
    BY <1>2, <1>4
  <1>6. /\ early \subseteq early' /\ early' \subseteq Mount /\ (finalized => early' = early)
        /\ \A x \in early' \ early : x = m
    BY <1>1 DEF IInv, Shape
  <1>7. \A x \in early' \ early : \E j \in 1..Len(t) : t[j] = x
    BY <1>4, <1>6
  <1>8. boot' \in {"routes", "providers", "ready", boot} /\ stack' = stack \o t
    BY <1>1, <1>3
  <1>9. QED
    BY <1>1, <1>4, <1>5, <1>6, <1>7, <1>8, LayersKeep

\* Global middleware is loaded, if there is any.
LEMMA MiddlewareKeeps == IInv /\ LoadMiddleware => IInv'
  <1> SUFFICES ASSUME IInv, LoadMiddleware PROVE IInv'
    OBVIOUS
  <1>1. PICK global \in {<<>>, <<"global">>} : Adds(global)
    BY DEF LoadMiddleware
  <1>2. /\ boot = "register" /\ boot' = "routes" /\ ~finalized /\ early \subseteq Mount
        /\ UNCHANGED <<finalized, listening, early, clients>>
    BY DEF LoadMiddleware, IInv, Built, Shape
  <1>3. CASE ~Http
    BY <1>1, <1>2, <1>3, BootKeeps DEF Adds
  <1>4. CASE Http
    <2>1. global \in Seq(Layer) /\ \A j \in 1..Len(global) : global[j] = "global"
      <3>1. "global" \in Layer
        BY DEF Layer, Framework
      <3>2. CASE global = <<>>
        BY <3>2
      <3>3. CASE global = <<"global">>
        BY <3>1, <3>3
      <3>4. QED
        BY <3>2, <3>3
    <2>2. \A j \in 1..Len(global) : global[j] \notin {"parsers", "context", "notFound"}
      BY <2>1
    <2>3. stack' = stack \o global
      BY <1>1, <1>4 DEF Adds
    <2>4. early \subseteq early' /\ early' \subseteq Mount /\ early' \ early = {}
      BY <1>2
    <2>5. boot' \in {"routes", "providers", "ready", boot} /\ (finalized => boot' = boot)
          /\ (finalized => early' = early) /\ UNCHANGED <<finalized, listening, clients>>
      BY <1>2
    <2>6. \A x \in early' \ early : \E j \in 1..Len(global) : global[j] = x
      BY <2>4
    <2>7. QED
      BY <1>4, <2>1, <2>2, <2>3, <2>4, <2>5, <2>6, LayersKeep
  <1>5. QED
    BY <1>3, <1>4

\* The router is mounted.
LEMMA RoutesKeep == IInv /\ LoadRoutes => IInv'
  <1> SUFFICES ASSUME IInv, LoadRoutes PROVE IInv'
    OBVIOUS
  <1>1. /\ boot = "routes" /\ boot' = "providers" /\ ~finalized /\ early \subseteq Mount
        /\ UNCHANGED <<finalized, listening, early, clients>> /\ Adds(<<"router">>)
    BY DEF LoadRoutes, IInv, Built, Shape
  <1>2. CASE ~Http
    BY <1>1, <1>2, BootKeeps DEF Adds
  <1>3. CASE Http
    <2>1. PICK t : t = <<"router">>
      OBVIOUS
    <2>2. t \in Seq(Layer) /\ Len(t) = 1 /\ t[1] = "router"
      BY <2>1 DEF Layer, Framework
    <2>3. \A j \in 1..Len(t) : t[j] \notin {"parsers", "context", "notFound"}
      BY <2>2
    <2>4. stack' = stack \o t
      BY <1>1, <1>3, <2>1 DEF Adds
    <2>5. early \subseteq early' /\ early' \subseteq Mount /\ early' \ early = {}
      BY <1>1
    <2>6. \A x \in early' \ early : \E j \in 1..Len(t) : t[j] = x
      BY <2>5
    <2>7. boot' \in {"routes", "providers", "ready", boot} /\ (finalized => boot' = boot)
          /\ (finalized => early' = early) /\ UNCHANGED <<finalized, listening, clients>>
      BY <1>1
    <2>8. QED
      BY <1>3, <2>2, <2>3, <2>4, <2>5, <2>6, <2>7, LayersKeep
  <1>4. QED
    BY <1>2, <1>3

\* There is no HTTP, or createApp returns.
LEMMA ReadyKeeps == IInv /\ (CreateHttpFails \/ Ready) => IInv'
  <1> SUFFICES ASSUME IInv, CreateHttpFails \/ Ready PROVE IInv'
    OBVIOUS
  <1>1. /\ boot' \in {"register", "ready"} /\ ~finalized
        /\ UNCHANGED <<stack, finalized, listening, early, clients>>
    BY DEF CreateHttpFails, Ready, IInv, Built, Shape
  <1>2. QED
    BY <1>1, BootKeeps

\* The final handlers come once, behind all there is, and then the server may listen.
LEMMA FinalKeeps ==
    ASSUME IInv, boot = "ready", Http, stack' = stack \o FinalHandlers, finalized', finalized' \in BOOLEAN,
           listening' \in BOOLEAN, listening => listening', UNCHANGED <<boot, early, clients>>
    PROVE  IInv'
  <1> USE DEF IInv
  <1>1. CASE finalized
    <2>1. stack' = stack
      BY <1>1 DEF FinalHandlers, Shape
    <2>2. Shape' /\ Built'
      BY <1>1, <2>1 DEF Shape, Built, clients, actors
    <2>3. Len(stack) <= Len(stack')
      BY <2>1 DEF Shape
    <2>4. QED
      BY <2>1, <2>2, <2>3, RequestsStay
  <1>2. CASE ~finalized
    <2> DEFINE t == <<"notFound", "error">>
    <2>1. t \in Seq(Layer) /\ Len(t) = 2 /\ t[1] = "notFound" /\ t[2] = "error"
      BY DEF Layer, Framework
    <2>2. stack' = stack \o t
      BY <1>2 DEF FinalHandlers
    <2> HIDE DEF t
    <2>10. /\ stack' \in Seq(Layer) /\ Len(stack') = Len(stack) + Len(t) /\ Len(stack) \in Nat
           /\ \A i \in 1..Len(stack) : stack'[i] = stack[i]
           /\ \A j \in 1..Len(t) : stack'[Len(stack) + j] = t[j]
      BY <2>1, <2>2, Grows
    <2>11. 1 \in 1..Len(t) /\ 2 \in 1..Len(t)
      BY <2>1
    <2>3. /\ stack' \in Seq(Layer) /\ Len(stack') = Len(stack) + 2 /\ Len(stack) \in Nat /\ Len(stack) >= 3
          /\ \A i \in 1..Len(stack) : stack'[i] = stack[i]
          /\ stack'[Len(stack) + 1] = "notFound" /\ stack'[Len(stack) + 2] = "error"
      BY <2>1, <2>10, <2>11 DEF Built
    <2>4. \A i \in 1..Len(stack') : i \in 1..Len(stack) \/ i = Len(stack) + 1 \/ i = Len(stack) + 2
      BY <2>3
    <2>5. \A n \in 1..Len(stack) : stack[n] # "notFound"
      BY <1>2 DEF Built
    <2>6. Shape'
      BY <2>3 DEF Shape, clients, actors
    <2>7. Built'
      <3>1. \A n \in 1..Len(stack') : stack'[n] = "notFound" <=> n = Len(stack) + 1
        BY <2>3, <2>4, <2>5
      <3>2. \A i \in 1..Len(stack') : (stack'[i] = "parsers" <=> i = 1) /\ (stack'[i] = "context" <=> i = 2)
        <4>1. ASSUME NEW i \in 1..Len(stack')
              PROVE  (stack'[i] = "parsers" <=> i = 1) /\ (stack'[i] = "context" <=> i = 2)
          <5>1. CASE i \in 1..Len(stack)
            BY <2>3, <5>1 DEF Built
          <5>2. CASE i = Len(stack) + 1 \/ i = Len(stack) + 2
            BY <2>3, <5>2
          <5>3. QED
            BY <2>4, <5>1, <5>2
        <4>2. QED
          BY <4>1
      <3>3. ASSUME NEW m \in early
            PROVE  \E i \in 1..Len(stack') :
                       stack'[i] = m /\ \A n \in 1..Len(stack') : stack'[n] = "notFound" => i < n
        <4>1. PICK i \in 1..Len(stack) : stack[i] = m
          BY DEF Built
        <4>2. i \in 1..Len(stack') /\ stack'[i] = m /\ i < Len(stack) + 1
          BY <2>3, <4>1
        <4>3. QED
          BY <3>1, <4>2
      <3>4. Len(stack) + 1 \in 1..Len(stack') /\ Len(stack') >= 3
        BY <2>3
      <3>5. QED
        BY <2>3, <3>1, <3>2, <3>3, <3>4 DEF Built
    <2>8. Len(stack) <= Len(stack')
      BY <2>3
    <2>9. QED
      BY <2>3, <2>6, <2>7, <2>8, RequestsStay
  <1>3. QED
    BY <1>1, <1>2

-----------------------------------------------------------------------------
(* Steps of a request                                                        *)

\* A step of request r leaves every other as it was.
LEMMA OwnStep ==
    ASSUME IInv, NEW r \in Request, UNCHANGED server, Shape', RequestInv(r)',
           \A q \in Request \ {r} :
               /\ phase'[q] = phase[q] /\ kind'[q] = kind[q] /\ at'[q] = at[q] /\ store'[q] = store[q]
               /\ actor'[q] = actor[q] /\ reqActor'[q] = reqActor[q] /\ answers'[q] = answers[q]
    PROVE  IInv'
  <1> USE DEF IInv
  <1>1. UNCHANGED <<boot, stack, finalized, listening, early>>
    BY DEF server
  <1>2. Built'
    BY <1>1 DEF Built, Http
  <1>3. ASSUME NEW q \in Request \ {r} PROVE RequestInv(q)'
    <2>1. RequestInv(q)
      BY <1>3
    <2>2. Walks(q)'
      BY <1>1, <2>1 DEF RequestInv, Walks
    <2>3. Answered(q)'
      BY <1>1, <2>1 DEF RequestInv, Answered, Says
    <2>4. Known(q)'
      BY <1>1, <2>1 DEF RequestInv, Known
    <2>5. QED
      BY <2>2, <2>3, <2>4 DEF RequestInv
  <1>4. QED
    BY <1>2, <1>3

\* What is written for the first time is the only answer.
LEMMA WriteIsFirst ==
    ASSUME Shape, NEW r \in Request, NEW a \in Answer, answers[r] = <<>>,
           answers' = [answers EXCEPT ![r] = Append(@, a)]
    PROVE  /\ answers' \in [Request -> Seq(Answer)] /\ \A q \in Request \ {r} : answers'[q] = answers[q]
           /\ answers'[r] = <<a>>
  <1>1. Append(answers[r], a) = <<a>> /\ <<a>> \in Seq(Answer)
    OBVIOUS
  <1>2. answers \in [Request -> Seq(Answer)]
    BY DEF Shape
  <1>3. QED
    BY <1>1, <1>2

\* The response that a write adds.
Response(i, what, id) == [what |-> what, id |-> id, headers |-> Headers(i)]

\* A response is an answer that says what was written.
LEMMA ResponseShape ==
    ASSUME NEW i, NEW what \in {"ok", "preflight", "notFound", "envelope", "page"}, NEW id \in Request \cup {None}
    PROVE  /\ Response(i, what, id) \in Answer
           /\ Response(i, what, id).what = what /\ Response(i, what, id).id = id
           /\ Response(i, what, id).headers = Headers(i)
  <1>1. Headers(i) \in SUBSET {"context", "security", "cors"}
    BY DEF Headers
  <1>2. QED
    BY <1>1 DEF Response, Answer

\* The layer a walk ends at, and the store the request holds there.
LEMMA GoLands ==
    ASSUME IInv, NEW r \in Request, NEW k \in Kind, NEW from \in Nat \ {0}, listening,
           Go(r, k, from),
           (phase[r] = "idle" /\ from = 1) \/ (phase[r] \in {"limiting", "handling"} /\ from = at[r] + 1)
    PROVE  LET i == Walk(from, k) IN
           \E n \in i..Len(stack) :
              /\ stack[n] = "notFound" /\ i \in 1..Len(stack) /\ i # 2 /\ Stops(stack[i], k)
              /\ i >= from
              /\ i = 1 <=> stack[i] = "parsers"
              /\ at' = [at EXCEPT ![r] = i]
              /\ store' \in [Request -> Request \cup {None}]
              /\ store'[r] = IF i > 2 THEN r ELSE None
              /\ \A q \in Request \ {r} : store'[q] = store[q]
  <1> USE DEF IInv
  <1> DEFINE i == Walk(from, k)
  <1>1. Len(stack) \in Nat /\ at[r] \in Nat
    BY DEF Shape
  <1>2. PICK n \in from..Len(stack) : stack[n] = "notFound"
    <2>1. CASE phase[r] = "idle"
      BY <2>1 DEF Built
    <2>2. CASE phase[r] # "idle"
      BY <2>2 DEF RequestInv, Walks
    <2>3. QED
      BY <2>1, <2>2
  <1>3. i \in from..n /\ Stops(stack[i], k)
    BY <1>2, WalkEnds
  <1> HIDE DEF i
  <1>4. i \in 1..Len(stack) /\ n \in i..Len(stack)
    BY <1>1, <1>2, <1>3
  <1>5. i # 2 /\ (i = 1 <=> stack[i] = "parsers")
    BY <1>3, <1>4, StopShape DEF Built
  <1>6. 2 \in 1..Len(stack)
    <2>1. Http
      BY <1>2 DEF Http
    <2>2. QED
      BY <1>1, <2>1 DEF Built
  <1>7. (\E j \in from..(i - 1) : stack[j] = "context") <=> (from <= 2 /\ i > 2)
    <2>1. ASSUME NEW j \in from..(i - 1), stack[j] = "context" PROVE j = 2
      BY <1>1, <1>4, <2>1 DEF Built
    <2>2. from <= 2 /\ i > 2 => 2 \in from..(i - 1) /\ stack[2] = "context"
      BY <1>4, <1>6 DEF Built
    <2>3. QED
      BY <1>4, <2>1, <2>2
  <1>8. /\ at' = [at EXCEPT ![r] = i]
        /\ store' = IF \E j \in from..(i - 1) : stack[j] = "context" THEN [store EXCEPT ![r] = r] ELSE store
    BY DEF Go, Bind, i
  <1>9. store' = IF from <= 2 /\ i > 2 THEN [store EXCEPT ![r] = r] ELSE store
    BY <1>7, <1>8
  <1>10. store \in [Request -> Request \cup {None}]
    BY DEF Shape
  <1>11. store'[r] = IF i > 2 THEN r ELSE None
    <2>1. CASE phase[r] = "idle"
      BY <1>9, <1>10, <2>1 DEF RequestInv, Walks
    <2>2. CASE phase[r] # "idle"
      <3>1. at[r] > 2 /\ store[r] = r /\ from > 2 /\ i > 2
        BY <1>1, <1>3, <2>2 DEF RequestInv, Walks
      <3>2. QED
        BY <1>9, <1>10, <3>1
    <2>3. QED
      BY <2>1, <2>2
  <1>12. store' \in [Request -> Request \cup {None}] /\ \A q \in Request \ {r} : store'[q] = store[q]
    BY <1>9, <1>10
  <1>13. i >= from
    BY <1>2, <1>3
  <1>14. QED
    BY <1>2, <1>3, <1>4, <1>5, <1>8, <1>11, <1>12, <1>13 DEF i

\* Behind authorize() r runs as the actor who made it, and none but r is changed.
LEMMA AuthorizeShape ==
    ASSUME IInv, NEW r \in Request, Authorize(r), phase[r] \in {"idle", "limiting", "handling"}
    PROVE  \/ phase' = [phase EXCEPT ![r] = "reporting"] /\ actor' = actor
           \/ /\ phase' = [phase EXCEPT ![r] = "handling"]
              /\ actor' = [actor EXCEPT ![r] = kind[r]] /\ kind[r] \in Actor /\ can(kind[r], Needed)
  <1> USE DEF IInv
  <1> DEFINE who == IF reqActor[r] # None THEN reqActor[r] ELSE getActor(r)
  <1>1. CASE phase' = [phase EXCEPT ![r] = "reporting"] /\ actor' = actor
    BY <1>1
  <1>2. CASE /\ who # None /\ can(who, Needed) /\ setActor(r, who)
             /\ phase' = [phase EXCEPT ![r] = "handling"]
    <2>1. RequestInv(r) /\ r # None
      BY Names
    <2>2. phase[r] # "idle"
      BY <1>2, <2>1 DEF RequestInv, Walks, getActor
    <2>3. store[r] = r
      BY <2>1, <2>2 DEF RequestInv, Walks
    <2>4. getActor(r) = actor[r]
      BY <2>1, <2>3 DEF getActor
    <2>5. who = kind[r]
      BY <1>2, <2>1, <2>4 DEF RequestInv, Known
    <2>6. who \in Actor
      BY <1>2, <2>4 DEF Shape
    <2>7. actor' = [actor EXCEPT ![r] = kind[r]]
      BY <1>2, <2>1, <2>3, <2>5 DEF setActor
    <2>8. QED
      BY <1>2, <2>5, <2>6, <2>7
  <1>3. QED
    BY <1>1, <1>2 DEF Authorize, Fail

\* What a walk that ends at layer i makes of r, which is then in phase p.
Lands(r, k, i, p) ==
    /\ phase' = [phase EXCEPT ![r] = p]
    /\ p \in {"limiting", "handling"} => stack[i] \notin {"parsers", "notFound"} /\ answers' = answers
    /\ \/ answers' = answers
       \/ \E what \in {"ok", "preflight", "notFound"} : \E j :
             /\ answers[r] = <<>> /\ Write(r, j, what, None)
             /\ what = "notFound" => stack[i] = "notFound"
    /\ \/ actor' = actor
       \/ actor' = [actor EXCEPT ![r] = kind[r]] /\ kind[r] \in Actor /\ phase[r] # "idle"
    /\ (p = "handling" /\ k \in Actor /\ stack[i] = "router") => actor'[r] = k /\ can(k, Needed)

\* A request goes on to the layer it lands at.
LEMMA GoKeeps ==
    ASSUME IInv, NEW r \in Request, NEW k \in Kind, NEW from \in Nat \ {0}, listening,
           Go(r, k, from), kind' = [kind EXCEPT ![r] = k],
           \/ phase[r] = "idle" /\ from = 1
           \/ phase[r] \in {"limiting", "handling"} /\ from = at[r] + 1 /\ k = kind[r]
    PROVE  IInv'
  <1> USE DEF IInv
  <1> DEFINE i == Walk(from, k)
  <1>1. PICK n \in i..Len(stack) :
              /\ stack[n] = "notFound" /\ i \in 1..Len(stack) /\ i # 2 /\ Stops(stack[i], k)
              /\ i >= from
              /\ i = 1 <=> stack[i] = "parsers"
              /\ at' = [at EXCEPT ![r] = i]
              /\ store' \in [Request -> Request \cup {None}]
              /\ store'[r] = IF i > 2 THEN r ELSE None
              /\ \A q \in Request \ {r} : store'[q] = store[q]
    BY GoLands
  <1>2. UNCHANGED <<boot, stack, finalized, listening, early, reqActor>> /\ UNCHANGED server
    BY DEF Go, server
  <1>3. PICK p \in PhaseName \ {"idle"} : Lands(r, k, i, p)
    <2> DEFINE layer == stack[i]
    <2>1. CASE layer \in {"parsers", "cookies"} /\ Fail(r, k) /\ UNCHANGED <<answers, ended, actor>>
      <3>1. Lands(r, k, i, "reporting")
        BY <2>1 DEF Fail, Lands
      <3>2. QED
        BY <3>1 DEF PhaseName
    <2>2. CASE layer = "cors" /\ Tell(r, i + 1, "preflight") /\ UNCHANGED actor
      <3>1. Lands(r, k, i, "done") \/ Lands(r, k, i, "reporting")
        BY <2>2 DEF Tell, Begun, Settle, Fail, Lands
      <3>2. QED
        BY <3>1 DEF PhaseName
    <2>3. CASE layer = "health" /\ Tell(r, i, "ok") /\ UNCHANGED actor
      <3>1. Lands(r, k, i, "done") \/ Lands(r, k, i, "reporting")
        BY <2>3 DEF Tell, Begun, Settle, Fail, Lands
      <3>2. QED
        BY <3>1 DEF PhaseName
    <2>4. CASE layer = "notFound" /\ Tell(r, i, "notFound") /\ UNCHANGED actor
      <3>1. Lands(r, k, i, "done") \/ Lands(r, k, i, "reporting")
        BY <2>4 DEF Tell, Begun, Settle, Fail, Lands
      <3>2. QED
        BY <3>1 DEF PhaseName
    <2>5. CASE layer = "router" /\ k \in Actor /\ Authorize(r) /\ UNCHANGED <<answers, ended>>
      <3>1. CASE phase' = [phase EXCEPT ![r] = "reporting"] /\ actor' = actor
        <4>1. Lands(r, k, i, "reporting")
          BY <2>5, <3>1 DEF Lands
        <4>2. QED
          BY <4>1 DEF PhaseName
      <3>2. CASE /\ phase' = [phase EXCEPT ![r] = "handling"]
                 /\ actor' = [actor EXCEPT ![r] = kind[r]] /\ kind[r] \in Actor /\ can(kind[r], Needed)
        <4>1. phase[r] # "idle"
          BY <2>5, <3>2 DEF Authorize, getActor, RequestInv, Walks, Fail, Shape
        <4>2. Lands(r, k, i, "handling")
          BY <2>5, <3>2, <4>1 DEF Shape, Lands
        <4>3. QED
          BY <4>2 DEF PhaseName
      <3>3. QED
        BY <2>5, <3>1, <3>2, AuthorizeShape
    <2>6. CASE /\ layer \in {"limiter", "global", "router"} \cup Mount
               /\ layer = "router" => k \notin Actor
               /\ phase' = [phase EXCEPT ![r] = IF layer = "limiter" THEN "limiting" ELSE "handling"]
               /\ UNCHANGED <<fault, answers, ended, actor>>
      <3>1. layer \notin {"parsers", "notFound"}
        BY <2>6, Names DEF Framework
      <3>2. Lands(r, k, i, IF layer = "limiter" THEN "limiting" ELSE "handling")
        BY <2>6, <3>1 DEF Lands
      <3>3. QED
        BY <3>2 DEF PhaseName
    <2>7. QED
      BY <2>1, <2>2, <2>3, <2>4, <2>5, <2>6 DEF Go
  <1> HIDE DEF i
  <1>4. /\ phase'[r] = p /\ kind'[r] = k /\ at'[r] = i
        /\ \A q \in Request \ {r} : /\ phase'[q] = phase[q] /\ kind'[q] = kind[q] /\ at'[q] = at[q]
                                  /\ actor'[q] = actor[q] /\ store'[q] = store[q] /\ reqActor'[q] = reqActor[q]
    BY <1>1, <1>2, <1>3 DEF Lands, Shape
  <1>5. /\ answers' \in [Request -> Seq(Answer)] /\ \A q \in Request \ {r} : answers'[q] = answers[q]
        /\ \/ answers'[r] = answers[r]
           \/ \E a \in Answer : answers'[r] = <<a>> /\ a.what # "envelope"
                             /\ (a.what = "notFound" => stack[i] = "notFound")
    <2>1. CASE answers' = answers
      BY <2>1 DEF Shape
    <2>2. ASSUME NEW what \in {"ok", "preflight", "notFound"}, NEW j, Write(r, j, what, None), answers[r] = <<>>,
                 what = "notFound" => stack[i] = "notFound"
          PROVE  /\ answers' \in [Request -> Seq(Answer)] /\ \A q \in Request \ {r} : answers'[q] = answers[q]
                 /\ \E a \in Answer : answers'[r] = <<a>> /\ a.what # "envelope"
                                   /\ (a.what = "notFound" => stack[i] = "notFound")
      <3>1. PICK a : a = Response(j, what, None)
        OBVIOUS
      <3>2. a \in Answer /\ a.what = what
        <4>1. what \in {"ok", "preflight", "notFound", "envelope", "page"} /\ None \in Request \cup {None}
          OBVIOUS
        <4>2. QED
          BY <3>1, <4>1, ResponseShape
      <3>3. answers' = [answers EXCEPT ![r] = Append(@, a)]
        BY <2>2, <3>1 DEF Write, Response
      <3>4. /\ answers' \in [Request -> Seq(Answer)] /\ \A q \in Request \ {r} : answers'[q] = answers[q]
            /\ answers'[r] = <<a>>
        BY <2>2, <3>2, <3>3, WriteIsFirst
      <3>5. QED
        BY <2>2, <3>2, <3>4
    <2>3. QED
      BY <1>3, <2>1, <2>2 DEF Lands
  <1>6. actor'[r] = actor[r] \/ (actor'[r] = kind[r] /\ phase[r] # "idle")
    BY <1>3 DEF Lands, Shape
  <1>7. Shape'
    <2>1. phase' \in [Request -> PhaseName] /\ kind' \in [Request -> Kind]
      BY <1>3 DEF Lands, Shape
    <2>2. at' \in [Request -> Nat]
      BY <1>1 DEF Shape
    <2>3. actor' \in [Request -> Actor \cup {None}]
      <3>1. CASE actor' = actor
        BY <3>1 DEF Shape
      <3>2. CASE actor' = [actor EXCEPT ![r] = kind[r]] /\ kind[r] \in Actor
        BY <3>2 DEF Shape
      <3>3. QED
        BY <1>3, <3>1, <3>2 DEF Lands
    <2>4. QED
      BY <1>1, <1>2, <1>5, <2>1, <2>2, <2>3 DEF Shape
  <1>8. RequestInv(r)
    OBVIOUS
  <1>9. Walks(r)'
    <2>1. p \in {"limiting", "handling"} => i > 2 /\ n \in (i + 1)..Len(stack)
      <3>1. p \in {"limiting", "handling"} => i # 1 /\ i # n
        BY <1>1, <1>3 DEF Lands
      <3>2. Len(stack) \in Nat
        BY DEF Shape
      <3>3. QED
        BY <1>1, <3>1, <3>2
    <2>2. QED
      BY <1>1, <1>2, <1>4, <2>1 DEF Walks
  <1>10. Answered(r)'
    <2>1. ASSUME NEW a \in Answer, a.what # "envelope", a.what = "notFound" => stack[i] = "notFound"
          PROVE  Says(r, a)'
      <3>1. ASSUME a.what = "notFound", k \in early PROVE k \in {stack[j] : j \in 1..(i - 1)}
        <4>1. PICK j \in 1..Len(stack) :
                  stack[j] = k /\ \A x \in 1..Len(stack) : stack[x] = "notFound" => j < x
          BY <3>1 DEF Built
        <4>2. j < i
          BY <1>1, <2>1, <3>1, <4>1
        <4>3. j \in 1..(i - 1)
          BY <1>1, <4>2
        <4>4. QED
          BY <4>1, <4>3
      <3>2. QED
        BY <1>2, <1>4, <2>1, <3>1 DEF Says
    <2>2. ASSUME NEW a \in Answer, answers[r] = <<a>>, Says(r, a) PROVE Says(r, a)'
      <3>1. phase[r] # "idle"
        BY <1>8, <2>2 DEF RequestInv, Walks
      <3>2. k = kind[r] /\ at[r] \in Nat /\ i \in Nat /\ i >= at[r] + 1
        BY <1>1, <3>1 DEF Shape
      <3>3. {stack[j] : j \in 1..(at[r] - 1)} \subseteq {stack[j] : j \in 1..(i - 1)}
        <4>1. 1..(at[r] - 1) \subseteq 1..(i - 1)
          BY <3>2
        <4>2. QED
          BY <4>1
      <3>4. QED
        BY <1>2, <1>4, <2>2, <3>2, <3>3 DEF Says
    <2>3. Answered(r)
      BY <1>8 DEF RequestInv
    <2>4. CASE answers'[r] = answers[r]
      BY <2>2, <2>3, <2>4 DEF Answered
    <2>5. QED
      BY <1>5, <2>1, <2>4 DEF Answered
  <1>11. Known(r)'
    <2>1. actor'[r] # None => actor'[r] = k
      BY <1>6, <1>8 DEF RequestInv, Walks, Known
    <2>2. reqActor[r] # None => reqActor[r] = k
      BY <1>8 DEF RequestInv, Walks, Known
    <2>3. (p = "handling" /\ k \in Actor /\ stack[i] = "router") => actor'[r] = k /\ can(k, Needed)
      BY <1>3 DEF Lands
    <2>4. QED
      BY <1>2, <1>4, <2>1, <2>2, <2>3 DEF Known
  <1>12. RequestInv(r)'
    BY <1>9, <1>10, <1>11 DEF RequestInv
  <1>13. QED
    BY <1>2, <1>4, <1>5, <1>7, <1>12, OwnStep

\* A request that arrives goes on from the first layer.
LEMMA ArriveKeeps == ASSUME IInv, NEW r \in Request, NEW k \in Asked, Arrive(r, k) PROVE IInv'
  <1>1. k \in Kind /\ phase[r] = "idle" /\ listening
    BY Names DEF Arrive
  <1>2. Go(r, k, 1) /\ kind' = [kind EXCEPT ![r] = k]
    BY DEF Arrive
  <1>3. 1 \in Nat \ {0}
    OBVIOUS
  <1>4. QED
    BY <1>1, <1>2, <1>3, GoKeeps, Zenon

\* It is let through by the limiter or by a handler.
LEMMA PassesKeep == ASSUME IInv, NEW r \in Request, Admit(r) \/ HandlerPasses(r) PROVE IInv'
  <1>1. /\ phase[r] \in {"limiting", "handling"}
        /\ Go(r, kind[r], at[r] + 1) /\ kind' = kind
    BY DEF Admit, HandlerPasses
  <1>2. kind[r] \in Kind /\ kind' = [kind EXCEPT ![r] = kind[r]] /\ at[r] + 1 \in Nat \ {0} /\ listening
    BY <1>1 DEF IInv, Shape, RequestInv, Walks
  <1>3. QED
    BY <1>1, <1>2, GoKeeps

\* Steps after which r is where it was, or further on the way to its end: only its
\* phase and answer change.
LEMMA PhaseKeeps ==
    ASSUME IInv, NEW r \in Request, NEW p, phase[r] # "idle",
           p \in {"reporting", "done"} \/ (p = phase[r]), phase' = [phase EXCEPT ![r] = p],
           UNCHANGED <<server, kind, at, store, actor, reqActor>>,
           \/ answers' = answers
           \/ /\ answers' \in [Request -> Seq(Answer)] /\ \A q \in Request \ {r} : answers'[q] = answers[q]
              /\ \E a \in Answer : answers'[r] = <<a>> /\ Says(r, a)
    PROVE  IInv'
  <1> USE DEF IInv
  <1>1. UNCHANGED <<boot, stack, finalized, listening, early>>
    BY DEF server
  <1>2. /\ phase'[r] = p /\ p \in PhaseName \ {"idle"}
        /\ \A q \in Request \ {r} : phase'[q] = phase[q] /\ answers'[q] = answers[q]
    BY DEF Shape, PhaseName
  <1>3. Shape'
    BY <1>1, <1>2 DEF Shape
  <1>4. Walks(r)'
    BY <1>1, <1>2 DEF RequestInv, Walks
  <1>5. Answered(r)'
    <2>1. \A a \in Answer : Says(r, a) => Says(r, a)'
      BY <1>1 DEF Says
    <2>2. QED
      BY <2>1 DEF RequestInv, Answered
  <1>6. Known(r)'
    BY <1>1, <1>2 DEF RequestInv, Known
  <1>7. RequestInv(r)'
    BY <1>4, <1>5, <1>6 DEF RequestInv
  <1>8. QED
    BY <1>2, <1>3, <1>7, OwnStep

\* The limiter refuses it.
LEMMA LimitKeeps == ASSUME IInv, NEW r \in Request, Limit(r) PROVE IInv'
  <1>1. /\ phase[r] # "idle" /\ phase' = [phase EXCEPT ![r] = "reporting"] /\ answers' = answers
        /\ UNCHANGED <<server, kind, at, store, actor, reqActor>>
    BY DEF Limit, Fail, actors
  <1>2. QED
    BY <1>1, PhaseKeeps

\* Global middleware learns who asks, of its own request.
LEMMA AuthenticatesKeeps == ASSUME IInv, NEW r \in Request, Authenticates(r) PROVE IInv'
  <1> USE DEF IInv
  <1>1. /\ phase[r] = "handling" /\ stack[at[r]] = "global" /\ kind[r] \in Actor
        /\ reqActor' = reqActor \/ reqActor' = [reqActor EXCEPT ![r] = kind[r]]
        /\ actor' = actor \/ setActor(r, kind[r])
        /\ UNCHANGED <<server, phase, kind, at, store, answers>>
    BY DEF Authenticates
  <1>2. UNCHANGED <<boot, stack, finalized, listening, early>>
    BY <1>1 DEF server
  <1>3. store[r] = r /\ r # None
    BY <1>1, Names DEF RequestInv, Walks
  <1>4. actor' = actor \/ actor' = [actor EXCEPT ![r] = kind[r]]
    BY <1>1, <1>3 DEF setActor
  <1>5. Shape'
    BY <1>1, <1>2, <1>4 DEF Shape
  <1>6. Walks(r)' /\ Answered(r)'
    BY <1>1, <1>2 DEF RequestInv, Walks, Answered, Says
  <1>7. Known(r)'
    BY <1>1, <1>2, <1>4 DEF RequestInv, Known, Shape
  <1>8. \A q \in Request \ {r} : actor'[q] = actor[q] /\ reqActor'[q] = reqActor[q]
    BY <1>1, <1>4 DEF Shape
  <1>9. RequestInv(r)'
    BY <1>6, <1>7 DEF RequestInv
  <1>10. QED
    BY <1>1, <1>5, <1>8, <1>9, OwnStep

\* A handler writes, ends, returns or throws.
LEMMA HandlerKeeps ==
    ASSUME IInv, NEW r \in Request,
           HandlerWrites(r) \/ HandlerEnds(r) \/ HandlerReturns(r) \/ HandlerThrows(r)
    PROVE  IInv'
  <1>1. UNCHANGED <<server, kind, at, store, actor, reqActor>> /\ phase[r] \in {"handling", "reporting"}
    BY DEF HandlerWrites, HandlerEnds, HandlerReturns, HandlerThrows, actors
  <1>2. phase = [phase EXCEPT ![r] = phase[r]]
    BY DEF IInv, Shape
  <1>3. CASE HandlerWrites(r)
    <2>1. Write(r, at[r], "ok", None) /\ answers[r] = <<>> /\ phase' = phase
      BY <1>3 DEF HandlerWrites, Begun
    <2>2. PICK a : a = Response(at[r], "ok", None)
      OBVIOUS
    <2>3. a \in Answer /\ Says(r, a)
      BY <2>2, ResponseShape DEF Says
    <2>5. answers' = [answers EXCEPT ![r] = Append(@, a)]
      BY <2>1, <2>2 DEF Write, Response
    <2>6. /\ answers' \in [Request -> Seq(Answer)] /\ \A q \in Request \ {r} : answers'[q] = answers[q]
          /\ answers'[r] = <<a>>
      BY <2>1, <2>3, <2>5, WriteIsFirst DEF IInv
    <2>4. QED
      BY <1>1, <1>2, <2>1, <2>3, <2>6, PhaseKeeps
  <1>4. CASE HandlerEnds(r)
    BY <1>1, <1>2, <1>4, PhaseKeeps DEF HandlerEnds
  <1>5. CASE HandlerReturns(r)
    BY <1>1, <1>5, PhaseKeeps DEF HandlerReturns
  <1>6. CASE HandlerThrows(r)
    BY <1>1, <1>6, PhaseKeeps DEF HandlerThrows, Caught, Fail
  <1>7. QED
    BY <1>3, <1>4, <1>5, <1>6

\* The error handler reports, renders under the id of the store, or fails itself.
LEMMA ReportsKeep ==
    ASSUME IInv, NEW r \in Request, Report(r) \/ Render(r) \/ ReporterThrows(r) PROVE IInv'
  <1>1. UNCHANGED <<server, kind, at, store, actor, reqActor>> /\ phase[r] = "reporting"
    BY DEF Report, Render, ReporterThrows, actors
  <1>2. phase = [phase EXCEPT ![r] = phase[r]]
    BY DEF IInv, Shape
  <1>3. CASE Report(r)
    BY <1>1, <1>2, <1>3, PhaseKeeps DEF Report
  <1>4. CASE Render(r)
    <2>1. phase' = [phase EXCEPT ![r] = "done"]
      BY <1>4 DEF Render
    <2>2. CASE answers' = answers
      BY <1>1, <2>1, <2>2, PhaseKeeps
    <2>3. CASE Write(r, at[r], "envelope", store[r]) /\ answers[r] = <<>>
      <3>1. at[r] \in 1..Len(stack) /\ at[r] # 2 /\ store[r] = IF at[r] > 2 THEN r ELSE None
        BY <1>1 DEF IInv, RequestInv, Walks
      <3>2. "context" \in Headers(at[r]) <=> at[r] > 2
        <4>1. Len(stack) \in Nat
          BY DEF IInv, Shape
        <4>2. \A j \in 1..(at[r] - 1) : stack[j] = "context" <=> j = 2
          BY <3>1, <4>1 DEF IInv, Built
        <4>3. "context" \in Headers(at[r]) <=> \E j \in 1..(at[r] - 1) : stack[j] = "context"
          BY DEF Headers
        <4>4. 2 \in 1..(at[r] - 1) <=> at[r] > 2
          BY <3>1, <4>1
        <4>5. QED
          BY <4>2, <4>3, <4>4
      <3>3. PICK a : a = Response(at[r], "envelope", store[r])
        OBVIOUS
      <3>4. a \in Answer /\ Says(r, a)
        <4>1. store[r] \in Request \cup {None}
          BY DEF IInv, Shape
        <4>2. /\ a \in Answer /\ a.what = "envelope" /\ a.id = store[r] /\ a.headers = Headers(at[r])
          BY <3>3, <4>1, ResponseShape
        <4>3. QED
          BY <3>1, <3>2, <4>2 DEF Says
      <3>5. answers' = [answers EXCEPT ![r] = Append(@, a)]
        BY <2>3, <3>3 DEF Write, Response
      <3>6. /\ answers' \in [Request -> Seq(Answer)] /\ \A q \in Request \ {r} : answers'[q] = answers[q]
            /\ answers'[r] = <<a>>
        BY <2>3, <3>4, <3>5, WriteIsFirst DEF IInv
      <3>7. QED
        BY <1>1, <2>1, <3>4, <3>6, PhaseKeeps
    <2>4. QED
      BY <1>4, <2>2, <2>3 DEF Render, MayWrite, Begun
  <1>5. CASE ReporterThrows(r)
    <2>1. phase' = [phase EXCEPT ![r] = "done"]
      BY <1>5 DEF ReporterThrows
    <2>2. CASE answers' = answers
      BY <1>1, <2>1, <2>2, PhaseKeeps
    <2>3. CASE Write(r, at[r], "page", None) /\ answers[r] = <<>>
      <3>1. PICK a : a = Response(at[r], "page", None)
        OBVIOUS
      <3>2. a \in Answer /\ Says(r, a)
        BY <3>1, ResponseShape DEF Says
      <3>3. answers' = [answers EXCEPT ![r] = Append(@, a)]
        BY <2>3, <3>1 DEF Write, Response
      <3>4. /\ answers' \in [Request -> Seq(Answer)] /\ \A q \in Request \ {r} : answers'[q] = answers[q]
            /\ answers'[r] = <<a>>
        BY <2>3, <3>2, <3>3, WriteIsFirst DEF IInv
      <3>5. QED
        BY <1>1, <2>1, <3>2, <3>4, PhaseKeeps
    <2>4. QED
      BY <1>5, <2>2, <2>3 DEF ReporterThrows, Begun
  <1>6. QED
    BY <1>3, <1>4, <1>5

-----------------------------------------------------------------------------
(* The application                                                           *)

\* An application that is yet to be created.
LEMMA Initially == Init => IInv
  <1> SUFFICES ASSUME Init PROVE IInv
    OBVIOUS
  <1>1. Shape
    <2>1. <<>> \in Seq(Layer) /\ <<>> \in Seq(Answer)
      OBVIOUS
    <2>2. /\ phase \in [Request -> PhaseName] /\ kind \in [Request -> Kind]
          /\ at \in [Request -> Nat] /\ answers \in [Request -> Seq(Answer)]
      BY <2>1 DEF Init, PhaseName, Kind
    <2>3. /\ store \in [Request -> Request \cup {None}]
          /\ actor \in [Request -> Actor \cup {None}] /\ reqActor \in [Request -> Actor \cup {None}]
      BY DEF Init
    <2>4. QED
      BY <2>1, <2>2, <2>3 DEF Init, Shape
  <1>2. Built
    BY DEF Init, Built, Http
  <1>3. \A r \in Request : RequestInv(r)
    BY DEF Init, RequestInv, Walks, Answered, Known
  <1>4. QED
    BY <1>1, <1>2, <1>3 DEF IInv

\* Every step keeps the invariant.
LEMMA StepKeeps == IInv /\ [Next]_vars => IInv'
  <1> SUFFICES ASSUME IInv, [Next]_vars PROVE IInv'
    OBVIOUS
  <1>1. CASE CreateHttp \/ CreateHttpFails \/ LoadMiddleware \/ LoadRoutes \/ Ready
    BY <1>1, CreateKeeps, MiddlewareKeeps, RoutesKeep, ReadyKeeps
  <1>2. CASE Finalize \/ Listen
    <2>1. CASE Http
      <3>1. /\ boot = "ready" /\ stack' = stack \o FinalHandlers /\ finalized' = TRUE
            /\ listening' \in BOOLEAN /\ (listening => listening') /\ UNCHANGED <<boot, early, clients>>
        BY <1>2, <2>1 DEF Finalize, Listen, Adds, IInv, Shape
      <3>2. QED
        BY <2>1, <3>1, FinalKeeps
    <2>2. CASE ~Http
      <3>1. /\ boot = "ready" /\ stack' = stack /\ ~finalized'
            /\ UNCHANGED <<boot, listening, early, clients>>
        BY <1>2, <2>2 DEF Finalize, Listen, Adds
      <3>2. ~finalized /\ finalized \in BOOLEAN /\ finalized' \in BOOLEAN
        BY <1>2, <2>2 DEF Finalize, Listen, Http, IInv, Built, Shape
      <3>3. QED
        BY <3>1, <3>2, BootKeeps
    <2>3. QED
      BY <2>1, <2>2
  <1>3. ASSUME NEW m \in Mount, Mounts(m) PROVE IInv'
    BY <1>3, MountsKeep
  <1>4. ASSUME NEW r \in Request, NEW k \in Asked, Arrive(r, k) PROVE IInv'
    BY <1>4, ArriveKeeps
  <1>5. ASSUME NEW r \in Request, Limits(r) PROVE IInv'
    BY <1>5, PassesKeep, LimitKeeps DEF Limits
  <1>6. ASSUME NEW r \in Request, Handles(r) PROVE IInv'
    BY <1>6, PassesKeep, AuthenticatesKeeps, HandlerKeeps DEF Handles
  <1>7. ASSUME NEW r \in Request, Reports(r) \/ Render(r) PROVE IInv'
    BY <1>7, ReportsKeep DEF Reports
  <1>8. CASE UNCHANGED vars
    <2>1. UNCHANGED <<boot, stack, finalized, listening, early, clients>>
      BY <1>8 DEF vars, server
    <2>2. UNCHANGED <<phase, kind, at, store, actor, reqActor, answers>>
      BY <2>1 DEF clients, actors
    <2>3. Shape' /\ Built'
      BY <2>1, <2>2 DEF IInv, Shape, Built, Http
    <2>4. \A r \in Request : RequestInv(r)'
      BY <2>1, <2>2 DEF IInv, RequestInv, Walks, Answered, Says, Known
    <2>5. QED
      BY <2>3, <2>4 DEF IInv
  <1>9. QED
    BY <1>1, <1>2, <1>3, <1>4, <1>5, <1>6, <1>7, <1>8 DEF Next

\* The invariant, in every state the application can reach.
THEOREM PipelineIsInvariant == Spec => []IInv
  BY Initially, StepKeeps, PTL DEF Spec

\* However late a handler answers and however long reporters take, nothing is
\* answered twice (errorHandler).
THEOREM OneAnswerEach == Spec => []AnsweredOnce
  <1>1. ASSUME IInv, NEW r \in Request PROVE Len(answers[r]) <= 1
    <2>1. answers[r] = <<>> \/ \E a \in Answer : answers[r] = <<a>>
      BY <1>1 DEF IInv, RequestInv, Answered
    <2>2. CASE answers[r] = <<>>
      BY <2>2
    <2>3. ASSUME NEW a \in Answer, answers[r] = <<a>> PROVE Len(answers[r]) <= 1
      BY <2>3
    <2>4. QED
      BY <2>1, <2>2, <2>3
  <1>2. IInv => AnsweredOnce
    BY <1>1 DEF AnsweredOnce
  <1>3. QED
    BY <1>2, PipelineIsInvariant, PTL

\* An error body shows the id of its own request, however requests interleave
\* (runWithContext, errorHandler).
THEOREM OwnIdInErrors == Spec => []EnvelopeHasOwnId
  <1>1. ASSUME IInv, NEW r \in Request, NEW a \in Sent(r), a.what = "envelope"
        PROVE  a.id = IF "context" \in a.headers THEN r ELSE None
    BY <1>1 DEF IInv, RequestInv, Answered, Says, Sent, Range
  <1>2. IInv => EnvelopeHasOwnId
    BY <1>1 DEF EnvelopeHasOwnId
  <1>3. QED
    BY <1>2, PipelineIsInvariant, PTL

\* What is mounted before the final handlers is asked before they answer
\* (Kinara.mount, finalizeHttp).
THEOREM MountsComeFirst == Spec => []MountedIsReached
  <1>1. ASSUME IInv, NEW r \in Request, NEW a \in Sent(r), a.what = "notFound", kind[r] \in early
        PROVE  kind[r] \in {stack[i] : i \in 1..(at[r] - 1)}
    BY <1>1 DEF IInv, RequestInv, Answered, Says, Sent, Range
  <1>2. IInv => MountedIsReached
    BY <1>1 DEF MountedIsReached
  <1>3. QED
    BY <1>2, PipelineIsInvariant, PTL

\* Behind authorize() a handler runs as the actor of its own request, who holds the
\* permission (authorize, setActor).
THEOREM GuardKnowsItsActor == Spec => []GuardedRunsAsItself
  <1>1. ASSUME IInv, NEW r \in Request,
               phase[r] = "handling", kind[r] \in Actor, stack[at[r]] = "router"
        PROVE  getActor(r) = kind[r] /\ can(kind[r], Needed)
    <2>1. store[r] = r /\ r # None
      BY <1>1, Names DEF IInv, RequestInv, Walks
    <2>2. actor[r] = kind[r] /\ can(kind[r], Needed)
      BY <1>1 DEF IInv, RequestInv, Known
    <2>3. QED
      BY <2>1, <2>2 DEF getActor
  <1>2. IInv => GuardedRunsAsItself
    BY <1>1 DEF GuardedRunsAsItself
  <1>3. QED
    BY <1>2, PipelineIsInvariant, PTL

-----------------------------------------------------------------------------
(* Types                                                                     *)

\* Each layer stands in the stack once, and none before its turn comes.
Once ==
    /\ IsInjective(stack)
    /\ boot \in {"create", "register"} => \A i \in 1..Len(stack) : stack[i] # "global"
    /\ boot \in {"create", "register", "routes"} => \A i \in 1..Len(stack) : stack[i] # "router"
    /\ ~finalized => \A i \in 1..Len(stack) : stack[i] \notin {"notFound", "error"}

\* What Shape leaves out: errors are those that are mapped, and no error is
\* reported more often than there are reporters.
Bounded ==
    /\ fault \in [Request -> DOMAIN Mapped \cup {None}]
    /\ ended \subseteq Request
    /\ reports \in [Request -> 0..Reporters]

\* The names of the errors the framework itself throws.
LEMMA OwnErrors ==
    {"limited", "badBody", "badCookie", "unknown", "forbidden", "plain"} \cup Thrown \subseteq DOMAIN Mapped
  BY PipelineAssumption DEF Mapped

\* Two lists that have nothing twice and nothing in common, one behind the other.
LEMMA JoinedOnce ==
    ASSUME NEW s \in Seq(Layer), NEW t \in Seq(Layer), IsInjective(s), IsInjective(t),
           \A i \in 1..Len(s), j \in 1..Len(t) : s[i] # t[j]
    PROVE  /\ s \o t \in Seq(Layer) /\ IsInjective(s \o t)
           /\ \A l : (\A i \in 1..Len(s) : s[i] # l) /\ (\A j \in 1..Len(t) : t[j] # l)
                        => \A i \in 1..Len(s \o t) : (s \o t)[i] # l
  <1> DEFINE u == s \o t
  <1>1. /\ u \in Seq(Layer) /\ Len(u) = Len(s) + Len(t) /\ Len(s) \in Nat /\ Len(t) \in Nat
        /\ \A i \in 1..(Len(s) + Len(t)) : u[i] = IF i <= Len(s) THEN s[i] ELSE t[i - Len(s)]
    BY ConcatProperties
  <1> HIDE DEF u
  <1>2. ASSUME NEW i \in 1..Len(u)
        PROVE  \/ i \in 1..Len(s) /\ u[i] = s[i]
               \/ ~(i <= Len(s)) /\ i - Len(s) \in 1..Len(t) /\ u[i] = t[i - Len(s)]
    BY <1>1
  <1>3. /\ \A i, j \in 1..Len(s) : s[i] = s[j] => i = j
        /\ \A i, j \in 1..Len(t) : t[i] = t[j] => i = j
    BY DEF IsInjective
  <1>4. ASSUME NEW i \in 1..Len(u), NEW j \in 1..Len(u), u[i] = u[j] PROVE i = j
    <2>1. CASE i \in 1..Len(s) /\ j \in 1..Len(s)
      BY <1>1, <1>3, <1>4, <2>1
    <2>2. CASE ~(i <= Len(s)) /\ ~(j <= Len(s))
      <3>1. i - Len(s) = j - Len(s)
        BY <1>2, <1>3, <1>4, <2>2
      <3>2. QED
        BY <1>1, <3>1
    <2>3. CASE i <= Len(s) /\ ~(j <= Len(s))
      BY <1>2, <1>4, <2>3
    <2>5. CASE ~(i <= Len(s)) /\ j <= Len(s)
      BY <1>2, <1>4, <2>5
    <2>4. QED
      BY <1>1, <2>1, <2>2, <2>3, <2>5
  <1>5. DOMAIN u = 1..Len(u)
    BY <1>1
  <1>6. IsInjective(u)
    BY <1>4, <1>5 DEF IsInjective
  <1>7. QED
    BY <1>1, <1>2, <1>6 DEF u

\* createApp names none of its first layers twice.
LEMMA OrderOnce ==
    ASSUME NEW features
    PROVE  /\ IsInjective(Order(features))
           /\ \A i \in 1..Len(Order(features)) :
                 Order(features)[i] \notin {"global", "router", "notFound", "error"}
  <1> DEFINE P == <<"parsers", "context", "security">>
             A == Optional("cors", features)
             B == Optional("cookies", features)
             C == Optional("limiter", features)
             D == Optional("health", features)
             Is(s, L) == /\ s \in Seq(Layer) /\ IsInjective(s)
                         /\ \A l : l \notin L => \A i \in 1..Len(s) : s[i] # l
  <1>1. Is(P, {"parsers", "context", "security"})
    BY DEF Layer, Framework, IsInjective
  <1>2. ASSUME NEW l \in Feature PROVE Is(Optional(l, features), {l})
    <2>1. Is(<<>>, {l}) /\ Is(<<l>>, {l})
      BY DEF Layer, IsInjective
    <2>2. QED
      BY <2>1 DEF Optional
  <1>3. ASSUME NEW s, NEW t, NEW L, NEW M, Is(s, L), Is(t, M), L \cap M = {}
        PROVE  Is(s \o t, L \cup M)
    <2>1. \A i \in 1..Len(s), j \in 1..Len(t) : s[i] # t[j]
      <3>1. ASSUME NEW i \in 1..Len(s), NEW j \in 1..Len(t), s[i] = t[j] PROVE FALSE
        <4>1. s[i] \in L /\ t[j] \in M
          BY <1>3
        <4>2. QED
          BY <1>3, <3>1, <4>1
      <3>2. QED
        BY <3>1
    <2>2. QED
      BY <1>3, <2>1, JoinedOnce
  <1>4. {"cors", "cookies", "limiter", "health"} = Feature
    BY DEF Feature
  <1>5. Is(A, {"cors"}) /\ Is(B, {"cookies"}) /\ Is(C, {"limiter"}) /\ Is(D, {"health"})
    BY <1>2, <1>4
  <1> DEFINE Q == A \o B \o C \o D
  <1>6. Order(features) = P \o Q
    BY DEF Order
  <1> HIDE DEF P, A, B, C, D, Is
  <1>7. Is(A \o B, {"cors", "cookies"})
    <2>1. {"cors"} \cap {"cookies"} = {} /\ {"cors"} \cup {"cookies"} = {"cors", "cookies"}
      OBVIOUS
    <2>2. Is(A \o B, {"cors"} \cup {"cookies"})
      BY <1>3, <1>5, <2>1
    <2>3. QED
      BY <2>1, <2>2
  <1>8. Is((A \o B) \o C, {"cors", "cookies", "limiter"})
    <2>1. {"cors", "cookies"} \cap {"limiter"} = {}
          /\ {"cors", "cookies"} \cup {"limiter"} = {"cors", "cookies", "limiter"}
      OBVIOUS
    <2>2. Is((A \o B) \o C, {"cors", "cookies"} \cup {"limiter"})
      BY <1>3, <1>5, <1>7, <2>1
    <2>3. QED
      BY <2>1, <2>2
  <1>9. Is(Q, Feature)
    <2>1. {"cors", "cookies", "limiter"} \cap {"health"} = {}
          /\ {"cors", "cookies", "limiter"} \cup {"health"} = Feature
      BY DEF Feature
    <2>2. Is(((A \o B) \o C) \o D, {"cors", "cookies", "limiter"} \cup {"health"})
      BY <1>3, <1>5, <1>8, <2>1
    <2>3. QED
      BY <2>1, <2>2
  <1> HIDE DEF Q
  <1> DEFINE F == {"parsers", "context", "security"}
  <1>10. Is(P \o Q, F \cup Feature)
    <2>1. F \cap Feature = {}
      BY DEF Feature
    <2>2. QED
      BY <1>1, <1>3, <1>9, <2>1
  <1>11. {"global", "router", "notFound", "error"} \cap (F \cup Feature) = {}
    BY DEF Feature
  <1>12. QED
    BY <1>6, <1>10, <1>11 DEF Is

\* What goes behind the stack stands there once if it is new there and its turn has come.
LEMMA AddsOnce ==
    ASSUME Shape, Once, NEW t \in Seq(Layer), stack' = stack \o t, IsInjective(t),
           \A i \in 1..Len(stack), j \in 1..Len(t) : stack[i] # t[j],
           boot' \in {"create", "register"} =>
               boot \in {"create", "register"} /\ \A j \in 1..Len(t) : t[j] # "global",
           boot' \in {"create", "register", "routes"} =>
               boot \in {"create", "register", "routes"} /\ \A j \in 1..Len(t) : t[j] # "router",
           ~finalized' => ~finalized /\ \A j \in 1..Len(t) : t[j] \notin {"notFound", "error"}
    PROVE  Once'
  <1>1. stack \in Seq(Layer) /\ IsInjective(stack)
    BY DEF Shape, Once
  <1>2. IsInjective(stack')
    BY <1>1, JoinedOnce
  <1>3. \A l : (\A i \in 1..Len(stack) : stack[i] # l) /\ (\A j \in 1..Len(t) : t[j] # l)
                  => \A i \in 1..Len(stack') : stack'[i] # l
    BY <1>1, JoinedOnce
  <1>4. boot' \in {"create", "register"} => \A i \in 1..Len(stack') : stack'[i] # "global"
    BY <1>3 DEF Once
  <1>5. boot' \in {"create", "register", "routes"} => \A i \in 1..Len(stack') : stack'[i] # "router"
    BY <1>3 DEF Once
  <1>6. ~finalized' => \A i \in 1..Len(stack') : stack'[i] \notin {"notFound", "error"}
    <2>1. ASSUME ~finalized' PROVE \A i \in 1..Len(stack') : stack'[i] # "notFound" /\ stack'[i] # "error"
      BY <1>3, <2>1 DEF Once
    <2>2. QED
      BY <2>1
  <1>7. QED
    BY <1>2, <1>4, <1>5, <1>6 DEF Once

\* One layer, or none.
LEMMA ShortOnce ==
    /\ \A l \in Layer : <<l>> \in Seq(Layer) /\ IsInjective(<<l>>) /\ \A j \in 1..Len(<<l>>) : <<l>>[j] = l
    /\ <<>> \in Seq(Layer) /\ IsInjective(<<>>) /\ Len(<<>>) = 0
  BY DEF IsInjective

\* Building the stack keeps it so: createApp adds what it has not added yet, the
\* program mounts nothing twice, and the final handlers are added once.
LEMMA StackStep ==
    ASSUME IInv, Once,
           \/ CreateHttp \/ CreateHttpFails \/ LoadMiddleware \/ LoadRoutes \/ Ready \/ Finalize \/ Listen
           \/ \E m \in Mount : Mounts(m)
    PROVE  Once'
  <1> USE DEF IInv
  <1>0. CASE ~Http /\ stack' = stack
    <2>1. Len(stack) = 0 /\ Len(stack') = 0 /\ IsInjective(stack')
      BY <1>0 DEF Http, Once
    <2>2. QED
      BY <2>1 DEF Once
  <1>1. CASE CreateHttp
    <2>1. PICK features \in FeatureSets : stack' = Order(features)
      BY <1>1 DEF CreateHttp
    <2>2. QED
      BY <2>1, OrderOnce DEF Once
  <1>2. ASSUME NEW m \in Mount, Mounts(m) PROVE Once'
    <2>1. /\ m \in Layer /\ m \notin Framework /\ \A i \in 1..Len(stack) : stack[i] # m
          /\ stack' = stack \o <<m>> /\ boot' = boot /\ finalized' = finalized
      BY <1>2, Names DEF Mounts, Layer, Shape, Range
    <2>2. m \notin {"global", "router", "notFound", "error"}
      BY <2>1 DEF Framework
    <2>3. \A i \in 1..Len(stack), j \in 1..Len(<<m>>) : stack[i] # <<m>>[j]
      BY <2>1, ShortOnce
    <2>4. \A j \in 1..Len(<<m>>) : <<m>>[j] \notin {"global", "router", "notFound", "error"}
      BY <2>1, <2>2, ShortOnce
    <2>5. PICK t \in Seq(Layer) : t = <<m>>
      BY <2>1, ShortOnce
    <2>6. /\ \A i \in 1..Len(stack), j \in 1..Len(t) : stack[i] # t[j]
          /\ \A j \in 1..Len(t) : t[j] \notin {"global", "router", "notFound", "error"}
          /\ IsInjective(t) /\ stack' = stack \o t
      BY <2>1, <2>3, <2>4, <2>5, ShortOnce
    <2>7. QED
      BY <2>1, <2>6, AddsOnce
  <1>3. CASE LoadMiddleware
    <2>1. /\ boot = "register" /\ boot' = "routes" /\ finalized' = finalized
          /\ \A i \in 1..Len(stack) : stack[i] # "global"
      BY <1>3 DEF LoadMiddleware, Once
    <2>2. PICK t \in {<<>>, <<"global">>} : Adds(t)
      BY <1>3 DEF LoadMiddleware
    <2>3. "global" \in Layer
      BY DEF Layer, Framework
    <2>4. t \in Seq(Layer) /\ IsInjective(t) /\ \A j \in 1..Len(t) : t[j] = "global"
      <3>1. CASE t = <<>>
        BY <3>1, ShortOnce
      <3>2. CASE t = <<"global">>
        BY <2>3, <3>2, ShortOnce
      <3>3. QED
        BY <3>1, <3>2
    <2>5. CASE Http
      <3>1. stack' = stack \o t
        BY <2>2, <2>5 DEF Adds
      <3>2. QED
        BY <2>1, <2>4, <3>1, AddsOnce
    <2>6. QED
      BY <1>0, <2>2, <2>5 DEF Adds
  <1>4. CASE LoadRoutes /\ Http
    <2>1. /\ boot = "routes" /\ boot' = "providers" /\ finalized' = finalized
          /\ \A i \in 1..Len(stack) : stack[i] # "router"
          /\ stack' = stack \o <<"router">> /\ "router" \in Layer
      BY <1>4 DEF LoadRoutes, Adds, Once, Layer, Framework
    <2>2. PICK t \in Seq(Layer) : t = <<"router">>
      BY <2>1, ShortOnce
    <2>3. IsInjective(t) /\ stack' = stack \o t /\ \A j \in 1..Len(t) : t[j] = "router"
      BY <2>1, <2>2, ShortOnce
    <2>4. QED
      BY <2>1, <2>3, AddsOnce
  <1>5. CASE CreateHttpFails \/ Ready
    BY <1>5 DEF CreateHttpFails, Ready, Once
  <1>6. CASE (Finalize \/ Listen) /\ Http
    <2>1. boot = "ready" /\ boot' = "ready" /\ finalized' /\ stack' = stack \o FinalHandlers
      BY <1>6 DEF Finalize, Listen, Adds
    <2>2. PICK t : t = FinalHandlers
      OBVIOUS
    <2>3. "notFound" \in Layer /\ "error" \in Layer
      BY DEF Layer, Framework
    <2>4. /\ t \in Seq(Layer) /\ IsInjective(t)
          /\ \A i \in 1..Len(stack), j \in 1..Len(t) : stack[i] # t[j]
      <3>1. CASE finalized
        BY <2>2, <3>1, ShortOnce DEF FinalHandlers
      <3>2. CASE ~finalized
        <4>1. t = <<"notFound", "error">>
          BY <2>2, <3>2 DEF FinalHandlers
        <4>2. t \in Seq(Layer) /\ IsInjective(t) /\ \A j \in 1..Len(t) : t[j] \in {"notFound", "error"}
          BY <2>3, <4>1 DEF IsInjective
        <4>3. QED
          BY <3>2, <4>2 DEF Once
      <3>3. QED
        BY <3>1, <3>2 DEF Shape
    <2>5. QED
      BY <2>1, <2>2, <2>4, AddsOnce
  <1>7. QED
    BY <1>0, <1>1, <1>2, <1>3, <1>4, <1>5, <1>6 DEF LoadRoutes, Finalize, Listen, Adds

\* A request goes on: if it fails there, then for a broken body or cookie.
LEMMA GoBounded ==
    ASSUME IInv, Bounded, NEW r \in Request, NEW k \in Kind, NEW from \in Nat \ {0}, listening,
           Go(r, k, from),
           (phase[r] = "idle" /\ from = 1) \/ (phase[r] \in {"limiting", "handling"} /\ from = at[r] + 1)
    PROVE  Bounded'
  <1> DEFINE i == Walk(from, k)
             layer == stack[i]
  <1>1. Stops(layer, k)
    BY GoLands
  <1>2. reports' = reports
    BY DEF Go
  <1>3. fault' = fault \/ \E e \in DOMAIN Mapped : fault' = [fault EXCEPT ![r] = e]
    <2>1. CASE layer \in {"parsers", "cookies"} /\ Fail(r, k)
      <3>1. k \in {"badBody", "badCookie"}
        BY <1>1, <2>1, Names DEF Stops, Framework, Feature
      <3>2. QED
        BY <2>1, <3>1, OwnErrors DEF Fail
    <2>2. CASE Authorize(r)
      BY <2>2, OwnErrors DEF Authorize, Fail
    <2>3. CASE UNCHANGED fault
      BY <2>3
    <2>4. CASE Fail(r, "plain")
      BY <2>4, OwnErrors DEF Fail
    <2>5. QED
      BY <2>1, <2>2, <2>3, <2>4 DEF Go, Tell, Settle
  <1>4. ended' = ended \/ ended' = ended \cup {r}
    BY DEF Go, Tell, Settle
  <1>5. QED
    BY <1>2, <1>3, <1>4 DEF Bounded

\* A step of a request leaves errors and reports within their types.
LEMMA RequestBounded ==
    ASSUME IInv, Bounded, NEW r \in Request,
           (\E k \in Asked : Arrive(r, k)) \/ Limits(r) \/ Handles(r) \/ Reports(r) \/ Render(r)
    PROVE  Bounded'
  <1> USE DEF IInv
  <1>1. ASSUME NEW k \in Asked, Arrive(r, k) PROVE Bounded'
    BY <1>1, GoBounded, Names DEF Arrive
  <1>2. CASE Admit(r) \/ HandlerPasses(r)
    <2>1. phase[r] \in {"limiting", "handling"} /\ Go(r, kind[r], at[r] + 1)
      BY <1>2 DEF Admit, HandlerPasses
    <2>2. listening /\ kind[r] \in Kind /\ at[r] + 1 \in Nat \ {0}
      BY <2>1 DEF RequestInv, Walks, Shape
    <2>3. QED
      BY <2>1, <2>2, GoBounded
  <1>3. CASE Limit(r) \/ HandlerThrows(r)
    <2>1. PICK e \in DOMAIN Mapped : fault' = [fault EXCEPT ![r] = e]
      BY <1>3, OwnErrors DEF Limit, HandlerThrows, Caught, Fail
    <2>2. QED
      BY <1>3, <2>1 DEF Limit, HandlerThrows, Bounded
  <1>4. CASE Authenticates(r) \/ HandlerWrites(r) \/ HandlerEnds(r) \/ HandlerReturns(r)
    BY <1>4 DEF Authenticates, HandlerWrites, HandlerEnds, HandlerReturns, Bounded
  <1>5. CASE Report(r)
    <2>1. Due(r) \in 0..Reporters
      BY PipelineAssumption DEF Due
    <2>2. reports[r] + 1 \in 0..Reporters
      BY <1>5, <2>1, PipelineAssumption DEF Report, Bounded
    <2>3. QED
      BY <1>5, <2>2 DEF Report, Bounded
  <1>6. CASE ReporterThrows(r) \/ Render(r)
    BY <1>6 DEF ReporterThrows, Render, Bounded
  <1>7. QED
    BY <1>1, <1>2, <1>3, <1>4, <1>5, <1>6 DEF Limits, Handles, Reports

\* Every reachable state of the application has its type: no layer is mounted twice,
\* no request stands behind the last layer, and every error is one that is mapped.
THEOREM PipelineTypes == Spec => []TypeOK
  <1>1. Init => Once /\ Bounded
    <2>1. Init => IsInjective(stack) /\ stack = <<>>
      BY DEF Init, IsInjective
    <2>2. Init => Bounded
      BY PipelineAssumption DEF Init, Bounded
    <2>3. QED
      BY <2>1, <2>2 DEF Once
  <1>2. IInv /\ Once /\ Bounded /\ [Next]_vars => (Once /\ Bounded)'
    <2> SUFFICES ASSUME IInv, Once, Bounded, [Next]_vars PROVE (Once /\ Bounded)'
      OBVIOUS
    <2>1. CASE UNCHANGED vars
      BY <2>1 DEF vars, server, clients, Once, Bounded
    <2>2. CASE \/ CreateHttp \/ CreateHttpFails \/ LoadMiddleware \/ LoadRoutes \/ Ready \/ Finalize \/ Listen
               \/ \E m \in Mount : Mounts(m)
      <3>1. UNCHANGED clients
        BY <2>2 DEF CreateHttp, CreateHttpFails, LoadMiddleware, LoadRoutes, Ready, Finalize, Listen, Mounts
      <3>2. Bounded'
        BY <3>1 DEF clients, Bounded
      <3>3. QED
        BY <2>2, <3>2, StackStep
    <2>3. ASSUME NEW r \in Request,
                 (\E k \in Asked : Arrive(r, k)) \/ Limits(r) \/ Handles(r) \/ Reports(r) \/ Render(r)
          PROVE  (Once /\ Bounded)'
      <3>1. UNCHANGED server
        BY <2>3 DEF Arrive, Go, Limits, Admit, Limit, Handles, HandlerPasses, Authenticates, HandlerWrites,
           HandlerEnds, HandlerReturns, HandlerThrows, Reports, Report, ReporterThrows, Render
      <3>2. Once'
        BY <3>1 DEF server, Once
      <3>3. QED
        BY <2>3, <3>2, RequestBounded
    <2>4. QED
      BY <2>1, <2>2, <2>3 DEF Next
  <1>3. IInv /\ Once /\ Bounded => TypeOK
    <2> SUFFICES ASSUME IInv, Once, Bounded PROVE TypeOK
      OBVIOUS
    <2>1. Range(stack) \subseteq Framework \cup Feature \cup Mount
      BY DEF IInv, Shape, Range, Layer
    <2>2. at \in [Request -> 0..Len(stack)]
      <3>1. ASSUME NEW r \in Request PROVE at[r] \in 0..Len(stack)
        BY DEF IInv, RequestInv, Walks, Shape
      <3>2. QED
        BY <3>1 DEF IInv, Shape
    <2>3. QED
      BY <2>1, <2>2 DEF TypeOK, IInv, Shape, PhaseName, Once, Bounded
  <1>4. QED
    BY <1>1, <1>2, <1>3, PipelineIsInvariant, PTL DEF Spec
=============================================================================
