---------------------------- MODULE HttpPipeline ----------------------------
(* One HTTP application (src/http, src/exceptions/handler.ts, src/app.ts):    *)
(* createApp builds a stack of layers, the program mounts more, listen() ends *)
(* it with the two final handlers; then requests walk it.  Between two awaits *)
(* a request walks alone; they interleave in the limiter's store, in handlers *)
(* and in error reporters.  A request stands for its own id, which it brings  *)
(* in x-request-id or is given.  Some are for a route behind authorize(), made *)
(* by an actor whom global middleware makes known.  The envelope response     *)
(* style is modelled.                                                         *)
EXTENDS Integers, Errors, Permissions

CONSTANTS Request,      \* requests
          FeatureSets,  \* the optional layers createApp may be asked for
          Mount,        \* what the program mounts, each served on its own path
          Asked,        \* the kinds of requests that are made
          Thrown,       \* the errors a handler may throw, names of Mapped
          Reporters,    \* how many reporters reportUsing() has added
          Needed        \* the permission the guarded route asks for

Feature == {"cors", "cookies", "limiter", "health"}
Flaw == {"preflight", "badBody", "badCookie"}
Kind == {"health", "route", "nowhere"} \cup Flaw \cup Mount \cup Actor   \* an actor: the guarded route
Framework == {"parsers", "context", "security", "global", "router", "notFound", "error"}

Silent == {"NOT_FOUND", "VALIDATION_ERROR", "UNAUTHORIZED", "FORBIDDEN"}

None == "none"

ASSUME PipelineAssumption ==
    /\ None \notin Request
    /\ FeatureSets \subseteq SUBSET Feature
    /\ Mount \cap ({"health", "route", "nowhere"} \cup Flaw \cup Feature \cup Framework) = {}
    /\ Actor \cap ({"health", "route", "nowhere", "none"} \cup Flaw \cup Mount) = {}
    /\ Asked \subseteq Kind
    /\ Thrown \subseteq DOMAIN Mapped
    /\ Reporters \in Nat

VARIABLES
    boot,       \* how far createApp has come
    stack,      \* the layers, in the order use() got them
    finalized,  \* httpFinalized
    listening,
    early,      \* history: what was mounted before the final handlers
    phase,      \* phase[r]: where request r waits
    kind,       \* kind[r]: what it asks for
    at,         \* at[r]: the layer it is in
    store,      \* store[r]: the request whose store r's async chain holds
    actor,      \* actor[q]: the actor in the store of q
    reqActor,   \* reqActor[r]: req.actor
    fault,      \* fault[r]: the error the error handler got
    answers,    \* answers[r]: the responses written for r
    ended,      \* the requests whose response is complete
    reports     \* reports[r]: how many reporters have handled its error

server == <<boot, stack, finalized, listening, early>>
actors == <<actor, reqActor>>
clients == <<phase, kind, at, store, actors, fault, answers, ended, reports>>
vars == <<server, clients>>

Answer == [what : {"ok", "preflight", "notFound", "envelope", "page"},
           id : Request \cup {None},
           headers : SUBSET {"context", "security", "cors"}]

TypeOK ==
    /\ boot \in {"create", "register", "routes", "providers", "ready"}
    /\ Range(stack) \subseteq Framework \cup Feature \cup Mount
    /\ IsInjective(stack)
    /\ finalized \in BOOLEAN /\ listening \in BOOLEAN
    /\ early \subseteq Mount
    /\ phase \in [Request -> {"idle", "limiting", "handling", "reporting", "done"}]
    /\ kind \in [Request -> Kind]
    /\ at \in [Request -> 0..Len(stack)]
    /\ store \in [Request -> Request \cup {None}]
    /\ actor \in [Request -> Actor \cup {None}] /\ reqActor \in [Request -> Actor \cup {None}]
    /\ fault \in [Request -> DOMAIN Mapped \cup {None}]
    /\ answers \in [Request -> Seq(Answer)]
    /\ ended \subseteq Request
    /\ reports \in [Request -> 0..Reporters]

Init ==
    /\ boot = "create" /\ stack = <<>>
    /\ finalized = FALSE /\ listening = FALSE /\ early = {}
    /\ phase = [r \in Request |-> "idle"] /\ kind = [r \in Request |-> "nowhere"]
    /\ at = [r \in Request |-> 0] /\ store = [r \in Request |-> None]
    /\ actor = [r \in Request |-> None] /\ reqActor = [r \in Request |-> None]
    /\ fault = [r \in Request |-> None]
    /\ answers = [r \in Request |-> <<>>] /\ ended = {}
    /\ reports = [r \in Request |-> 0]

-----------------------------------------------------------------------------
\* Building the stack.

Optional(l, features) == IF l \in features THEN <<l>> ELSE <<>>

Order(features) ==
    <<"parsers", "context", "security">> \o
        (Optional("cors", features) \o Optional("cookies", features)
            \o Optional("limiter", features) \o Optional("health", features))

\* kinara.http is there: createHttp begins the stack with the body parsers.
Http == stack # <<>>

\* createHttp and the layers createApp was asked for.
CreateHttp ==
    /\ boot = "create" /\ boot' = "register"
    /\ \E features \in FeatureSets : stack' = Order(features)
    /\ UNCHANGED <<finalized, listening, early, clients>>

\* createHttp rejects, or HTTP is switched off: createApp goes on without it.
CreateHttpFails ==
    /\ boot = "create" /\ boot' = "register"
    /\ UNCHANGED <<stack, finalized, listening, early, clients>>

\* What is added to the application, if there is one.
Adds(layers) == stack' = IF Http THEN stack \o layers ELSE stack

\* app.use and app.mount, called by a provider or by the program, at any time;
\* without HTTP they throw.
Mounts(m) ==
    /\ Http /\ m \notin Range(stack)
    /\ stack' = Append(stack, m)
    /\ early' = IF finalized THEN early ELSE early \cup {m}
    /\ UNCHANGED <<boot, finalized, listening, clients>>

\* loadNamedMiddleware: the global middleware, if config/middleware.ts names any.
LoadMiddleware ==
    /\ boot = "register" /\ boot' = "routes"
    /\ \E global \in {<<>>, <<"global">>} : Adds(global)
    /\ UNCHANGED <<finalized, listening, early, clients>>

\* loadRoutes: the registrars fill the router, which is mounted last.
LoadRoutes ==
    /\ boot = "routes" /\ boot' = "providers"
    /\ Adds(<<"router">>)
    /\ UNCHANGED <<finalized, listening, early, clients>>

\* finalizeHttp adds them once, whoever calls it again.
FinalHandlers == IF finalized THEN <<>> ELSE <<"notFound", "error">>

\* Faulty: createApp adds the final handlers itself.
ReadyFinalizes ==
    /\ boot = "providers" /\ boot' = "ready"
    /\ Adds(FinalHandlers)
    /\ UNCHANGED <<finalized, listening, early, clients>>

\* The providers have booted and createApp returns.
Ready ==
    /\ boot = "providers" /\ boot' = "ready"
    /\ UNCHANGED <<stack, finalized, listening, early, clients>>

Finalize ==
    /\ boot = "ready"
    /\ Adds(FinalHandlers) /\ finalized' = Http
    /\ UNCHANGED <<boot, listening, early, clients>>

\* Without HTTP listen() rejects.
Listen ==
    /\ boot = "ready" /\ Http
    /\ Adds(FinalHandlers) /\ finalized' = TRUE
    /\ listening' = TRUE
    /\ UNCHANGED <<boot, early, clients>>

-----------------------------------------------------------------------------
\* A request walks the stack.

\* The layers that do not just call next(): they answer, fail, wait or handle.
Stops(l, k) ==
    \/ l = "parsers" /\ k = "badBody"
    \/ l = "cors" /\ k = "preflight"
    \/ l = "cookies" /\ k = "badCookie"
    \/ l = "health" /\ k = "health"
    \/ l = "router" /\ k \in {"route"} \cup Flaw \cup Actor
    \/ l \in Mount /\ l = k
    \/ l \in {"limiter", "global", "notFound"}

Walk(from, k) == CHOOSE i \in from..Len(stack) :
    Stops(stack[i], k) /\ \A j \in from..(i - 1) : ~Stops(stack[j], k)

\* What the layers before layer i have set on the response.
Headers(i) == {stack[j] : j \in 1..(i - 1)} \cap {"context", "security", "cors"}

\* A write to the response by layer i; id is the request id its body shows.
Write(r, i, what, id) ==
    answers' = [answers EXCEPT ![r] = Append(@, [what |-> what, id |-> id, headers |-> Headers(i)])]

Begun(r) == answers[r] # <<>>

\* Faulty: the id in a variable of the module, the same for every request.
BindAll(r) == [q \in Request |-> r]

\* runWithContext: the id is bound in the async chain of this request alone.
Bind(r) == [store EXCEPT ![r] = r]

\* The error handler is called: report() begins.
Fail(r, e) ==
    /\ fault' = [fault EXCEPT ![r] = e]
    /\ phase' = [phase EXCEPT ![r] = "reporting"]

Settle(r) ==
    /\ phase' = [phase EXCEPT ![r] = "done"] /\ ended' = ended \cup {r}
    /\ UNCHANGED fault

\* Layer i answers by itself; its headers can no longer be set when an answer has begun,
\* and that is thrown.
Tell(r, i, what) ==
    \/ ~Begun(r) /\ Write(r, i, what, None) /\ Settle(r)
    \/ Begun(r) /\ Fail(r, "plain") /\ UNCHANGED <<answers, ended>>

\* getActor: the actor in the store that the async chain of r holds.
getActor(r) == IF store[r] = None THEN None ELSE actor[store[r]]

\* Faulty: the gate lets the handler find its own actor.
CheckOnly(r, who) == UNCHANGED actor

\* setActor, where a context is.
setActor(r, who) ==
    actor' = IF store[r] = None THEN actor ELSE [actor EXCEPT ![store[r]] = who]

\* authorize(Needed), in front of the guarded route.
Authorize(r) ==
    LET who == IF reqActor[r] # None THEN reqActor[r] ELSE getActor(r) IN
    \/ who = None /\ Fail(r, "unknown") /\ UNCHANGED actor
    \/ who # None /\ ~can(who, Needed) /\ Fail(r, "forbidden") /\ UNCHANGED actor
    \/ /\ who # None /\ can(who, Needed) /\ setActor(r, who)
       /\ phase' = [phase EXCEPT ![r] = "handling"] /\ UNCHANGED fault

\* Request r goes on from layer `from` to the next one that stops it.
Go(r, k, from) ==
    LET i == Walk(from, k)
        layer == stack[i]
    IN  /\ at' = [at EXCEPT ![r] = i]
        /\ store' = IF \E j \in from..(i - 1) : stack[j] = "context" THEN Bind(r) ELSE store
        /\ \/ /\ layer \in {"parsers", "cookies"}
              /\ Fail(r, k) /\ UNCHANGED <<answers, ended, actor>>
           \/ layer = "cors" /\ Tell(r, i + 1, "preflight") /\ UNCHANGED actor
           \/ layer = "health" /\ Tell(r, i, "ok") /\ UNCHANGED actor
           \/ layer = "notFound" /\ Tell(r, i, "notFound") /\ UNCHANGED actor
           \/ layer = "router" /\ k \in Actor /\ Authorize(r) /\ UNCHANGED <<answers, ended>>
           \/ /\ layer \in {"limiter", "global", "router"} \cup Mount
              /\ layer = "router" => k \notin Actor
              /\ phase' = [phase EXCEPT ![r] = IF layer = "limiter" THEN "limiting" ELSE "handling"]
              /\ UNCHANGED <<fault, answers, ended, actor>>
        /\ UNCHANGED <<server, reports, reqActor>>

\* A request arrives; the body parsers, the first layer, have read its body.
Arrive(r, k) ==
    /\ listening /\ phase[r] = "idle"
    /\ kind' = [kind EXCEPT ![r] = k]
    /\ Go(r, k, 1)

\* The rate limiter has heard from its store (RateLimiter says what it decides).
Admit(r) == phase[r] = "limiting" /\ Go(r, kind[r], at[r] + 1) /\ UNCHANGED kind

Limit(r) ==
    /\ phase[r] = "limiting" /\ Fail(r, "limited")
    /\ UNCHANGED <<server, kind, at, store, actors, answers, ended, reports>>

-----------------------------------------------------------------------------
\* A handler the program wrote: a route, something mounted, global middleware.

\* It calls next(), or rejects with undefined, which handle() passes to next() as it
\* is: the walk goes on, also when an answer has begun.
HandlerPasses(r) ==
    /\ phase[r] = "handling"
    /\ Go(r, kind[r], at[r] + 1) /\ UNCHANGED kind

\* Global middleware learns who makes the request: it calls setActor or sets
\* req.actor.  Its next() may come later.
Authenticates(r) ==
    /\ phase[r] = "handling" /\ stack[at[r]] = "global" /\ kind[r] \in Actor
    /\ reqActor[r] = None /\ getActor(r) = None
    /\ \/ setActor(r, kind[r]) /\ UNCHANGED reqActor
       \/ reqActor' = [reqActor EXCEPT ![r] = kind[r]] /\ UNCHANGED actor
    /\ UNCHANGED <<server, phase, kind, at, store, fault, answers, ended, reports>>

\* It sends headers and the start of a body; a timer or a callback of it may do
\* so after the handler itself has thrown.
HandlerWrites(r) ==
    /\ phase[r] \in {"handling", "reporting"} /\ ~Begun(r)
    /\ Write(r, at[r], "ok", None)
    /\ UNCHANGED <<server, phase, kind, at, store, actors, fault, ended, reports>>

HandlerEnds(r) ==
    /\ phase[r] \in {"handling", "reporting"} /\ Begun(r) /\ r \notin ended
    /\ ended' = ended \cup {r}
    /\ UNCHANGED <<server, phase, kind, at, store, actors, fault, answers, reports>>

HandlerReturns(r) ==
    /\ phase[r] = "handling" /\ r \in ended
    /\ phase' = [phase EXCEPT ![r] = "done"]
    /\ UNCHANGED <<server, kind, at, store, actors, fault, answers, ended, reports>>

\* Faulty: nobody catches the rejection.
Lost(r, e) == phase' = [phase EXCEPT ![r] = "done"] /\ fault' = [fault EXCEPT ![r] = e]

\* handle() passes a rejection on to next(), and so to the error handler; one with
\* undefined is HandlerPasses.
Caught(r, e) == Fail(r, e)

HandlerThrows(r) ==
    /\ phase[r] = "handling"
    /\ \E e \in Thrown : Caught(r, e)
    /\ UNCHANGED <<server, kind, at, store, actors, answers, ended, reports>>

-----------------------------------------------------------------------------
\* The error handler: report, then render, then send.

ShouldReport(e) == Mapped[e].code \notin Silent /\ Mapped[e].status >= 500

\* How many reporters the error goes to.
Due(r) == IF ShouldReport(fault[r]) THEN Reporters ELSE 0

\* What report() waits for.
Reported(r) == reports[r] = Due(r)

Report(r) ==
    /\ phase[r] = "reporting" /\ reports[r] < Due(r)
    /\ reports' = [reports EXCEPT ![r] = @ + 1]
    /\ UNCHANGED <<server, phase, kind, at, store, actors, fault, answers, ended>>

\* Faulty: headersSent is not looked at.
AlwaysWrites(r) == phase[r] = "reporting"

\* Whether the error handler writes its answer: nothing was sent meanwhile.
MayWrite(r) == ~Begun(r)

Render(r) ==
    /\ phase[r] = "reporting" /\ Reported(r)
    /\ IF MayWrite(r)
         THEN Write(r, at[r], "envelope", store[r]) /\ ended' = ended \cup {r}
         ELSE UNCHANGED <<answers, ended>>
    /\ phase' = [phase EXCEPT ![r] = "done"]
    /\ UNCHANGED <<server, kind, at, store, actors, fault, reports>>

\* A reporter throws: report() and the error handler reject, and Express answers
\* with a page of its own, or cuts the connection if an answer has begun.
ReporterThrows(r) ==
    /\ phase[r] = "reporting" /\ reports[r] < Due(r)
    /\ IF Begun(r) THEN UNCHANGED answers ELSE Write(r, at[r], "page", None)
    /\ phase' = [phase EXCEPT ![r] = "done"] /\ ended' = ended \cup {r}
    /\ UNCHANGED <<server, kind, at, store, actors, fault, reports>>

-----------------------------------------------------------------------------
Handles(r) == HandlerPasses(r) \/ Authenticates(r) \/ HandlerWrites(r) \/ HandlerEnds(r) \/ HandlerReturns(r) \/ HandlerThrows(r)
Limits(r) == Admit(r) \/ Limit(r)
Reports(r) == Report(r) \/ ReporterThrows(r)

Next ==
    \/ CreateHttp \/ CreateHttpFails \/ LoadMiddleware \/ LoadRoutes \/ Ready \/ Finalize \/ Listen
    \/ \E m \in Mount : Mounts(m)
    \/ \E r \in Request :
          (\E k \in Asked : Arrive(r, k)) \/ Limits(r) \/ Handles(r) \/ Reports(r) \/ Render(r)

Spec == Init /\ [][Next]_vars

\* The store answers, a handler passes, answers or throws, what it began it
\* finishes or throws, reporters come back, and the event loop turns.
FairSpec ==
    /\ Spec
    /\ \A r \in Request :
          WF_vars(Limits(r)) /\ WF_vars(Handles(r)) /\ WF_vars(Reports(r)) /\ WF_vars(Render(r))

-----------------------------------------------------------------------------
Sent(r) == Range(answers[r])

\* A request is answered at most once, though its handler may answer on a timer
\* while its error waits for reporters (errorHandler checks headersSent last).
AnsweredOnce == \A r \in Request : Len(answers[r]) <= 1

\* Interleaved requests never show one another's id: the envelope of an error
\* raised past requestContext holds the id of its own request.
EnvelopeHasOwnId ==
    \A r \in Request : \A a \in Sent(r) :
        a.what = "envelope" => a.id = IF "context" \in a.headers THEN r ELSE None

\* What the program or a provider mounts before the first listen() or
\* finalizeHttp() is in front of the final handlers: a request for it is told
\* NOT_FOUND only if its own handler has passed (docs/http.md, createApp).
MountedIsReached ==
    \A r \in Request : \A a \in Sent(r) :
        (a.what = "notFound" /\ kind[r] \in early) =>
            kind[r] \in {stack[i] : i \in 1..(at[r] - 1)}

\* The handler of a guarded route runs for an actor who holds the permission, and
\* whenever it asks, getActor() is the actor of its own request: not of one that
\* was authenticated meanwhile, and not nobody (authorize, context.ts).
GuardedRunsAsItself ==
    \A r \in Request :
        (phase[r] = "handling" /\ kind[r] \in Actor /\ stack[at[r]] = "router") =>
            getActor(r) = kind[r] /\ can(kind[r], Needed)

\* A response an error cut off after its headers: the error handler leaves it open.
LeftOpen(r) == phase[r] = "done" /\ Begun(r) /\ r \notin ended

\* Every request is answered in full, whatever its handler throws, unless it
\* throws with an answer half sent.
EveryRequestEnds == \A r \in Request : phase[r] # "idle" ~> (r \in ended \/ LeftOpen(r))
=============================================================================
