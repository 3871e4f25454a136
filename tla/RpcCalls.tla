------------------------------ MODULE RpcCalls ------------------------------
(* Unary gRPC calls (src/grpc) under the program's own timeout() and retry()  *)
(* (src/utils/index.ts): retry(() => timeout(client.call(method, request), ms)*)
(* against the services loadRpc found, while the server starts and shuts      *)
(* down.  The network may lose or delay a request or an answer and may break  *)
(* off a call; gRPC repeats and forges none.  A timeout gives up waiting: it  *)
(* cancels nothing, so a request may still arrive and its handler still run.  *)
(* Nor does the server stop a handler: one whose call is broken off runs on,  *)
(* also behind a close() that has returned.                                   *)
EXTENDS Errors, FiniteSets

CONSTANTS Caller,    \* calls the program makes
          Service,   \* the services the modules of the app define
          Thrown,    \* the errors a handler may throw, names of Mapped
          Times      \* the attempts retry() makes at most

ASSUME RpcAssumption ==
    /\ Times \in Nat \ {0}
    /\ Thrown \subseteq DOMAIN Mapped
    /\ {"unlisted", "foreign"} \cap Service = {}

\* What a call is for: a service of the modules, one of another program, or a
\* method the client object does not have.
Target == Service \cup {"foreign", "unlisted"}
Attempt == Caller \X (1..Times)
Failure == {StatusFromHttp(Mapped[e].status) : e \in DOMAIN Mapped}
              \cup {"UNAVAILABLE", "UNIMPLEMENTED", "Timed out"}
Outcome == {"value"} \cup Failure

VARIABLES
    server,    \* the state of KinaraGrpcServer
    todo,      \* services loadRpc has still to add
    served,    \* services the server has handlers for
    wire,      \* requests under way, each by its attempt
    streams,   \* attempts whose call is open at the server
    running,   \* attempts whose handler runs
    ran,       \* history: attempts whose handler was ever called
    replies,   \* answers under way
    answered,  \* history: attempts whose handler has called back
    connected, \* close() has not been called on the client
    phase,     \* phase[c]: where retry() of call c waits
    attempt,   \* attempt[c]: retry's own counter
    target,    \* target[c]: the service it calls
    outcome    \* outcome[c]: the attempt retry() heard of last, and what it heard

serverVars == <<server, todo, served>>
network == <<wire, streams, running, ran, replies, answered>>
callers == <<connected, phase, attempt, target, outcome>>
vars == <<serverVars, network, callers>>

Reply == [of : Attempt, what : Outcome]
Nothing == [of |-> 0, what |-> "value"]

TypeOK ==
    /\ server \in {"none", "built", "open", "draining", "closed", "failed"}
    /\ todo \subseteq Service /\ served \subseteq Service
    /\ wire \subseteq Attempt /\ streams \subseteq Attempt /\ running \subseteq Attempt
    /\ ran \subseteq Attempt /\ answered \subseteq Attempt
    /\ replies \subseteq Reply
    /\ connected \in BOOLEAN
    /\ phase \in [Caller -> {"idle", "waiting", "sleeping", "resolved", "rejected"}]
    /\ attempt \in [Caller -> 0..Times]
    /\ target \in [Caller -> Target]
    /\ outcome \in [Caller -> [of : 0..Times, what : Outcome]]

Init ==
    /\ server = "none" /\ todo = Service /\ served = {}
    /\ wire = {} /\ streams = {} /\ running = {} /\ ran = {} /\ replies = {} /\ answered = {}
    /\ connected = TRUE
    /\ phase = [c \in Caller |-> "idle"] /\ attempt = [c \in Caller |-> 0]
    /\ target = [c \in Caller |-> "unlisted"]
    /\ outcome = [c \in Caller |-> Nothing]
-----------------------------------------------------------------------------
(* The server                                                                *)

\* loadRpc adds the services of the modules one by one: peers are imported, the
\* proto written and loaded, the definition looked up, the handlers registered.
Add(s) ==
    /\ server \in {"none", "built"} /\ s \in todo
    /\ server' = "built"
    /\ todo' = todo \ {s} /\ served' = served \cup {s}
    /\ UNCHANGED <<network, callers>>

\* One that cannot be added: createApp rejects, and the server never opens.
AddFails(s) ==
    /\ server \in {"none", "built"} /\ s \in todo
    /\ server' = "failed"
    /\ UNCHANGED <<todo, served, network, callers>>

\* app.listen: without a service there is no gRPC server to start.
Listen ==
    /\ server = "built" /\ todo = {}
    /\ server' \in {"open", "failed"}
    /\ UNCHANGED <<todo, served, network, callers>>

\* close: tryShutdown takes no more calls; a server that never opened has none.
CloseStart ==
    /\ server \in {"built", "open"} /\ todo = {}
    /\ server' = "draining"
    /\ UNCHANGED <<todo, served, network, callers>>

\* tryShutdown calls back when every call it took is answered or broken off; a handler
\* of a call that was broken off is not waited for.
Drained == server = "draining" /\ streams = {}

CloseDone ==
    /\ Drained
    /\ server' = "closed"
    /\ UNCHANGED <<todo, served, network, callers>>
-----------------------------------------------------------------------------
(* A request on its way, its handler and its answer                          *)

Sends(a, what) == replies' = replies \cup {[of |-> a, what |-> what]}

\* The handler of an open server is called.
Arrive(a) ==
    /\ a \in wire /\ server = "open" /\ target[a[1]] \in served
    /\ wire' = wire \ {a}
    /\ streams' = streams \cup {a}
    /\ running' = running \cup {a} /\ ran' = ran \cup {a}
    /\ UNCHANGED <<serverVars, replies, answered, callers>>

\* Nobody listens, or not for this service.
Refused(a) ==
    /\ a \in wire /\ (server = "open" => target[a[1]] \notin served)
    /\ wire' = wire \ {a}
    /\ Sends(a, IF server = "open" THEN "UNIMPLEMENTED" ELSE "UNAVAILABLE")
    /\ UNCHANGED <<serverVars, streams, running, ran, answered, callers>>

\* The wrapper impl[name] of add(): a result or the mapped error is called back, to
\* nobody if the call has been broken off.
HandlerEnds(a) ==
    /\ a \in running
    /\ running' = running \ {a} /\ answered' = answered \cup {a}
    /\ streams' = streams \ {a}
    /\ \/ a \notin streams /\ UNCHANGED replies
       \/ a \in streams /\ Sends(a, "value")
       \/ a \in streams /\ \E e \in Thrown : Sends(a, StatusFromHttp(Mapped[e].status))
    /\ UNCHANGED <<serverVars, wire, ran, callers>>

\* The call is cancelled or its connection lost, as the server sees it.
Cut(a) ==
    /\ a \in streams /\ streams' = streams \ {a}
    /\ UNCHANGED <<serverVars, wire, running, ran, replies, answered, callers>>

\* A connection goes away without a word.
LoseRequest(a) ==
    /\ a \in wire /\ wire' = wire \ {a}
    /\ UNCHANGED <<serverVars, streams, running, ran, replies, answered, callers>>

LoseReply(r) ==
    /\ replies' = replies \ {r}
    /\ UNCHANGED <<serverVars, wire, streams, running, ran, answered, callers>>
-----------------------------------------------------------------------------
(* The caller                                                                *)

\* unaryCall: a method the client lacks and a closed channel reject at once.
Unary(c, s, n) ==
    /\ wire' = IF connected /\ s # "unlisted" THEN wire \cup {<<c, n>>} ELSE wire
    /\ UNCHANGED <<streams, running, ran, replies, answered>>

\* The n-th turn of retry's loop: fn() is called under its own timer.
Turn(c, s, n) ==
    /\ Unary(c, s, n)
    /\ attempt' = [attempt EXCEPT ![c] = n]
    /\ phase' = [phase EXCEPT ![c] = "waiting"]

Begin(c, s) ==
    /\ phase[c] = "idle"
    /\ target' = [target EXCEPT ![c] = s]
    /\ Turn(c, s, 1)
    /\ UNCHANGED <<serverVars, connected, outcome>>

\* sleep(delayMs * attempt) is over.
Wake(c) ==
    /\ phase[c] = "sleeping"
    /\ Turn(c, target[c], attempt[c] + 1)
    /\ UNCHANGED <<serverVars, connected, target, outcome>>

Hears(c, n, what) == outcome' = [outcome EXCEPT ![c] = [of |-> n, what |-> what]]

\* The catch of retry: the next turn, or the last error thrown.
Fails(c, n, what) ==
    /\ Hears(c, n, what)
    /\ phase' = [phase EXCEPT ![c] = IF attempt[c] < Times THEN "sleeping" ELSE "rejected"]

\* Faulty: one callback for the call, whichever attempt is answered.
AnyAttempt(r) == phase[r.of[1]] = "waiting"

\* The promise timeout() races is that of this attempt.
Awaited(r) == phase[r.of[1]] = "waiting" /\ attempt[r.of[1]] = r.of[2]

Answer(r) ==
    LET c == r.of[1] IN
    /\ Awaited(r)
    /\ replies' = replies \ {r}
    /\ IF r.what = "value"
         THEN Hears(c, r.of[2], "value") /\ phase' = [phase EXCEPT ![c] = "resolved"]
         ELSE Fails(c, r.of[2], r.what)
    /\ UNCHANGED <<serverVars, wire, streams, running, ran, answered, connected, attempt, target>>

\* unaryCall rejects by itself, or the channel breaks the call off, wherever it
\* has got to.
Breaks(c) ==
    /\ phase[c] = "waiting"
    /\ Fails(c, attempt[c], "UNAVAILABLE")
    /\ UNCHANGED <<serverVars, network, connected, attempt, target>>

\* Faulty: one timer, armed before the first attempt.
ArmedOnce(c) == phase[c] = "waiting" /\ attempt[c] = 1

\* timeout() has a timer running.
Armed(c) == phase[c] = "waiting"

TimesOut(c) ==
    /\ Armed(c)
    /\ Fails(c, attempt[c], "Timed out")
    /\ UNCHANGED <<serverVars, network, connected, attempt, target>>

CloseClient ==
    /\ connected /\ connected' = FALSE
    /\ UNCHANGED <<serverVars, network, phase, attempt, target, outcome>>
-----------------------------------------------------------------------------
ServerStep ==
    \/ \E s \in Service : Add(s) \/ AddFails(s)
    \/ Listen \/ CloseStart \/ CloseDone
NetworkStep ==
    \/ \E a \in Attempt : Arrive(a) \/ Refused(a) \/ HandlerEnds(a) \/ Cut(a) \/ LoseRequest(a)
    \/ \E r \in replies : LoseReply(r)
CallerStep ==
    \/ \E c \in Caller : \/ \E s \in Target : Begin(c, s)
                         \/ Wake(c) \/ Breaks(c) \/ TimesOut(c)
    \/ \E r \in replies : Answer(r)
    \/ CloseClient

Next == ServerStep \/ NetworkStep \/ CallerStep

Spec == Init /\ [][Next]_vars

\* Timers fire.  Nothing is assumed of the network, the server or a handler.
FairSpec == Spec /\ \A c \in Caller : WF_vars(TimesOut(c)) /\ WF_vars(Wake(c))
-----------------------------------------------------------------------------
\* What retry() returns or throws is what its last attempt gave, and it throws
\* only after the last of its attempts: an answer to an attempt already given
\* up, which may come at any time, is never taken for that of a later one, and
\* no run of the handler is younger than the one whose value was returned.
OutcomeIsOfLastAttempt ==
    \A c \in Caller :
        /\ phase[c] = "resolved" =>
               /\ <<c, outcome[c].of>> \in answered
               /\ \A a \in ran : a[1] = c => a[2] <= outcome[c].of
        /\ phase[c] = "rejected" => outcome[c].of = Times /\ outcome[c].what # "value"

\* Every call under retry() and timeout() settles, though the network may lose
\* everything and handlers may never end.
CallSettles == \A c \in Caller : phase[c] # "idle" ~> phase[c] \in {"resolved", "rejected"}
=============================================================================
