----------------------------- MODULE AppLifecycle -----------------------------
(* Boot and shutdown of one process (src/app.ts, src/boot.ts): createApp and *)
(* boot open the parts of the service one after another, close() closes them *)
(* one after another, and each signal handler runs a close() of its own and  *)
(* then exits, whether it resolved or rejected.                              *)
(*                                                                           *)
(* External, as node and the drivers behave towards this code: a server's    *)
(* close() calls back when its last connection is gone, with an error when   *)
(* it was not listening any more; an upgraded WebSocket is a connection;     *)
(* ws and grpc stop accepting and wait for what they have.  They wait for    *)
(* connections and calls: the handler of a request whose client has hung up, *)
(* or of an RPC broken off, is work in flight no longer, and may run on.     *)
EXTENDS Integers, Sequences

CONSTANTS Configured,   \* the parts this service uses
          OpenFails,    \* parts whose opening may fail
          CloseFails,   \* parts whose close may reject
          Closer,       \* callers of close(): signals, "program" for the program
          Work          \* HTTP requests, WebSocket clients and RPCs, by name

Part == {"cache", "mongo", "bus", "mongoose", "http", "ws", "grpc", "logs"}
Signal == {"SIGINT", "SIGTERM"}
Entry == {"http", "ws", "grpc"}     \* the parts work comes in through
Backend == {"cache", "mongo", "bus", "mongoose"}

\* createApp to HTTP setup, boot's own connection, then listen().
OpenOrder == <<"cache", "mongo", "bus", "mongoose", "http", "ws", "grpc">>
\* close(); a faulty one that releases what requests use first, one that forgets
\* the handles added last and one that flushes the logs first.
BackendFirst == <<"cache", "http", "ws", "grpc", "bus", "mongoose", "mongo", "logs">>
ForgetsMongo == <<"http", "ws", "grpc", "bus", "cache", "logs">>
FlushFirst == <<"logs", "http", "ws", "grpc", "bus", "cache", "mongoose", "mongo">>
CloseOrder == <<"http", "ws", "grpc", "bus", "cache", "mongoose", "mongo", "logs">>

VARIABLES
    booted,    \* number of steps of OpenOrder done, or -1 once boot rejected
    state,     \* state[p]: of each part
    armed,     \* signals whose handler is installed and has not run
    at,        \* at[k]: the step of CloseOrder closer k is at, 0 before its call
    fate,      \* fate[k]: how k's close() ended, or that it awaits a step
    live,      \* work in flight
    door,      \* door[w]: the part work w came in through
    process    \* the process is up, has exited, or was killed by a signal

vars == <<booted, state, armed, at, fate, live, door, process>>

TypeOK ==
    /\ booted \in -1..Len(OpenOrder)
    /\ state \in [Part -> {"none", "open", "closing", "closed"}]
    /\ armed \subseteq Signal
    /\ at \in [Closer -> 0..Len(CloseOrder)]
    /\ fate \in [Closer -> {"idle", "calling", "waiting", "refused", "resolved", "rejected"}]
    /\ live \subseteq Work /\ door \in [Work -> Entry]
    /\ process \in {"up", "exited", "killed"}

Init ==
    /\ booted = 0
    /\ state = [p \in Part |-> IF p = "logs" THEN "open" ELSE "none"]
    /\ armed = {}
    /\ at = [k \in Closer |-> 0]
    /\ fate = [k \in Closer |-> "idle"]
    /\ live = {} /\ door = [w \in Work |-> "http"]
    /\ process = "up"
-----------------------------------------------------------------------------
(* Boot                                                                      *)

\* One step of createApp, boot or listen; a part not configured is passed over.
\* boot installs the handlers when everything is open.
Open ==
    /\ process = "up" /\ booted \in 0..(Len(OpenOrder) - 1)
    /\ LET p == OpenOrder[booted + 1] IN
           state' = IF p \in Configured THEN [state EXCEPT ![p] = "open"] ELSE state
    /\ booted' = booted + 1
    /\ armed' = IF booted' = Len(OpenOrder) THEN Signal \cap Closer ELSE {}
    /\ UNCHANGED <<at, fate, live, door, process>>

\* A step throws and boot rejects with what is open left open.
OpenFail ==
    /\ process = "up" /\ booted \in 0..(Len(OpenOrder) - 1)
    /\ OpenOrder[booted + 1] \in Configured \cap OpenFails
    /\ booted' = -1
    /\ UNCHANGED <<state, armed, at, fate, live, door, process>>
-----------------------------------------------------------------------------
(* Work                                                                      *)

Begin(w) ==
    /\ process = "up" /\ w \notin live
    /\ \E p \in Entry : state[p] = "open" /\ door' = [door EXCEPT ![w] = p]
    /\ door'[w] = "ws" => state["http"] = "open"     \* upgrades come in over HTTP
    /\ live' = live \cup {w}
    /\ UNCHANGED <<booted, state, armed, at, fate, process>>

\* A request or RPC is answered or given up by its client; a WebSocket client leaves.
End(w) ==
    /\ process = "up" /\ w \in live
    /\ live' = live \ {w}
    /\ UNCHANGED <<booted, state, armed, at, fate, door, process>>

InFlight(p) == {w \in live : door[w] = p}
-----------------------------------------------------------------------------
(* Shutdown                                                                  *)

CallClose(k) ==
    /\ fate[k] = "idle"
    /\ fate' = [fate EXCEPT ![k] = "calling"]
    /\ at' = [at EXCEPT ![k] = 1]

\* The program can close an app that boot gave it.
ProgramCloses ==
    /\ process = "up" /\ booted = Len(OpenOrder) /\ "program" \in Closer
    /\ CallClose("program")
    /\ UNCHANGED <<booted, state, armed, live, door, process>>

\* process.once: the first signal of a kind runs the handler, the next one, and
\* one before boot is done, takes its default action.
Deliver(s) ==
    /\ process = "up" /\ s \in Closer
    /\ IF s \in armed
         THEN CallClose(s) /\ armed' = armed \ {s} /\ UNCHANGED process
         ELSE process' = "killed" /\ UNCHANGED <<armed, at, fate>>
    /\ UNCHANGED <<booted, state, live, door>>

\* Close step p begins: a part never opened is passed over as this.server and the
\* optional handles are; a second server.close() is told it is not running.
BeginStep(k) ==
    /\ process = "up" /\ fate[k] = "calling"
    /\ LET p == CloseOrder[at[k]] IN
       /\ fate' = [fate EXCEPT ![k] =
              IF p = "http" /\ state[p] \in {"closing", "closed"} THEN "refused"
                                                                  ELSE "waiting"]
       /\ state' = IF state[p] = "open" THEN [state EXCEPT ![p] = "closing"] ELSE state
    /\ UNCHANGED <<booted, armed, at, live, door, process>>

\* What p's close waits for: the last connection, client or call.
Drained(p) ==
    /\ p = "http" => InFlight("http") \cup InFlight("ws") = {}
    /\ p = "ws" => InFlight("ws") = {}
    /\ p = "grpc" => InFlight("grpc") = {}

Advance(k) ==
    IF at[k] = Len(CloseOrder)
      THEN fate' = [fate EXCEPT ![k] = "resolved"] /\ UNCHANGED at
      ELSE /\ fate' = [fate EXCEPT ![k] = "calling"]
           /\ at' = [at EXCEPT ![k] = @ + 1]

\* The step's callback or promise comes: on to the next, or close() resolves.
EndStep(k) ==
    /\ process = "up" /\ fate[k] = "waiting"
    /\ LET p == CloseOrder[at[k]] IN
       /\ Drained(p)
       /\ state' = IF state[p] = "closing" THEN [state EXCEPT ![p] = "closed"] ELSE state
    /\ Advance(k)
    /\ UNCHANGED <<booted, armed, live, door, process>>

\* The step rejects, or the refused server.close() calls back once the connections
\* are gone: close() rejects and the later steps never run.
FailStep(k) ==
    /\ process = "up"
    /\ \/ fate[k] = "refused" /\ Drained("http")
       \/ fate[k] = "waiting" /\ CloseOrder[at[k]] \in CloseFails \cap Configured
    /\ fate' = [fate EXCEPT ![k] = "rejected"]
    /\ UNCHANGED <<booted, state, armed, at, live, door, process>>

\* How close() may have ended for the handler to exit; a faulty one uses then().
IfResolved(k) == fate[k] = "resolved"
Finally(k) == fate[k] \in {"resolved", "rejected"}

\* close().finally(() => process.exit(0))
Exit(k) ==
    /\ process = "up" /\ k \in Signal /\ Finally(k)
    /\ process' = "exited"
    /\ UNCHANGED <<booted, state, armed, at, fate, live, door>>

CloseStep(k) == BeginStep(k) \/ EndStep(k) \/ FailStep(k) \/ Exit(k)
Next ==
    \/ Open \/ OpenFail \/ ProgramCloses
    \/ \E w \in Work : Begin(w) \/ End(w)
    \/ \E s \in Signal : Deliver(s)
    \/ \E k \in Closer : CloseStep(k)

Spec == Init /\ [][Next]_vars

\* Parts settle when nothing holds them, and requests and RPCs end.  Nothing makes
\* a WebSocket client leave: close() never asks it to.
LingerSpec ==
    /\ Spec
    /\ \A k \in Closer : WF_vars(CloseStep(k))
    /\ \A w \in Work : WF_vars(door[w] # "ws" /\ End(w))
-----------------------------------------------------------------------------
(* Properties                                                                *)

Closed == \A p \in Configured : state[p] = "closed"

\* Whatever a client still waits for finds the cache, databases and bus it was configured with
\* open: they are opened before the first port is bound and closed after the last
\* request, client and RPC is gone, whichever closers run together.
BackendsOutliveWork ==
    live # {} => \A p \in Backend \cap Configured : state[p] = "open"

\* A close() that resolves has closed every part, whichever others run beside it.
\* No part is touched before all ahead of it are closed: a step that rejects, or a
\* server.close() that is refused, leaves what is behind it as it was.
ClosesInOrder ==
    /\ \A k \in Closer : fate[k] = "resolved" => Closed
    /\ \A i, j \in 1..Len(CloseOrder) :
          i < j /\ CloseOrder[i] \in Configured /\ state[CloseOrder[j]] \in {"closing", "closed"}
              => state[CloseOrder[i]] = "closed"

\* A close() that resolves with no other called.
Lone(k) == fate[k] = "resolved" /\ \A j \in Closer \ {k} : fate[j] = "idle"

\* Once the process has begun to stop it does: a handled signal leads to an exit,
\* given that clients leave.
SignalLeadsToExit ==
    \A s \in Signal \cap Closer : fate[s] # "idle" ~> process # "up"

\* docs/production.md: "`await app.close()` stops HTTP, gRPC, the bus, cache, Mongo,
\* and log sinks."  A call settles also when WebSocket clients stay connected.
CloseSettles ==
    \A k \in Closer :
        fate[k] # "idle" ~> (fate[k] \in {"resolved", "rejected"} \/ process # "up")
=============================================================================
