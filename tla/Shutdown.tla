------------------------------ MODULE Shutdown ------------------------------
(* A service with an S3 log sink boots, serves, logs and shuts down: the     *)
(* composition of AppLifecycle, whose last close step is logger.flush(), and *)
(* LogSink.  Whatever runs may log; flush() waits for the batch it takes     *)
(* itself; process.exit() cuts off every put still under way.                *)
EXTENDS LogSink, Sequences, FiniteSets

CONSTANTS Configured, OpenFails, CloseFails, Work    \* as in AppLifecycle

VARIABLES booted, state, armed, at, fate, live, door, process,
          served   \* history: the last record written while work was in flight

\* logger.flush() may reject too, but when it does follows from the sink.
App == INSTANCE AppLifecycle WITH Closer <- Flusher, CloseFails <- CloseFails \cup {"logs"}

ASSUME ShutdownAssumption ==
    /\ Configured \subseteq App!Part /\ {"http", "logs"} \subseteq Configured
    /\ Flusher \subseteq App!Signal \cup {"program"}
    /\ "logs" \notin CloseFails

service == <<booted, state, armed, at, fate, live, door, process>>
allvars == <<vars, service, served>>

InitService == Init /\ App!Init /\ served = 0
-----------------------------------------------------------------------------
SinkIdles == UNCHANGED <<vars, served>>

Boot == (App!Open \/ App!OpenFail \/ App!ProgramCloses) /\ SinkIdles
Begin(w) == App!Begin(w) /\ SinkIdles
End(w) == App!End(w) /\ SinkIdles

\* The sink works while the process is up; so does what logs.
NoteWork == served' = IF live # {} THEN written' ELSE served

\* Leaves room in the bound for the record each signal writes.
Log ==
    /\ process = "up"
    /\ written + Cardinality(App!Signal \cap Flusher) < MaxRecord
    /\ Write /\ NoteWork /\ UNCHANGED service

Time == process = "up" /\ Tick /\ UNCHANGED <<service, served>>

Answer == 
    /\ process = "up"
    /\ \E b \in sending : Applied(b) \/ Sent(b) \/ SendFails(b)
    /\ UNCHANGED <<service, served>>

\* The handler logs before it calls close().
Deliver(s) ==
    /\ App!Deliver(s)
    /\ IF s \in armed THEN Write /\ NoteWork ELSE SinkIdles

\* The close steps: the last is the sink's flush(), which settles as its batch does.
AtLogs(k) == at[k] > 0 /\ App!CloseOrder[at[k]] = "logs"

PartStep(k) ==
    /\ ~AtLogs(k)
    /\ App!BeginStep(k) \/ App!EndStep(k) \/ App!FailStep(k)
    /\ SinkIdles

CallFlush(k) == AtLogs(k) /\ App!BeginStep(k) /\ Flush(k) /\ UNCHANGED served

FlushSettles(k) ==
    /\ AtLogs(k) /\ k \in done
    /\ IF waits[k] \cap failed = {} THEN App!EndStep(k) ELSE App!FailStep(k)
    /\ SinkIdles

CloseStep(k) == PartStep(k) \/ CallFlush(k) \/ FlushSettles(k) \/ (App!Exit(k) /\ SinkIdles)

NextService ==
    \/ Boot \/ Log \/ Time \/ Answer
    \/ \E w \in Work : Begin(w) \/ End(w)
    \/ \E s \in App!Signal : Deliver(s)
    \/ \E k \in Flusher : CloseStep(k)

ShutdownSpec == InitService /\ [][NextService]_allvars

\* Close steps settle when nothing holds them, puts are answered, and requests,
\* RPCs and WebSocket clients come to an end.
FairShutdown ==
    /\ ShutdownSpec
    /\ \A k \in Flusher : WF_allvars(CloseStep(k))
    /\ \A w \in Work : WF_allvars(End(w))
    /\ WF_allvars(Answer)
-----------------------------------------------------------------------------
(* Properties                                                                *)

\* Whatever is in flight finds the cache, databases and bus open (AppLifecycle).
BackendsOutliveWork == App!BackendsOutliveWork

\* A close() that resolves has closed every part, one step after the other; where a
\* step fails, what is behind it is left alone.
ClosesInOrder == App!ClosesInOrder

\* A handled signal leads to the end of the process, also when a close step or the
\* last put fails, given that clients leave and puts are answered.
SignalLeadsToExit == App!SignalLeadsToExit

\* Close and log order fit together: when one close() ran, and resolved, every
\* record written while a request, client or RPC was in flight had left the buffer
\* before the process exited.
WorkIsLogged ==
    process = "exited" /\ (\E k \in Flusher : App!Lone(k)) => served <= taken
=============================================================================
