------------------------------- MODULE Kernel -------------------------------
(* The process that apps are created in (src/app.ts).  createApp is a walk    *)
(* through awaits that may each reject: configuration, key, Mongo, bus,       *)
(* providers, files.  Several walks may overlap, and what they set on the way *)
(* is shared by the process: the current app, the encryption key and the      *)
(* resolver every model finds its collection through (src/orm/store.ts),      *)
(* .env (src/env.ts).  resetCurrentApp() clears it.  The service container    *)
(* (src/container.ts) of one app is followed, over one key.                   *)
EXTENDS FieldCrypto, Container

CONSTANTS App,        \* calls of createApp
          Config,     \* Config[a]: its crypto.key, whether it has a mongo.url, its .env
          Place,      \* Place[r]: the store of row r, an app's Mongo or "memory"
          Watched,    \* the app whose container is followed
          Providers,  \* how many providers it has
          Registrar   \* those whose register() registers the key

Memory == "memory"
ASSUME KernelAssumption ==
    /\ Config \in [App -> [key : Key \cup {None}, mongo : BOOLEAN, dotenv : Key \cup {None}]]
    /\ Place \in [Row -> App \cup {Memory}]
    /\ {None, Memory} \cap App = {} /\ Watched \in App
    /\ Providers \in Nat \ {0} /\ Registrar \subseteq 1..Providers

VARIABLES
    at,        \* at[a]: the await createApp is in, and which provider it concerns
    current,   \* the app currentApp() returns
    resolver,  \* the app whose Mongo models are bound to
    secret,    \* secret[a]: the key it set, or None
    closed,    \* apps whose close() has returned
    sharing,   \* history: the apps created since the last reset
    disturbed  \* history: an app was being created at that reset, or the program
               \* has set the key itself since

kernelVars == <<at, current, resolver, secret, closed, sharing, disturbed>>
vars == <<cryptoVars, containerVars, kernelVars>>

Phase == {"new", "config", "mongo", "wiring", "register", "files", "boot", "ready", "failed"}
Stage == [phase : Phase, i : 0..Providers]
Stop(phase) == [phase |-> phase, i |-> 0]

TypeOK ==
    /\ CryptoTypeOK /\ ContainerTypeOK
    /\ at \in [App -> Stage]
    /\ current \in App \cup {None} /\ resolver \in App \cup {None}
    /\ secret \in [App -> Key \cup {None}]
    /\ closed \subseteq App /\ sharing \subseteq App /\ disturbed \in BOOLEAN

Init ==
    /\ CryptoInit /\ ContainerInit
    /\ at = [a \in App |-> Stop("new")]
    /\ current = None /\ resolver = None
    /\ secret = [a \in App |-> None]
    /\ closed = {} /\ sharing = {} /\ disturbed = FALSE

UnderWay(a) == at[a].phase \notin {"new", "ready", "failed"}
-----------------------------------------------------------------------------
(* createApp                                                                 *)

\* loadEnv: .env gives what is not set yet.
DotEnv(a) == IF env = None THEN Config[a].dotenv ELSE env

\* Everything before its first await: .env, the new app with its container, current.
Create(a) ==
    /\ at[a].phase = "new"
    /\ env' = DotEnv(a)
    /\ current' = a
    /\ at' = [at EXCEPT ![a] = Stop("config")]
    /\ sharing' = sharing \cup {a}
    /\ UNCHANGED <<active, rows, written, fresh, calls, containerVars, resolver, secret, closed, disturbed>>

\* loadConfig and the cache's connection are awaited; then the key is set, if
\* the configuration or the environment has one, and Mongo is dialled.
Configured(a) ==
    /\ at[a].phase = "config"
    /\ LET k == IF Config[a].key # None THEN Config[a].key ELSE env IN
          /\ secret' = [secret EXCEPT ![a] = k]
          /\ IF k # None THEN SetKey(k) ELSE UNCHANGED cryptoVars
    /\ at' = [at EXCEPT ![a] = Stop(IF Config[a].mongo THEN "mongo" ELSE "wiring")]
    /\ UNCHANGED <<containerVars, current, resolver, closed, sharing, disturbed>>

\* bindMongoCollections.
Binds(a) == resolver' = a

Connected(a) ==
    /\ at[a].phase = "mongo"
    /\ Binds(a)
    /\ at' = [at EXCEPT ![a] = Stop("wiring")]
    /\ UNCHANGED <<cryptoVars, containerVars, current, secret, closed, sharing, disturbed>>

\* Faulty: every provider is registered and booted before the next one.
OneByOne(s) ==
    CASE s.phase = "wiring" -> [phase |-> "register", i |-> 1]
      [] s.phase = "register" -> [phase |-> "boot", i |-> s.i]
      [] s.phase = "boot" -> IF s.i < Providers THEN [phase |-> "register", i |-> s.i + 1]
                                                ELSE Stop("files")
      [] s.phase = "files" -> Stop("ready")

\* The order of the rest: the bus, hooks, permissions, HTTP and all providers made;
\* all of them registered; middleware, hooks, routes and RPC; all of them booted.
After(s) ==
    CASE s.phase = "wiring" -> [phase |-> "register", i |-> 1]
      [] s.phase = "register" -> IF s.i < Providers THEN [s EXCEPT !.i = @ + 1] ELSE Stop("files")
      [] s.phase = "files" -> [phase |-> "boot", i |-> 1]
      [] s.phase = "boot" -> IF s.i < Providers THEN [s EXCEPT !.i = @ + 1] ELSE Stop("ready")

\* A provider's register() is called; it returns, its step of the walk is done.
Goes(a) ==
    /\ at[a].phase \in {"wiring", "register", "files", "boot"}
    /\ at' = [at EXCEPT ![a] = After(@)]
    /\ IF a = Watched /\ at[a].phase = "register" /\ at[a].i \in Registrar
         THEN Registers ELSE UNCHANGED containerVars
    /\ UNCHANGED <<cryptoVars, current, resolver, secret, closed, sharing, disturbed>>

\* Any await rejects, and createApp with it; nothing that was set is taken back.
CreateFails(a) ==
    /\ UnderWay(a)
    /\ at' = [at EXCEPT ![a] = Stop("failed")]
    /\ UNCHANGED <<cryptoVars, containerVars, current, resolver, secret, closed, sharing, disturbed>>
-----------------------------------------------------------------------------
(* The program                                                               *)

\* app.close() closes the Mongo client; the models stay bound to it.
Close(a) ==
    /\ at[a].phase = "ready" /\ a \notin closed
    /\ closed' = closed \cup {a}
    /\ UNCHANGED <<cryptoVars, containerVars, at, current, resolver, secret, sharing, disturbed>>

\* Faulty: the models stay bound.
ResolverStays == UNCHANGED resolver

\* resetCollections unbinds the models ...
Unbind == resolver' = None

\* A save that has asked for the memory goes on with a collection nobody will see.
Astray(m) == IF m.stage = "asked" /\ Place[m.row] = Memory THEN [m EXCEPT !.stage = "lost"] ELSE m

\* ... and forgets the rows in memory; the key is unset, the environment stays.
Reset ==
    /\ current' = None /\ Unbind
    /\ active' = None /\ fresh' = {} /\ calls' = {Astray(m) : m \in Aged}
    /\ rows' = [r \in Row |-> IF Place[r] = Memory THEN Absent ELSE rows[r]]
    /\ written' = [r \in Row |-> IF Place[r] = Memory THEN None ELSE written[r]]
    /\ sharing' = {} /\ disturbed' = (\E a \in App : UnderWay(a))
    /\ UNCHANGED <<env, containerVars, at, secret, closed>>

\* The program sets the key or the environment.
SetsKey ==
    /\ \/ (\E k \in Key \cup {None} : SetKey(k)) /\ disturbed' = TRUE
       \/ (\E k \in Key \cup {None} : SetEnv(k)) /\ UNCHANGED disturbed
    /\ UNCHANGED <<containerVars, at, current, resolver, secret, closed, sharing>>

\* resolveCollection: the store a model's collection is in now.
Resolved == IF resolver = None THEN Memory ELSE resolver

\* What becomes of a document once encoded; a client that is closed refuses it.
Taken(m) ==
    {"nobody"} \cup (IF m.stage = "lost" \/ Place[m.row] \in closed THEN {}
                    ELSE IF Place[m.row] = Memory THEN {"memory"} ELSE {"server"})

\* A model is used, by any code of the process.  A save goes where its model was
\* bound when it began.  A row that is there was once within reach of a read or
\* of a destroy, which may come to it only now.
UsesModel ==
    /\ \/ \E r \in Row : Place[r] = Resolved /\ ((\E v \in Value : Save(r, v)) \/ (\E q \in Row : Copy(q, r)))
       \/ \E m \in calls : (\E to \in Taken(m) : Encodes(m, to)) \/ Lands(m) \/ Decodes(m)
       \/ \E r \in Row : (Place[r] \notin closed /\ Read(r)) \/ Destroy(r)
    /\ UNCHANGED <<containerVars, kernelVars>>

\* The container is used, from the app's construction on.
UsesContainer ==
    /\ at[Watched].phase # "new"
    /\ ServiceStep
    /\ UNCHANGED <<cryptoVars, kernelVars>>

Next ==
    \/ \E a \in App : Create(a) \/ Configured(a) \/ Connected(a) \/ Goes(a) \/ CreateFails(a) \/ Close(a)
    \/ Reset \/ SetsKey \/ UsesModel \/ UsesContainer

Spec == Init /\ [][Next]_vars
-----------------------------------------------------------------------------
\* An app that has had the process to itself since the last reset has what it
\* asked for by the time its providers register: app() and emitSafe() reach it,
\* its models are in its own Mongo or, without one, in memory, and fields are
\* encrypted with its own key.  An app that shares the process, or was still
\* being created at the reset, may find the other's.
LoneAppHasOwn ==
    \A a \in App :
        (sharing = {a} /\ ~disturbed /\ at[a].phase \in {"register", "files", "boot", "ready"}) =>
            /\ current = a
            /\ Resolved = IF Config[a].mongo THEN a ELSE Memory
            /\ secret[a] # None => active = secret[a]

\* What any provider registers in register() is there for all of them in boot(),
\* in whatever order they come, unless somebody has forgotten it.
BootFindsServices ==
    (at[Watched].phase = "boot" /\ Registrar # {}) => (bound \/ last.gone)
=============================================================================
