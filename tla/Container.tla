------------------------------ MODULE Container ------------------------------
(* The service container of one app (src/container.ts), over one key: what is *)
(* registered, in turn, and the objects make() hands out.  An object stands   *)
(* for the registration it comes from and for the call that made it.          *)
EXTENDS Integers, FiniteSets

CONSTANT MaxRegistration, MaxObject   \* bounds on registrations and objects

ASSUME ContainerAssumption == MaxRegistration \in Nat /\ MaxObject \in Nat

VARIABLES
    binding,   \* bindings.get(key): the registration whose resolver it is, or 0
    instance,  \* instances.get(key), in a set: an object or nothing
    last,      \* history: the registration made last, and how
    objects,   \* objects resolvers have made so far
    handed     \* history: what make() has given since the last change

containerVars == <<binding, instance, last, objects, handed>>

Registration == 0..MaxRegistration
Object == [from : Registration, nth : 0..MaxObject]

ContainerTypeOK ==
    /\ binding \in Registration
    /\ instance \subseteq Object /\ Cardinality(instance) <= 1
    /\ last \in [number : Registration, kept : BOOLEAN, gone : BOOLEAN]
    /\ objects \in 0..MaxObject
    /\ handed \subseteq Object

ContainerInit ==
    /\ binding = 0 /\ instance = {} /\ objects = 0 /\ handed = {}
    /\ last = [number |-> 0, kept |-> FALSE, gone |-> FALSE]

\* A registration; kept: it leaves an object cached that a former one made.
Register(kept) ==
    /\ last.number < MaxRegistration
    /\ last' = [number |-> last.number + 1, kept |-> kept, gone |-> FALSE]
    /\ handed' = {}

\* Faulty: bind() leaves what is cached.
BindKeeps ==
    /\ Register(FALSE) /\ binding' = last.number + 1
    /\ UNCHANGED <<instance, objects>>

Bind ==
    /\ Register(FALSE) /\ binding' = last.number + 1
    /\ instance' = {} /\ UNCHANGED objects

\* Its resolver is wrapped to keep what it makes, and what is kept already stays.
Singleton ==
    /\ Register(instance # {}) /\ binding' = last.number + 1
    /\ UNCHANGED <<instance, objects>>

Instance ==
    /\ Register(FALSE)
    /\ instance' = {[from |-> last.number + 1, nth |-> 0]}
    /\ UNCHANGED <<binding, objects>>

bound == binding # 0 \/ instance # {}

\* instances.set(key, value), in make() and in singleton()'s resolver alike.
Kept(o) == instance' = {o}

\* Without an instance or a resolver it throws UnboundServiceError.
Make ==
    /\ bound
    /\ IF instance # {}
         THEN handed' = handed \cup instance /\ UNCHANGED <<instance, objects>>
         ELSE LET o == [from |-> binding, nth |-> objects + 1] IN
              /\ objects < MaxObject /\ objects' = objects + 1
              /\ handed' = handed \cup {o} /\ Kept(o)
    /\ UNCHANGED <<binding, last>>

Forget ==
    /\ binding' = 0 /\ instance' = {} /\ handed' = {}
    /\ last' = [last EXCEPT !.kept = FALSE, !.gone = TRUE]
    /\ UNCHANGED objects

Registers == Bind \/ Singleton \/ Instance
ServiceStep == Registers \/ Make \/ Forget

\* Between two changes of a key everyone who makes it gets one and the same
\* object, whether it was registered with bind, singleton or instance, and the
\* one of the last registration.  The one way to override a service in vain is
\* singleton() over an object somebody has already made.
MadeAsRegistered ==
    /\ Cardinality(handed) <= 1
    /\ \A o \in handed : o.from = last.number \/ last.kept
=============================================================================
