------------------------------ MODULE MCKernel ------------------------------
(* Two apps in one process, for TLC: one with a key and a Mongo of its own,   *)
(* one that takes its key from its .env and keeps its rows in memory.         *)
EXTENDS Kernel, TLC

CONSTANTS a1, a2, r1, r2, k1, k2

ConfigMC ==
    (a1 :> [key |-> k1, mongo |-> TRUE, dotenv |-> None])
 @@ (a2 :> [key |-> None, mongo |-> FALSE, dotenv |-> k2])
PlaceMC == (r1 :> a1) @@ (r2 :> Memory)

\* A bound: a behaviour in which rows are written leaves the container to the
\* one registration of its provider; in one that uses the container further no
\* row is written and nobody sets the key by hand.
ModelsOrServices ==
    \/ ~disturbed /\ calls = {} /\ \A r \in Row : rows[r] = Absent
    \/ /\ last.number <= 1 /\ ~last.gone /\ objects = 0 /\ handed = {} /\ instance = {}
       /\ bound => at[Watched].phase \in {"files", "boot", "ready", "failed"}

\* A bound: no call is under way while providers register and boot, which do
\* nothing that calls could tell apart.
CallsElsewhere ==
    calls # {} => \A a \in App : at[a].phase \notin {"register", "files", "boot"}
=============================================================================
