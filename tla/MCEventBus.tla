----------------------------- MODULE MCEventBus -----------------------------
(* A small instance of EventBus for TLC: the pattern "u.*" and the names u.c  *)
(* and b.                                                                     *)
EXTENDS EventBus

CONSTANTS u, c, b

SegmentMC == {u, c, b, EmptySegment}
PatternMC == {[star |-> "dotted", name |-> <<u>>]}
EventMC == {<<u, c>>, <<b>>}
=============================================================================
