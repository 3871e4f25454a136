---------------------------- MODULE MCHookWiring ----------------------------
(* Hook files for TLC: "log" listens to an event twice over, "audit" shares   *)
(* its id with "again", and "typo" has a pattern that no event name grammar   *)
(* lets through.                                                              *)
EXTENDS HookWiring, TLC

CONSTANTS u, c, log, audit, again, typo, plain, empty, broken, nowhere

SegmentMC == {u, c, EmptySegment}
Exact == [star |-> "none", name |-> <<u, c>>]
Dotted == [star |-> "dotted", name |-> <<u>>]
Bad == [star |-> "none", name |-> <<EmptySegment>>]

PatternMC == {Exact, Dotted, Bad}
HookMC == {log, audit, again, typo, plain, empty, broken, nowhere}
IdMC == {"l", "a", "t", "p", "e", "b", "n"}
IdOfMC == (log :> "l") @@ (audit :> "a") @@ (again :> "a") @@ (typo :> "t")
            @@ (plain :> "p") @@ (empty :> "e") @@ (broken :> "b") @@ (nowhere :> "n")
OnMC == (log :> <<Dotted, Exact>>) @@ (audit :> <<Exact>>) @@ (again :> <<Dotted>>)
          @@ (typo :> <<Exact, Bad>>) @@ (plain :> <<>>) @@ (empty :> <<>>) @@ (broken :> <<>>) @@ (nowhere :> <<Bad>>)
GradeMC == (log :> "hook") @@ (audit :> "hook") @@ (again :> "hook") @@ (typo :> "hook")
             @@ (plain :> "ignored") @@ (empty :> "skipped") @@ (broken :> "broken")
             @@ (nowhere :> "hook")
FileListsMC == {<<log, audit, empty>>, <<log, typo>>, <<plain, broken>>, <<nowhere>>}
EventMC == {<<u, c>>, <<c>>}
=============================================================================
