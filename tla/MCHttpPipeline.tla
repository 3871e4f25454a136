--------------------------- MODULE MCHttpPipeline ---------------------------
(* For TLC: an editor, who may do everything under "users", and a guest.      *)
EXTENDS HttpPipeline

HoldsMC == [editor |-> [roles |-> {"staff", "retired"}, permissions |-> {}],
            guest  |-> [roles |-> {}, permissions |-> {<<"users", "read">>}]]
RoleMapMC == [staff |-> {<<"users", "*">>}]
NeededMC == <<"users", "write">>
=============================================================================
