----------------------------- MODULE Permissions -----------------------------
(* Grants and roles (src/auth/permissions.ts).  A permission is the sequence  *)
(* of its dot-separated segments; "*" is a grant of everything, and a last    *)
(* segment "*" grants everything under the rest.                              *)
EXTENDS SequencesExt

CONSTANTS Actor,    \* the actors that requests are made by
          Holds,    \* Holds[a]: the roles and the permissions of actor a
          RoleMap   \* PermissionGate.roles: role names and their permissions

ASSUME PermissionAssumption ==
    \A a \in Actor : Holds[a].roles \in SUBSET STRING

matchesPermission(granted, needed) ==
    \/ granted = <<"*">> \/ granted = needed
    \/ /\ Len(granted) > 1 /\ Last(granted) = "*"
       /\ IsStrictPrefix(Front(granted), needed)

\* A role nobody has defined grants nothing.
permissionsFor(a) ==
    Holds[a].permissions \cup UNION {RoleMap[r] : r \in Holds[a].roles \cap DOMAIN RoleMap}

can(a, needed) == \E granted \in permissionsFor(a) : matchesPermission(granted, needed)
=============================================================================
