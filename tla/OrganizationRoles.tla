-------------------------- MODULE OrganizationRoles --------------------------
(***************************************************************************)
(* What auth-service promises the other services about organizations: who  *)
(* founds one administers it, nobody else gets a role there but from one   *)
(* of its administrators, and a role once given is kept (nothing in the    *)
(* repository takes one away).                                             *)
(***************************************************************************)
EXTENDS Naturals, FiniteSets

CONSTANTS
    Users,          \* who may sign up
    Organizations,  \* the organizations there may be
    Role            \* "admin", "operator", "viewer"

VARIABLE roles      \* of every user in every organization

Administrators(o) == {u \in Users : "admin" \in roles[o][u]}
IsMember(u, o) == roles[o][u] # {}

RolesTypeOK == roles \in [Organizations -> [Users -> SUBSET Role]]

Init == roles = [o \in Organizations |-> [u \in Users |-> {}]]

Found(u, o) ==
    /\ \A v \in Users : ~IsMember(v, o)
    /\ roles' = [roles EXCEPT ![o][u] = {"admin"}]

(* A user may be given a second role: two administrators who invite the    *)
(* same user at once both succeed.                                         *)
Add(a, u, o, r) ==
    /\ a \in Administrators(o)
    /\ roles' = [roles EXCEPT ![o][u] = @ \cup {r}]

Next ==
    \E o \in Organizations, u \in Users :
        \/ Found(u, o)
        \/ \E a \in Users, r \in Role : Add(a, u, o, r)

Spec == Init /\ [][Next]_roles
=============================================================================
