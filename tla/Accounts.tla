------------------------------ MODULE Accounts ------------------------------
(***************************************************************************)
(* auth-service: accounts, organizations and memberships                   *)
(* (auth-service/app/routers/auth.py, organizations.py, core/deps.py).     *)
(*                                                                         *)
(* The handlers are plain functions, so FastAPI runs them in a pool of     *)
(* threads: any number at once.  Every query of a handler is an action of  *)
(* its own (it sees what other handlers have committed); an insert and its *)
(* commit are one, since nobody sees the row before the commit.  No row is *)
(* ever deleted, and nothing deactivates an account.                       *)
(***************************************************************************)
EXTENDS Naturals, FiniteSets

CONSTANTS
    Emails,        \* addresses people sign up with
    FirstEmails,   \* those that have an account at first
    Organizations, \* the organizations there may be
    Role,          \* common/roles.py
    MaxRequests    \* bound: requests that write

ASSUME AccountsAssumption ==
    /\ "admin" \in Role /\ "none" \notin Emails \cup Organizations
    /\ FirstEmails \subseteq Emails /\ MaxRequests \in Nat

VARIABLES
    users,         \* table users: e-mail and the request that made the row
    organizations, \* table organizations
    memberships,   \* table memberships
    request        \* the requests, in the order they are made

vars == <<users, organizations, memberships, request>>

Requests == 1 .. MaxRequests
User == [email: Emails, id: {0} \cup Requests]
Membership == [id: Requests, user: Emails, organization: Organizations,
               role: Role, by: Emails]
RequestRecord ==
    [kind: {"none", "signup", "create", "invite"}, caller: Emails \cup {"none"},
     email: Emails \cup {"none"}, organization: Organizations \cup {"none"},
     role: Role, step: {"unused", "begun", "allowed", "found", "absent", "done"},
     status: {0, 201, 400, 403, 404, 500}]

TypeOK ==
    /\ users \subseteq User
    /\ organizations \subseteq Organizations
    /\ memberships \subseteq Membership
    /\ request \in [Requests -> RequestRecord]

HasAccount(e) == \E u \in users : u.email = e
RolesOf(e, o) == {m.role : m \in {x \in memberships :
                                    x.user = e /\ x.organization = o}}

-----------------------------------------------------------------------------
Unused(n) ==
    /\ request[n].step = "unused"
    /\ \A k \in 1 .. n - 1 : request[k].step # "unused"

Place(n, kind, caller, email, o, r) ==
    /\ Unused(n)
    /\ request' = [request EXCEPT ![n] =
          [kind |-> kind, caller |-> caller, email |-> email, organization |-> o,
           role |-> r, step |-> "begun", status |-> 0]]
    /\ UNCHANGED <<users, organizations, memberships>>

Goes(n, step) ==
    /\ request' = [request EXCEPT ![n].step = step]
    /\ UNCHANGED <<users, organizations, memberships>>

Ends(n, status) ==
    request' = [request EXCEPT ![n] = [@ EXCEPT !.step = "done", !.status = status]]

Refused(n, status) == Ends(n, status) /\ UNCHANGED <<users, organizations, memberships>>

(* signup *)

Signup(n, e) == Place(n, "signup", "none", e, "none", "admin")

CheckEmail(n) ==
    /\ request[n].kind = "signup" /\ request[n].step = "begun"
    /\ IF HasAccount(request[n].email) THEN Refused(n, 400) ELSE Goes(n, "absent")

(* Mutant: users.email has no unique index. *)
SlipNoIndex(n) ==
    /\ request[n].kind = "signup" /\ request[n].step = "absent"
    /\ users' = users \cup {[email |-> request[n].email, id |-> n]}
    /\ Ends(n, 201)
    /\ UNCHANGED <<organizations, memberships>>

(* The password has been hashed; the unique index decides a race.          *)
InsertUser(n) ==
    /\ request[n].kind = "signup" /\ request[n].step = "absent"
    /\ \/ HasAccount(request[n].email) /\ Refused(n, 500)
       \/ /\ ~HasAccount(request[n].email)
          /\ users' = users \cup {[email |-> request[n].email, id |-> n]}
          /\ Ends(n, 201)
          /\ UNCHANGED <<organizations, memberships>>

(* create_organization: get_current_user found an active account.          *)
CreateOrganization(n, u) ==
    /\ HasAccount(u)
    /\ Place(n, "create", u, "none", "none", "admin")

(* Mutant: the organization is committed before its first membership. *)
SlipTwoCommits(n) ==
    /\ request[n].kind = "create"
    /\ \/ /\ request[n].step = "begun"
          /\ \E o \in Organizations \ organizations :
                /\ organizations' = organizations \cup {o}
                /\ request' = [request EXCEPT ![n].step = "found",
                                              ![n].organization = o]
          /\ UNCHANGED <<users, memberships>>
       \/ /\ request[n].step = "found"
          /\ memberships' = memberships \cup
                {[id |-> n, user |-> request[n].caller, role |-> "admin",
                  organization |-> request[n].organization, by |-> request[n].caller]}
          /\ Ends(n, 201)
          /\ UNCHANGED <<users, organizations>>

InsertOrganization(n) ==
    /\ request[n].kind = "create" /\ request[n].step = "begun"
    /\ \E o \in Organizations \ organizations :
          /\ organizations' = organizations \cup {o}
          /\ memberships' = memberships \cup
                {[id |-> n, user |-> request[n].caller, organization |-> o,
                  role |-> "admin", by |-> request[n].caller]}
    /\ Ends(n, 201)
    /\ UNCHANGED users

(* invite_member *)

Invite(n, a, e, o, r) ==
    /\ HasAccount(a)
    /\ Place(n, "invite", a, e, o, r)

(* Mutant: any member may invite. *)
SlipAnyRole(n) ==
    /\ request[n].kind = "invite" /\ request[n].step = "begun"
    /\ IF RolesOf(request[n].caller, request[n].organization) # {}
       THEN Goes(n, "allowed") ELSE Refused(n, 403)

(* require_role(Role.admin): the first membership row the database finds   *)
(* decides, whichever that is when there are two.                          *)
RequireAdmin(n) ==
    /\ request[n].kind = "invite" /\ request[n].step = "begun"
    /\ LET held == RolesOf(request[n].caller, request[n].organization)
       IN  \/ "admin" \in held /\ Goes(n, "allowed")
           \/ held \ {"admin"} # {} /\ Refused(n, 403)
           \/ held = {} /\ Refused(n, 403)

FindInvited(n) ==
    /\ request[n].kind = "invite" /\ request[n].step = "allowed"
    /\ IF HasAccount(request[n].email) THEN Goes(n, "found") ELSE Refused(n, 404)

FindMembership(n) ==
    /\ request[n].kind = "invite" /\ request[n].step = "found"
    /\ IF RolesOf(request[n].email, request[n].organization) # {}
       THEN Refused(n, 400) ELSE Goes(n, "absent")

(* Mutant: the handler forgets to commit. *)
SlipNoCommit(n) ==
    /\ request[n].kind = "invite" /\ request[n].step = "absent"
    /\ Refused(n, 201)

(* Mutant: an invitation replaces the role its user has. *)
SlipReplace(n) ==
    /\ request[n].kind = "invite" /\ request[n].step = "absent"
    /\ memberships' = {m \in memberships :
                         m.user # request[n].email
                         \/ m.organization # request[n].organization}
          \cup {[id |-> n, user |-> request[n].email, role |-> request[n].role,
                 organization |-> request[n].organization, by |-> request[n].caller]}
    /\ Ends(n, 201)
    /\ UNCHANGED <<users, organizations>>

InsertMembership(n) ==
    /\ request[n].kind = "invite" /\ request[n].step = "absent"
    /\ memberships' = memberships \cup
          {[id |-> n, user |-> request[n].email, role |-> request[n].role,
            organization |-> request[n].organization, by |-> request[n].caller]}
    /\ Ends(n, 201)
    /\ UNCHANGED <<users, organizations>>

(* The service restarts: requests that run are gone, what is committed     *)
(* stays.                                                                  *)
Crash ==
    LET running == {n \in Requests : request[n].step \notin {"unused", "done"}}
    IN  /\ running # {}
        /\ request' = [n \in Requests |->
              IF n \in running THEN [request[n] EXCEPT !.step = "done"] ELSE request[n]]
        /\ UNCHANGED <<users, organizations, memberships>>

-----------------------------------------------------------------------------
Init ==
    /\ users = {[email |-> e, id |-> 0] : e \in FirstEmails}
    /\ organizations = {} /\ memberships = {}
    /\ request = [n \in Requests |->
          [kind |-> "none", caller |-> "none", email |-> "none",
           organization |-> "none", role |-> "admin", step |-> "unused", status |-> 0]]

Next ==
    \/ \E n \in Requests, e \in Emails :
          \/ Signup(n, e) \/ CreateOrganization(n, e)
          \/ \E a \in Emails, o \in organizations, r \in Role : Invite(n, a, e, o, r)
    \/ \E n \in Requests :
          \/ CheckEmail(n) \/ InsertUser(n)
          \/ InsertOrganization(n)
          \/ RequireAdmin(n) \/ FindInvited(n) \/ FindMembership(n) \/ InsertMembership(n)
    \/ Crash

Spec == Init /\ [][Next]_vars

-----------------------------------------------------------------------------
(* Properties *)

(* An address has one account, however many people sign up with it at once.*)
OneAccountPerEmail == \A u, v \in users : u.email = v.email => u = v

(* Who was told 201 has what was asked for: the account is his own, the    *)
(* organization has its founder, the member his role - restart or not.     *)
AnsweredIsStored ==
    \A n \in Requests : request[n].status = 201 =>
        CASE request[n].kind = "signup" -> [email |-> request[n].email, id |-> n] \in users
          [] OTHER -> \E m \in memberships : m.id = n /\ m.role = request[n].role

(* An organization has an administrator from the moment it can be seen,    *)
(* whenever the service stops.                                             *)
OrganizationsAreRun == \A o \in organizations : \E e \in Emails : "admin" \in RolesOf(e, o)

(* Members are accounts, and every one of them was let in by somebody who  *)
(* is an administrator; the founder by himself.                            *)
LetInByAdministrators ==
    \A m \in memberships :
        /\ HasAccount(m.user) /\ m.organization \in organizations
        /\ "admin" \in RolesOf(m.by, m.organization)

(* auth-service keeps what it promises the other services.                 *)
Promised == INSTANCE OrganizationRoles
    WITH Users <- Emails,
         roles <- [o \in Organizations |-> [e \in Emails |-> RolesOf(e, o)]]
ImplementsRoles == Promised!Spec
=============================================================================
