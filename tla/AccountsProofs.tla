--------------------------- MODULE AccountsProofs ---------------------------
(***************************************************************************)
(* Theorems about Accounts, for any addresses, organizations, roles and    *)
(* number of requests.  The handlers check and then act, on threads: the   *)
(* invariant says what a request has found out, and that it still holds,   *)
(* because no row of auth-service is ever changed or removed.              *)
(***************************************************************************)
EXTENDS Accounts, TLAPS

-----------------------------------------------------------------------------
(* Types.                                                                  *)

\* A request has the fields its kind reads.
Filled ==
    \A n \in Requests :
        /\ request[n].kind \in {"signup", "invite"} => request[n].email \in Emails
        /\ request[n].kind \in {"create", "invite"} => request[n].caller \in Emails
        /\ request[n].kind = "invite" => request[n].organization \in organizations

TypeInv == TypeOK /\ Filled

LEMMA TypeInit == Init => TypeInv
<1> SUFFICES ASSUME Init PROVE TypeInv
    OBVIOUS
<1>1. users \subseteq User
    BY AccountsAssumption DEF Init, User
<1>2. request \in [Requests -> RequestRecord]
    BY AccountsAssumption DEF Init, RequestRecord
<1>3. Filled
    BY DEF Init, Filled
<1> QED
    BY <1>1, <1>2, <1>3 DEF Init, TypeInv, TypeOK

\* The three ways requests change: one arrives, moves on, or ends.
LEMMA PlaceTyped ==
    ASSUME TypeInv, NEW n \in Requests, NEW kind, NEW caller, NEW email, NEW o, NEW r,
           kind \in {"signup", "create", "invite"},
           caller \in Emails \cup {"none"}, email \in Emails \cup {"none"},
           o \in Organizations \cup {"none"}, r \in Role,
           kind \in {"signup", "invite"} => email \in Emails,
           kind \in {"create", "invite"} => caller \in Emails,
           kind = "invite" => o \in organizations,
           Place(n, kind, caller, email, o, r)
    PROVE  TypeInv'
<1> DEFINE new == [kind |-> kind, caller |-> caller, email |-> email, organization |-> o,
                   role |-> r, step |-> "begun", status |-> 0]
<1>1. new \in RequestRecord
    BY DEF RequestRecord
<1>2. request' = [request EXCEPT ![n] = new]
    BY DEF Place
<1> HIDE DEF new
<1>3. request' \in [Requests -> RequestRecord]
    BY <1>1, <1>2 DEF TypeInv, TypeOK
<1>4. UNCHANGED <<users, organizations, memberships>>
    BY DEF Place
<1>5. \A k \in Requests : request'[k] = IF k = n THEN new ELSE request[k]
    BY <1>2 DEF TypeInv, TypeOK
<1>6. Filled'
    BY <1>4, <1>5 DEF new, Filled, TypeInv
<1> QED
    BY <1>3, <1>4, <1>6 DEF TypeInv, TypeOK

SameFields ==
    \A k \in Requests : /\ request'[k].kind = request[k].kind
                         /\ request'[k].email = request[k].email
                         /\ request'[k].caller = request[k].caller
                         /\ request'[k].organization = request[k].organization
                         /\ request'[k].role = request[k].role

LEMMA GoesTyped ==
    ASSUME TypeInv, NEW n \in Requests,
           NEW step \in {"unused", "begun", "allowed", "found", "absent", "done"},
           Goes(n, step)
    PROVE  TypeInv' /\ SameFields
<1>1. request' = [request EXCEPT ![n].step = step]
      /\ UNCHANGED <<users, organizations, memberships>>
    BY DEF Goes
<1>2. request' \in [Requests -> RequestRecord] /\ SameFields
    BY <1>1 DEF TypeInv, TypeOK, RequestRecord, SameFields
<1> QED
    BY <1>1, <1>2 DEF TypeInv, TypeOK, Filled, SameFields

LEMMA EndsTyped ==
    ASSUME TypeInv, NEW n \in Requests, NEW status \in {0, 201, 400, 403, 404, 500},
           Ends(n, status), organizations \subseteq organizations'
    PROVE  request' \in [Requests -> RequestRecord] /\ Filled' /\ SameFields
<1> DEFINE r == [request[n] EXCEPT !.step = "done"]
           q == [r EXCEPT !.status = status]
<1>1. request[n] \in RequestRecord /\ request \in [Requests -> RequestRecord]
    BY DEF TypeInv, TypeOK
<1>2. request' = [request EXCEPT ![n] = q]
    BY <1>1 DEF Ends
<1>3. /\ r \in RequestRecord
      /\ r.kind = request[n].kind /\ r.email = request[n].email
      /\ r.caller = request[n].caller /\ r.role = request[n].role
      /\ r.organization = request[n].organization
    BY <1>1 DEF RequestRecord
<1> HIDE DEF r
<1>4. /\ q \in RequestRecord
      /\ q.kind = r.kind /\ q.email = r.email
      /\ q.caller = r.caller /\ q.role = r.role /\ q.organization = r.organization
    BY <1>3 DEF RequestRecord
<1> HIDE DEF q
<1>5. request' \in [Requests -> RequestRecord] /\ SameFields
    BY <1>1, <1>2, <1>3, <1>4 DEF SameFields
<1> QED
    BY <1>5 DEF TypeInv, Filled, SameFields

LEMMA RefusedTyped ==
    ASSUME TypeInv, NEW n \in Requests, NEW status \in {0, 201, 400, 403, 404, 500},
           Refused(n, status)
    PROVE  TypeInv' /\ SameFields
<1>1. Ends(n, status) /\ UNCHANGED <<users, organizations, memberships>>
    BY DEF Refused
<1>2. request' \in [Requests -> RequestRecord] /\ Filled' /\ SameFields
    BY <1>1, EndsTyped
<1> QED
    BY <1>1, <1>2 DEF TypeInv, TypeOK

LEMMA TypeNext == TypeInv /\ [Next]_vars => TypeInv'
<1> SUFFICES ASSUME TypeInv, [Next]_vars PROVE TypeInv'
    OBVIOUS
<1>1. ASSUME NEW n \in Requests, NEW e \in Emails, Signup(n, e) PROVE TypeInv'
    BY <1>1, PlaceTyped, AccountsAssumption DEF Signup
<1>2. ASSUME NEW n \in Requests, NEW e \in Emails, CreateOrganization(n, e) PROVE TypeInv'
    BY <1>2, PlaceTyped, AccountsAssumption DEF CreateOrganization
<1>3. ASSUME NEW n \in Requests, NEW e \in Emails, NEW a \in Emails,
             NEW o \in organizations, NEW r \in Role, Invite(n, a, e, o, r)
      PROVE  TypeInv'
    BY <1>3, PlaceTyped DEF Invite, TypeInv, TypeOK
<1>4. ASSUME NEW n \in Requests,
             CheckEmail(n) \/ RequireAdmin(n) \/ FindInvited(n) \/ FindMembership(n)
      PROVE  TypeInv'
    <2>1. \/ \E step \in {"allowed", "found", "absent"} : Goes(n, step)
          \/ \E status \in {400, 403, 404} : Refused(n, status)
        BY <1>4 DEF CheckEmail, RequireAdmin, FindInvited, FindMembership
    <2> QED
        BY <2>1, GoesTyped, RefusedTyped
<1>5. ASSUME NEW n \in Requests, InsertUser(n) PROVE TypeInv'
    <2>1. request[n].email \in Emails
        BY <1>5 DEF InsertUser, TypeInv, Filled
    <2>2. users' \subseteq User /\ UNCHANGED <<organizations, memberships>>
        BY <1>5, <2>1 DEF InsertUser, Refused, TypeInv, TypeOK, User
    <2>3. \E status \in {201, 500} : Ends(n, status)
        BY <1>5 DEF InsertUser, Refused
    <2> QED
        BY <2>2, <2>3, EndsTyped DEF TypeInv, TypeOK
<1>6. ASSUME NEW n \in Requests, InsertOrganization(n) PROVE TypeInv'
    <2>1. request[n].caller \in Emails
        BY <1>6 DEF InsertOrganization, TypeInv, Filled
    <2>2. /\ users' = users /\ organizations \subseteq organizations'
          /\ organizations' \subseteq Organizations /\ memberships' \subseteq Membership
        BY <1>6, <2>1, AccountsAssumption
        DEF InsertOrganization, TypeInv, TypeOK, Membership
    <2>3. Ends(n, 201)
        BY <1>6 DEF InsertOrganization
    <2> QED
        BY <2>2, <2>3, EndsTyped DEF TypeInv, TypeOK
<1>7. ASSUME NEW n \in Requests, InsertMembership(n) PROVE TypeInv'
    <2>1. /\ request[n].email \in Emails /\ request[n].caller \in Emails
          /\ request[n].organization \in Organizations
        BY <1>7 DEF InsertMembership, TypeInv, TypeOK, Filled
    <2>2. request[n].role \in Role
        BY DEF TypeInv, TypeOK, RequestRecord
    <2>3. memberships' \subseteq Membership /\ UNCHANGED <<users, organizations>>
        BY <1>7, <2>1, <2>2 DEF InsertMembership, TypeInv, TypeOK, Membership
    <2>4. Ends(n, 201)
        BY <1>7 DEF InsertMembership
    <2> QED
        BY <2>3, <2>4, EndsTyped DEF TypeInv, TypeOK
<1>8. CASE Crash
    <2>1. UNCHANGED <<users, organizations, memberships>>
        BY <1>8 DEF Crash
    <2>2. request' \in [Requests -> RequestRecord]
        BY <1>8 DEF Crash, TypeInv, TypeOK, RequestRecord
    <2>3. SameFields
        BY <1>8 DEF Crash, TypeInv, TypeOK, RequestRecord, SameFields
    <2> QED
        BY <2>1, <2>2, <2>3 DEF TypeInv, TypeOK, Filled, SameFields
<1>9. CASE UNCHANGED vars
    BY <1>9 DEF vars, TypeInv, TypeOK, Filled
<1> QED
    BY <1>1, <1>2, <1>3, <1>4, <1>5, <1>6, <1>7, <1>8, <1>9 DEF Next

LEMMA TypesCorrect == Spec => []TypeInv
<1> QED
    BY TypeInit, TypeNext, PTL DEF Spec

\* Every reachable state is well typed.
THEOREM AccountTypes == Spec => []TypeOK
<1>1. TypeInv => TypeOK
    BY DEF TypeInv
<1> QED
    BY <1>1, TypesCorrect, PTL

-----------------------------------------------------------------------------
(* Nothing is taken away.                                                  *)

LEMMA TablesGrow ==
    ASSUME [Next]_vars
    PROVE  /\ users \subseteq users'
           /\ organizations \subseteq organizations'
           /\ memberships \subseteq memberships'
BY DEF Next, vars, Signup, CreateOrganization, Invite, CheckEmail, InsertUser,
       InsertOrganization, RequireAdmin, FindInvited, FindMembership, InsertMembership,
       Crash, Place, Goes, Refused

\* What a request found in the tables is still there when it acts on it.
LEMMA FoundForGood ==
    ASSUME [Next]_vars
    PROVE  /\ \A e : HasAccount(e) => HasAccount(e)'
           /\ \A e, o : RolesOf(e, o) \subseteq RolesOf(e, o)'
<1>1. users \subseteq users' /\ memberships \subseteq memberships'
    BY TablesGrow
<1>2. \A e : HasAccount(e) => HasAccount(e)'
    BY <1>1 DEF HasAccount
<1>3. \A e, o : RolesOf(e, o) \subseteq RolesOf(e, o)'
    BY <1>1 DEF RolesOf
<1> QED
    BY <1>2, <1>3

-----------------------------------------------------------------------------
(* What a request has found out by the step it is at.                      *)

Known(n) ==
    /\ request[n].kind = "create" => request[n].role = "admin"
    /\ request[n].kind \in {"create", "invite"} => HasAccount(request[n].caller)
    /\ request[n].kind = "invite" =>
          /\ request[n].step \in {"allowed", "found", "absent"} =>
                "admin" \in RolesOf(request[n].caller, request[n].organization)
          /\ request[n].step \in {"found", "absent"} => HasAccount(request[n].email)

Informed == \A n \in Requests : Known(n)

RowsInv == OneAccountPerEmail /\ OrganizationsAreRun /\ LetInByAdministrators
AccountsInv == Informed /\ RowsInv /\ AnsweredIsStored

LEMMA AccountsInit == Init => AccountsInv
<1> SUFFICES ASSUME Init PROVE AccountsInv
    OBVIOUS
<1>1. OneAccountPerEmail /\ OrganizationsAreRun /\ LetInByAdministrators
    BY DEF Init, OneAccountPerEmail, OrganizationsAreRun, LetInByAdministrators
<1>2. Informed /\ AnsweredIsStored
    BY DEF Init, Informed, Known, AnsweredIsStored
<1> QED
    BY <1>1, <1>2 DEF AccountsInv, RowsInv

\* What was known of a request stays known while its fields stay.
LEMMA KnownKept ==
    ASSUME [Next]_vars, SameFields, NEW k \in Requests, Known(k),
           request'[k].step \in {request[k].step, "done"}
    PROVE  Known(k)'
<1>1. /\ \A u : u \in users => u \in users'
      /\ \A m : m \in memberships => m \in memberships'
    BY TablesGrow
<1> QED
    BY <1>1 DEF SameFields, Known, HasAccount, RolesOf

\* The step and the status of every request after one moved on, or ended.
LEMMA GoesSteps ==
    ASSUME TypeInv, NEW n \in Requests, NEW step, Goes(n, step), NEW k \in Requests
    PROVE  /\ request'[k].step = (IF k = n THEN step ELSE request[k].step)
           /\ request'[k].status = request[k].status
BY DEF Goes, TypeInv, TypeOK, RequestRecord

LEMMA EndsSteps ==
    ASSUME TypeInv, NEW n \in Requests, NEW status, Ends(n, status), NEW k \in Requests
    PROVE  /\ request'[k].step = (IF k = n THEN "done" ELSE request[k].step)
           /\ request'[k].status = (IF k = n THEN status ELSE request[k].status)
<1> DEFINE r == [request[n] EXCEPT !.step = "done"]
           q == [r EXCEPT !.status = status]
<1>1. request[n] \in RequestRecord /\ request \in [Requests -> RequestRecord]
    BY DEF TypeInv, TypeOK
<1>2. request' = [request EXCEPT ![n] = q]
    BY <1>1 DEF Ends
<1>3. r \in RequestRecord /\ r.step = "done"
    BY <1>1 DEF RequestRecord
<1> HIDE DEF r
<1>4. q.step = r.step /\ q.status = status
    BY <1>3 DEF RequestRecord
<1> QED
    BY <1>1, <1>2, <1>3, <1>4

LEMMA InformedNext == TypeInv /\ Informed /\ [Next]_vars => Informed'
<1> SUFFICES ASSUME TypeInv, Informed, [Next]_vars, NEW k \in Requests PROVE Known(k)'
    BY DEF Informed
<1>0. Known(k)
    BY DEF Informed
<1>1. ASSUME NEW n \in Requests, NEW kind, NEW caller, NEW email, NEW o, NEW r,
             kind \in {"create", "invite"} => HasAccount(caller),
             kind = "create" => r = "admin",
             Place(n, kind, caller, email, o, r)
      PROVE  Known(k)'
    <2>1. /\ request'[k] = (IF k = n THEN [kind |-> kind, caller |-> caller,
                 email |-> email, organization |-> o, role |-> r, step |-> "begun",
                 status |-> 0] ELSE request[k])
          /\ UNCHANGED <<users, memberships>>
        BY <1>1 DEF Place, TypeInv, TypeOK
    <2> QED
        BY <1>0, <1>1, <2>1 DEF Known, HasAccount, RolesOf
<1>2. ASSUME NEW n \in Requests, NEW status, Ends(n, status), SameFields PROVE Known(k)'
    BY <1>0, <1>2, EndsSteps, KnownKept
<1>3. ASSUME NEW n \in Requests, NEW status, Refused(n, status), SameFields PROVE Known(k)'
    BY <1>2, <1>3 DEF Refused
<1>4. ASSUME NEW n \in Requests,
             NEW step \in {"allowed", "found", "absent"}, Goes(n, step),
             k = n => /\ request[k].kind # "create"
                      /\ request[k].kind = "invite" =>
                            /\ "admin" \in RolesOf(request[k].caller, request[k].organization)
                            /\ step # "allowed" => HasAccount(request[k].email)
      PROVE  Known(k)'
    <2>1. SameFields /\ UNCHANGED <<users, memberships>>
        BY <1>4, GoesTyped DEF Goes
    <2>2. request'[k].step = IF k = n THEN step ELSE request[k].step
        BY <1>4, GoesSteps
    <2> QED
        BY <1>0, <1>4, <2>1, <2>2 DEF SameFields, Known, HasAccount, RolesOf
<1>5. ASSUME NEW n \in Requests, NEW e \in Emails, Signup(n, e) PROVE Known(k)'
    BY <1>1, <1>5 DEF Signup
<1>6. ASSUME NEW n \in Requests, NEW e \in Emails, CreateOrganization(n, e) PROVE Known(k)'
    BY <1>1, <1>6 DEF CreateOrganization
<1>7. ASSUME NEW n \in Requests, NEW e \in Emails, NEW a \in Emails,
             NEW o \in organizations, NEW r \in Role, Invite(n, a, e, o, r)
      PROVE  Known(k)'
    BY <1>1, <1>7 DEF Invite
<1>8. ASSUME NEW n \in Requests,
             CheckEmail(n) \/ RequireAdmin(n) \/ FindInvited(n) \/ FindMembership(n)
      PROVE  Known(k)'
    <2>1. CASE \E status \in {400, 403, 404} : Refused(n, status)
        BY <2>1, <1>3, RefusedTyped
    <2>2. CASE CheckEmail(n) /\ Goes(n, "absent")
        BY <2>2, <1>4 DEF CheckEmail
    <2>3. CASE RequireAdmin(n) /\ Goes(n, "allowed")
               /\ "admin" \in RolesOf(request[n].caller, request[n].organization)
        BY <2>3, <1>4 DEF RequireAdmin
    <2>4. CASE FindInvited(n) /\ Goes(n, "found") /\ HasAccount(request[n].email)
        <3>1. Known(n)
            BY DEF Informed
        <3> QED
            BY <2>4, <3>1, <1>4 DEF FindInvited, Known
    <2>5. CASE FindMembership(n) /\ Goes(n, "absent")
        <3>1. Known(n)
            BY DEF Informed
        <3> QED
            BY <2>5, <3>1, <1>4 DEF FindMembership, Known
    <2> QED
        BY <1>8, <2>1, <2>2, <2>3, <2>4, <2>5
        DEF CheckEmail, RequireAdmin, FindInvited, FindMembership
<1>9. ASSUME NEW n \in Requests,
             InsertUser(n) \/ InsertOrganization(n) \/ InsertMembership(n)
      PROVE  Known(k)'
    <2>1. \E status \in {201, 500} : Ends(n, status)
        BY <1>9 DEF InsertUser, InsertOrganization, InsertMembership, Refused
    <2>2. SameFields
        BY <2>1, EndsTyped, TablesGrow
    <2> QED
        BY <1>2, <2>1, <2>2
<1>10. CASE Crash
    <2>1. SameFields /\ request'[k].step \in {request[k].step, "done"}
        BY <1>10 DEF Crash, TypeInv, TypeOK, RequestRecord, SameFields
    <2> QED
        BY <1>0, <2>1, KnownKept
<1>11. CASE UNCHANGED vars
    BY <1>0, <1>11 DEF vars, Known, HasAccount, RolesOf
<1> QED
    BY <1>5, <1>6, <1>7, <1>8, <1>9, <1>10, <1>11 DEF Next

-----------------------------------------------------------------------------
(* The rows.                                                               *)

\* Three kinds of step write rows; what they read in the tables they write.
LEMMA RowsWritten ==
    ASSUME TypeInv, Informed, [Next]_vars
    PROVE  \/ UNCHANGED <<users, organizations, memberships>>
           \/ \E n \in Requests : InsertUser(n) /\ ~HasAccount(request[n].email)
                 /\ users' = users \cup {[email |-> request[n].email, id |-> n]}
                 /\ UNCHANGED <<organizations, memberships>>
           \/ \E n \in Requests, o \in Organizations \ organizations :
                 /\ InsertOrganization(n) /\ HasAccount(request[n].caller)
                 /\ request[n].caller \in Emails /\ request[n].role = "admin"
                 /\ organizations' = organizations \cup {o}
                 /\ memberships' = memberships \cup
                       {[id |-> n, user |-> request[n].caller, organization |-> o,
                         role |-> "admin", by |-> request[n].caller]}
                 /\ users' = users
           \/ \E n \in Requests :
                 /\ InsertMembership(n) /\ HasAccount(request[n].email)
                 /\ request[n].email \in Emails /\ request[n].caller \in Emails
                 /\ request[n].organization \in organizations /\ request[n].role \in Role
                 /\ "admin" \in RolesOf(request[n].caller, request[n].organization)
                 /\ memberships' = memberships \cup
                       {[id |-> n, user |-> request[n].email, role |-> request[n].role,
                         organization |-> request[n].organization,
                         by |-> request[n].caller]}
                 /\ UNCHANGED <<users, organizations>>
<1>1. ASSUME NEW n \in Requests
      PROVE  Known(n) /\ request[n].role \in Role
             /\ (request[n].kind \in {"signup", "invite"} => request[n].email \in Emails)
             /\ (request[n].kind \in {"create", "invite"} => request[n].caller \in Emails)
             /\ (request[n].kind = "invite" => request[n].organization \in organizations)
    BY DEF Informed, TypeInv, TypeOK, Filled, RequestRecord
<1>2. ASSUME NEW n \in Requests, InsertUser(n)
      PROVE  \/ UNCHANGED <<users, organizations, memberships>>
             \/ /\ ~HasAccount(request[n].email)
                /\ users' = users \cup {[email |-> request[n].email, id |-> n]}
                /\ UNCHANGED <<organizations, memberships>>
    BY <1>2 DEF InsertUser, Refused
<1>3. ASSUME NEW n \in Requests, InsertOrganization(n)
      PROVE  \E o \in Organizations \ organizations :
                /\ HasAccount(request[n].caller) /\ request[n].caller \in Emails
                /\ request[n].role = "admin"
                /\ organizations' = organizations \cup {o}
                /\ memberships' = memberships \cup
                       {[id |-> n, user |-> request[n].caller, organization |-> o,
                         role |-> "admin", by |-> request[n].caller]}
                /\ users' = users
    <2>1. PICK o \in Organizations \ organizations :
             /\ organizations' = organizations \cup {o}
             /\ memberships' = memberships \cup
                   {[id |-> n, user |-> request[n].caller, organization |-> o,
                     role |-> "admin", by |-> request[n].caller]}
        BY <1>3 DEF InsertOrganization
    <2>2. request[n].kind = "create" /\ users' = users
        BY <1>3 DEF InsertOrganization
    <2>3. /\ HasAccount(request[n].caller) /\ request[n].caller \in Emails
          /\ request[n].role = "admin"
        BY <1>1, <2>2 DEF Known
    <2> QED
        BY <2>1, <2>2, <2>3
<1>4. ASSUME NEW n \in Requests, InsertMembership(n)
      PROVE  /\ HasAccount(request[n].email)
             /\ request[n].email \in Emails /\ request[n].caller \in Emails
             /\ request[n].organization \in organizations /\ request[n].role \in Role
             /\ "admin" \in RolesOf(request[n].caller, request[n].organization)
             /\ memberships' = memberships \cup
                   {[id |-> n, user |-> request[n].email, role |-> request[n].role,
                     organization |-> request[n].organization, by |-> request[n].caller]}
             /\ UNCHANGED <<users, organizations>>
    <2>1. request[n].kind = "invite" /\ request[n].step = "absent"
        BY <1>4 DEF InsertMembership
    <2>2. /\ HasAccount(request[n].email)
          /\ "admin" \in RolesOf(request[n].caller, request[n].organization)
        BY <1>1, <2>1 DEF Known
    <2> QED
        BY <1>1, <1>4, <2>1, <2>2 DEF InsertMembership
<1>5. \/ UNCHANGED <<users, organizations, memberships>>
      \/ \E n \in Requests : InsertUser(n) \/ InsertOrganization(n) \/ InsertMembership(n)
    BY DEF Next, vars, Signup, CreateOrganization, Invite, CheckEmail, RequireAdmin,
           FindInvited, FindMembership, Crash, Place, Goes, Refused
<1> QED
    BY <1>2, <1>3, <1>4, <1>5

LEMMA RowsNext == TypeInv /\ Informed /\ RowsInv /\ [Next]_vars => RowsInv'
<1> SUFFICES ASSUME TypeInv, Informed, RowsInv, [Next]_vars PROVE RowsInv'
    OBVIOUS
<1>0. OneAccountPerEmail /\ OrganizationsAreRun /\ LetInByAdministrators
    BY DEF RowsInv
<1>1. CASE UNCHANGED <<users, organizations, memberships>>
    BY <1>0, <1>1 DEF RowsInv, OneAccountPerEmail, OrganizationsAreRun,
                      LetInByAdministrators, HasAccount, RolesOf
<1>2. ASSUME NEW n \in Requests, ~HasAccount(request[n].email),
             users' = users \cup {[email |-> request[n].email, id |-> n]},
             UNCHANGED <<organizations, memberships>>
      PROVE  RowsInv'
    <2>1. OneAccountPerEmail'
        BY <1>0, <1>2 DEF OneAccountPerEmail, HasAccount
    <2>2. OrganizationsAreRun' /\ LetInByAdministrators'
        BY <1>0, <1>2 DEF OrganizationsAreRun, LetInByAdministrators, HasAccount, RolesOf
    <2> QED
        BY <2>1, <2>2 DEF RowsInv
<1>3. ASSUME NEW m, NEW o, organizations' = organizations \cup {o},
             memberships' = memberships \cup {m}, users' = users,
             m.organization \in organizations', HasAccount(m.user),
             o \in organizations \/ (m.organization = o /\ m.role = "admin"
                                       /\ m.user \in Emails),
             \/ "admin" \in RolesOf(m.by, m.organization)
             \/ m.user = m.by /\ m.role = "admin"
      PROVE  RowsInv'
    <2>1. OneAccountPerEmail'
        BY <1>0, <1>3 DEF OneAccountPerEmail
    <2>2. OrganizationsAreRun'
        BY <1>0, <1>3 DEF OrganizationsAreRun, RolesOf
    <2>3. "admin" \in RolesOf(m.by, m.organization)'
        BY <1>3 DEF RolesOf
    <2>4. LetInByAdministrators'
        BY <1>0, <1>3, <2>3 DEF LetInByAdministrators, HasAccount, RolesOf
    <2> QED
        BY <2>1, <2>2, <2>4 DEF RowsInv
<1>4. ASSUME NEW n \in Requests, NEW o \in Organizations \ organizations,
             HasAccount(request[n].caller), request[n].caller \in Emails,
             organizations' = organizations \cup {o},
             memberships' = memberships \cup
                {[id |-> n, user |-> request[n].caller, organization |-> o,
                  role |-> "admin", by |-> request[n].caller]},
             users' = users
      PROVE  RowsInv'
    <2> DEFINE m == [id |-> n, user |-> request[n].caller, organization |-> o,
                     role |-> "admin", by |-> request[n].caller]
    <2>1. m.organization = o /\ m.user = request[n].caller /\ m.by = m.user /\ m.role = "admin"
        OBVIOUS
    <2>2. memberships' = memberships \cup {m}
        BY <1>4
    <2> HIDE DEF m
    <2> QED
        BY <1>3, <1>4, <2>1, <2>2
<1>5. ASSUME NEW n \in Requests, HasAccount(request[n].email),
             request[n].organization \in organizations,
             "admin" \in RolesOf(request[n].caller, request[n].organization),
             memberships' = memberships \cup
                {[id |-> n, user |-> request[n].email, role |-> request[n].role,
                  organization |-> request[n].organization, by |-> request[n].caller]},
             UNCHANGED <<users, organizations>>
      PROVE  RowsInv'
    <2> DEFINE m == [id |-> n, user |-> request[n].email, role |-> request[n].role,
                     organization |-> request[n].organization, by |-> request[n].caller]
    <2>1. /\ m.organization = request[n].organization /\ m.user = request[n].email
          /\ m.by = request[n].caller
        OBVIOUS
    <2>2. /\ memberships' = memberships \cup {m}
          /\ organizations' = organizations \cup {request[n].organization}
        BY <1>5
    <2> HIDE DEF m
    <2> QED
        BY <1>3, <1>5, <2>1, <2>2
<1> QED
    BY RowsWritten, <1>1, <1>2, <1>4, <1>5

LEMMA AnsweredNext == TypeInv /\ Informed /\ AnsweredIsStored /\ [Next]_vars => AnsweredIsStored'
<1> DEFINE Stored(n) == CASE request[n].kind = "signup" ->
                               [email |-> request[n].email, id |-> n] \in users
                          [] OTHER -> \E m \in memberships :
                                         m.id = n /\ m.role = request[n].role
<1> SUFFICES ASSUME TypeInv, Informed, AnsweredIsStored, [Next]_vars, NEW k \in Requests,
                    request'[k].status = 201
             PROVE  Stored(k)'
    BY DEF AnsweredIsStored
<1>0. /\ request[k].status = 201 => Stored(k)
      /\ users \subseteq users' /\ memberships \subseteq memberships'
    BY TablesGrow DEF AnsweredIsStored
<1>1. ASSUME SameFields, request'[k].status = request[k].status PROVE Stored(k)'
    BY <1>0, <1>1 DEF SameFields
<1>2. ASSUME NEW n \in Requests, NEW kind, NEW caller, NEW email, NEW o, NEW r,
             Place(n, kind, caller, email, o, r)
      PROVE  Stored(k)'
    <2>1. request'[k] = (IF k = n THEN [kind |-> kind, caller |-> caller,
                 email |-> email, organization |-> o, role |-> r, step |-> "begun",
                 status |-> 0] ELSE request[k])
        BY <1>2 DEF Place, TypeInv, TypeOK
    <2>2. k # n
        BY <2>1
    <2> QED
        BY <1>0, <2>1, <2>2
<1>3. ASSUME NEW n \in Requests, NEW step \in {"allowed", "found", "absent"}, Goes(n, step)
      PROVE  Stored(k)'
    BY <1>1, <1>3, GoesTyped, GoesSteps
<1>4. ASSUME NEW n \in Requests, NEW status \in {400, 403, 404, 500}, Refused(n, status)
      PROVE  Stored(k)'
    <2>1. request'[k].status = (IF k = n THEN status ELSE request[k].status)
        BY <1>4, EndsSteps DEF Refused
    <2>2. SameFields
        BY <1>4, RefusedTyped
    <2> QED
        BY <1>1, <2>1, <2>2
<1>5. ASSUME NEW n \in Requests, Ends(n, 201), Stored(n)' PROVE Stored(k)'
    <2>1. request'[k].status = (IF k = n THEN 201 ELSE request[k].status) /\ SameFields
        BY <1>5, EndsSteps, EndsTyped, TablesGrow
    <2> QED
        BY <1>1, <1>5, <2>1
<1>6. ASSUME NEW n \in Requests, InsertUser(n) PROVE Stored(k)'
    <2>1. CASE Refused(n, 500)
        BY <2>1, <1>4
    <2>2. CASE Ends(n, 201) /\ users' = users \cup {[email |-> request[n].email, id |-> n]}
        <3>1. SameFields
            BY <2>2, EndsTyped, TablesGrow
        <3>2. Stored(n)'
            BY <2>2, <3>1, <1>6 DEF SameFields, InsertUser
        <3> QED
            BY <2>2, <3>2, <1>5
    <2> QED
        BY <1>6, <2>1, <2>2 DEF InsertUser
<1>7. ASSUME NEW n \in Requests, InsertOrganization(n) PROVE Stored(k)'
    <2>1. Ends(n, 201) /\ request[n].kind = "create"
        BY <1>7 DEF InsertOrganization
    <2>2. SameFields /\ request[n].role = "admin"
        BY <2>1, EndsTyped, TablesGrow DEF Informed, Known
    <2>3. PICK o : memberships' = memberships \cup
             {[id |-> n, user |-> request[n].caller, organization |-> o,
               role |-> "admin", by |-> request[n].caller]}
        BY <1>7 DEF InsertOrganization
    <2>4. \E m \in memberships' : m.id = n /\ m.role = "admin"
        <3> DEFINE m == [id |-> n, user |-> request[n].caller, organization |-> o,
                         role |-> "admin", by |-> request[n].caller]
        <3>1. m \in memberships' /\ m.id = n /\ m.role = "admin"
            BY <2>3
        <3> HIDE DEF m
        <3> QED
            BY <3>1
    <2>5. Stored(n)'
        BY <2>1, <2>2, <2>4 DEF SameFields
    <2> QED
        BY <2>1, <2>5, <1>5
<1>8. ASSUME NEW n \in Requests, InsertMembership(n) PROVE Stored(k)'
    <2>1. Ends(n, 201) /\ request[n].kind = "invite"
          /\ memberships' = memberships \cup
                {[id |-> n, user |-> request[n].email, role |-> request[n].role,
                  organization |-> request[n].organization, by |-> request[n].caller]}
        BY <1>8 DEF InsertMembership
    <2>2. SameFields
        BY <2>1, EndsTyped, TablesGrow
    <2>3. \E m \in memberships' : m.id = n /\ m.role = request[n].role
        <3> DEFINE m == [id |-> n, user |-> request[n].email, role |-> request[n].role,
                         organization |-> request[n].organization,
                         by |-> request[n].caller]
        <3>1. m \in memberships' /\ m.id = n /\ m.role = request[n].role
            BY <2>1
        <3> HIDE DEF m
        <3> QED
            BY <3>1
    <2>4. Stored(n)'
        BY <2>1, <2>2, <2>3 DEF SameFields
    <2> QED
        BY <2>1, <2>4, <1>5
<1>9. CASE Crash
    <2>1. SameFields /\ request'[k].status = request[k].status
        BY <1>9 DEF Crash, TypeInv, TypeOK, RequestRecord, SameFields
    <2> QED
        BY <1>1, <2>1
<1>10. CASE UNCHANGED vars
    BY <1>0, <1>10 DEF vars
<1>11. ASSUME NEW n \in Requests,
              CheckEmail(n) \/ RequireAdmin(n) \/ FindInvited(n) \/ FindMembership(n)
       PROVE  Stored(k)'
    <2>1. \/ \E step \in {"allowed", "found", "absent"} : Goes(n, step)
          \/ \E status \in {400, 403, 404} : Refused(n, status)
        BY <1>11 DEF CheckEmail, RequireAdmin, FindInvited, FindMembership
    <2> QED
        BY <2>1, <1>3, <1>4
<1>12. ASSUME NEW n \in Requests, NEW e \in Emails,
              \/ Signup(n, e) \/ CreateOrganization(n, e)
              \/ \E a \in Emails, o \in organizations, r \in Role : Invite(n, a, e, o, r)
       PROVE  Stored(k)'
    BY <1>12, <1>2 DEF Signup, CreateOrganization, Invite
<1> HIDE DEF Stored
<1> QED
    BY <1>6, <1>7, <1>8, <1>9, <1>10, <1>11, <1>12 DEF Next

LEMMA AccountsCorrect == Spec => [](TypeInv /\ AccountsInv)
<1>1. Init => TypeInv /\ AccountsInv
    BY TypeInit, AccountsInit
<1>2. TypeInv /\ AccountsInv /\ [Next]_vars => (TypeInv /\ AccountsInv)'
    BY TypeNext, InformedNext, RowsNext, AnsweredNext DEF AccountsInv
<1> QED
    BY <1>1, <1>2, PTL DEF Spec

\* signup asks whether the address is taken and inserts later: an address has
\* one account all the same, for any number of requests at once.
THEOREM OneAccount == Spec => []OneAccountPerEmail
<1>1. AccountsInv => OneAccountPerEmail
    BY DEF AccountsInv, RowsInv
<1> QED
    BY <1>1, AccountsCorrect, PTL

\* No crash and no interleaving shows an organization without an administrator.
THEOREM OrganizationsHaveAdministrators == Spec => []OrganizationsAreRun
<1>1. AccountsInv => OrganizationsAreRun
    BY DEF AccountsInv, RowsInv
<1> QED
    BY <1>1, AccountsCorrect, PTL

\* invite_member reads the caller's role first and inserts three queries later:
\* whoever let a member in is an administrator then and ever after.
THEOREM MembersAreLetIn == Spec => []LetInByAdministrators
<1>1. AccountsInv => LetInByAdministrators
    BY DEF AccountsInv, RowsInv
<1> QED
    BY <1>1, AccountsCorrect, PTL

\* What was answered with 201 is in the tables, restart or not.
THEOREM AnsweredRowsAreThere == Spec => []AnsweredIsStored
<1>1. AccountsInv => AnsweredIsStored
    BY DEF AccountsInv
<1> QED
    BY <1>1, AccountsCorrect, PTL

-----------------------------------------------------------------------------
(* auth-service implements OrganizationRoles: an organization is inserted  *)
(* with its first membership (Found), a membership is Add, and every other *)
(* step of every handler is a stutter.                                     *)

\* The roles the tables record, as OrganizationRoles sees them.
RolesNow == [o \in Organizations |-> [e \in Emails |-> RolesOf(e, o)]]

LEMMA RolesInit == Init => Promised!Init
BY DEF Init, Promised!Init, RolesOf

\* A membership changes the roles of its user in its organization only.
LEMMA RoleGiven ==
    ASSUME NEW m, memberships' = memberships \cup {m}, NEW e, NEW o
    PROVE  RolesOf(e, o)' = IF m.user = e /\ m.organization = o
                            THEN RolesOf(e, o) \cup {m.role} ELSE RolesOf(e, o)
BY DEF RolesOf

LEMMA GivenNow ==
    ASSUME NEW m, memberships' = memberships \cup {m},
           m.user \in Emails, m.organization \in Organizations
    PROVE  RolesNow' = [RolesNow EXCEPT ![m.organization][m.user] = @ \cup {m.role}]
<1> DEFINE o == m.organization
           e == m.user
           row == [RolesNow[o] EXCEPT ![e] = RolesNow[o][e] \cup {m.role}]
<1>1. \A p \in Organizations : RolesNow[p] = [d \in Emails |-> RolesOf(d, p)]
    BY DEF RolesNow
<1>2. \A p \in Organizations : RolesNow'[p] = [d \in Emails |-> RolesOf(d, p)']
    BY DEF RolesNow
<1>0. \A d, p : RolesOf(d, p)' = IF e = d /\ o = p
                                 THEN RolesOf(d, p) \cup {m.role} ELSE RolesOf(d, p)
    BY RoleGiven
<1>3. RolesNow'[o] = row
    <2>1. \A d \in Emails : RolesNow'[o][d] = IF d = e THEN RolesNow[o][e] \cup {m.role}
                                                     ELSE RolesNow[o][d]
        <3> SUFFICES ASSUME NEW d \in Emails
                     PROVE  RolesNow'[o][d] = IF d = e THEN RolesNow[o][e] \cup {m.role}
                                                       ELSE RolesNow[o][d]
            OBVIOUS
        <3>1. RolesNow[o][d] = RolesOf(d, o) /\ RolesNow'[o][d] = RolesOf(d, o)'
            BY <1>1, <1>2
        <3>2. RolesOf(d, o)' = IF d = e THEN RolesOf(d, o) \cup {m.role} ELSE RolesOf(d, o)
            BY <1>0
        <3> HIDE DEF o, e
        <3> QED
            BY <3>1, <3>2
    <2>2. /\ RolesNow[o] = [d \in Emails |-> RolesNow[o][d]]
          /\ RolesNow'[o] = [d \in Emails |-> RolesNow'[o][d]]
        BY <1>1, <1>2
    <2> QED
        BY <2>1, <2>2
<1>4. \A p \in Organizations : RolesNow'[p] = IF p = o THEN row ELSE RolesNow[p]
    <2>1. ASSUME NEW p \in Organizations, p # o PROVE RolesNow'[p] = RolesNow[p]
        <3>1. \A d \in Emails : RolesOf(d, p)' = RolesOf(d, p)
            BY <1>0, <2>1
        <3> QED
            BY <1>1, <1>2, <3>1
    <2> HIDE DEF row
    <2> QED
        BY <1>3, <2>1
<1> HIDE DEF row
<1>5. RolesNow' = [RolesNow EXCEPT ![o] = row]
    <2>1. /\ RolesNow = [p \in Organizations |-> RolesNow[p]]
          /\ RolesNow' = [p \in Organizations |-> RolesNow'[p]]
        BY DEF RolesNow
    <2> QED
        BY <1>4, <2>1
<1> QED
    BY <1>5 DEF row

LEMMA RolesNext ==
    TypeInv /\ AccountsInv /\ [Next]_vars => [Promised!Next]_RolesNow
<1> SUFFICES ASSUME TypeInv, AccountsInv, [Next]_vars PROVE [Promised!Next]_RolesNow
    OBVIOUS
<1>1. CASE UNCHANGED memberships
    BY <1>1 DEF RolesNow, RolesOf
<1>2. ASSUME NEW m, NEW o \in Organizations \ organizations, m.user \in Emails,
             m.organization = o, m.role = "admin", memberships' = memberships \cup {m}
      PROVE  Promised!Next
    <2>1. \A e \in Emails : RolesOf(e, o) = {}
        BY <1>2 DEF AccountsInv, RowsInv, LetInByAdministrators, RolesOf
    <2>2. \A e \in Emails : RolesNow[o][e] = {}
        BY <2>1 DEF RolesNow
    <2>3. RolesNow' = [RolesNow EXCEPT ![o][m.user] = {"admin"}]
        <3>1. RolesNow' = [RolesNow EXCEPT ![o][m.user] = @ \cup {m.role}]
            BY <1>2, GivenNow
        <3> QED
            BY <1>2, <2>2, <3>1
    <2>4. Promised!Found(m.user, o)
        BY <2>2, <2>3 DEF Promised!Found, Promised!IsMember, RolesNow
    <2> QED
        BY <1>2, <2>4 DEF Promised!Next
<1>3. ASSUME NEW m, NEW a \in Emails, m.user \in Emails, m.organization \in Organizations,
             m.role \in Role, "admin" \in RolesOf(a, m.organization),
             memberships' = memberships \cup {m}
      PROVE  Promised!Next
    <2>1. RolesNow' = [RolesNow EXCEPT ![m.organization][m.user] = @ \cup {m.role}]
        BY <1>3, GivenNow
    <2>2. a \in Promised!Administrators(m.organization)
        BY <1>3 DEF Promised!Administrators, RolesNow
    <2>3. Promised!Add(a, m.user, m.organization, m.role)
        BY <2>1, <2>2 DEF Promised!Add, RolesNow
    <2> QED
        BY <1>3, <2>3 DEF Promised!Next
<1>4. ASSUME NEW n \in Requests, NEW o \in Organizations \ organizations,
             request[n].caller \in Emails,
             memberships' = memberships \cup
                {[id |-> n, user |-> request[n].caller, organization |-> o,
                  role |-> "admin", by |-> request[n].caller]}
      PROVE  Promised!Next
    <2> DEFINE m == [id |-> n, user |-> request[n].caller, organization |-> o,
                     role |-> "admin", by |-> request[n].caller]
    <2>1. /\ m.user \in Emails /\ m.organization = o /\ m.role = "admin"
          /\ memberships' = memberships \cup {m}
        BY <1>4
    <2> HIDE DEF m
    <2> QED
        BY <1>2, <2>1
<1>5. ASSUME NEW n \in Requests,
             request[n].email \in Emails, request[n].caller \in Emails,
             request[n].organization \in organizations, request[n].role \in Role,
             "admin" \in RolesOf(request[n].caller, request[n].organization),
             memberships' = memberships \cup
                {[id |-> n, user |-> request[n].email, role |-> request[n].role,
                  organization |-> request[n].organization, by |-> request[n].caller]}
      PROVE  Promised!Next
    <2> DEFINE m == [id |-> n, user |-> request[n].email, role |-> request[n].role,
                     organization |-> request[n].organization, by |-> request[n].caller]
    <2>1. /\ m.user \in Emails /\ m.organization = request[n].organization
          /\ m.organization \in Organizations /\ m.role \in Role
          /\ memberships' = memberships \cup {m}
        BY <1>5 DEF TypeInv, TypeOK
    <2> HIDE DEF m
    <2> QED
        BY <1>3, <1>5, <2>1
<1>6. Informed
    BY DEF AccountsInv
<1> QED
    BY <1>1, <1>4, <1>5, <1>6, RowsWritten

\* auth-service keeps the promise the other services build on: who founds an
\* organization administers it, nobody else gets a role there but from one of
\* its administrators, and no role is ever taken away.
THEOREM AuthKeepsItsPromise == Spec => ImplementsRoles
<1>1. TypeInv /\ AccountsInv /\ [Next]_vars => [Promised!Next]_RolesNow
    BY RolesNext
<1> QED
    BY <1>1, RolesInit, AccountsCorrect, PTL
    DEF Spec, ImplementsRoles, Promised!Spec, RolesNow
=============================================================================
