---------------------------- MODULE AssetCatalog ----------------------------
(***************************************************************************)
(* asset-service: facilities, asset types with their metrics, and assets   *)
(* (asset-service/app/routers), and its pool of database connections       *)
(* (db/session.py).  Who belongs to an organization is auth-service's      *)
(* business: OrganizationRoles.                                            *)
(*                                                                         *)
(* The handlers are coroutines of one event loop.  They await auth-service *)
(* and nothing else: their queries are synchronous and hold up the loop.   *)
(* From its first query on a request keeps a connection, while it awaits   *)
(* auth-service too, until a thread has closed its session.  A query that  *)
(* finds no free connection stops the loop until a thread returns one or   *)
(* the pool's timeout has passed.                                          *)
(***************************************************************************)
EXTENDS Naturals, Sequences, FiniteSets

CONSTANTS
    Users,          \* accounts of auth-service
    Organizations,  \* its organizations
    Role,           \* common/roles.py
    Names,          \* names of metrics
    Payloads,       \* lists of metric names a new type may come with
    MaxJobs,        \* bound: requests
    Connections     \* what the pool holds at most

ASSUME CatalogAssumption ==
    /\ Users # {} /\ Organizations # {} /\ "admin" \in Role
    /\ Payloads \subseteq Seq(Names) /\ <<>> \in Payloads
    /\ MaxJobs \in Nat /\ Connections \in Nat \ {0}

VARIABLES
    roles,       \* auth-service's memberships
    facilities, types, metrics, assets,   \* the tables
    job,         \* the requests
    free,        \* connections in the pool
    blocked      \* the request whose query the event loop stands at, or 0

tables == <<facilities, types, metrics, assets>>
vars == <<roles, tables, job, free, blocked>>

Jobs == 1 .. MaxJobs
Ids == {0} \cup Jobs       \* a row has the number of its request; 0 is none
Auth == INSTANCE OrganizationRoles

Facility == [id: Jobs, organization: Organizations, by: Users]
AssetType == [id: Jobs, organization: Organizations, metrics: Payloads, by: Users]
Metric == [id: Jobs, place: Nat \ {0}, type: Jobs, name: Names, by: Users]
Asset == [id: Jobs, facility: Jobs, type: Jobs, by: Users]
Kind == {"none", "facility", "type", "metric", "asset", "read"}
JobRecord ==
    [kind: Kind, user: Users, organization: Organizations, facility: Ids, type: Ids,
     metrics: Payloads \cup {<<name>> : name \in Names},
     step: {"unused", "begun", "awaiting", "verified", "ended", "closing", "closed"},
     holds: BOOLEAN]

TypeOK ==
    /\ roles \in [Organizations -> [Users -> SUBSET Role]]
    /\ facilities \subseteq Facility /\ types \subseteq AssetType
    /\ metrics \subseteq Metric /\ assets \subseteq Asset
    /\ job \in [Jobs -> JobRecord]
    /\ free \in 0 .. Connections
    /\ blocked \in Ids

Row(table, id) == CHOOSE r \in table : r.id = id
Has(table, id) == \E r \in table : r.id = id

-----------------------------------------------------------------------------
(* The event loop and the pool *)

Request(kind, u, o, f, t, names, step) ==
    [kind |-> kind, user |-> u, organization |-> o, facility |-> f, type |-> t,
     metrics |-> names, step |-> step, holds |-> FALSE]

(* What is left of a request that has ended; its answer is not modelled.   *)
NoRequest == Request("none", CHOOSE u \in Users : TRUE,
                     CHOOSE o \in Organizations : TRUE, 0, 0, <<>>, "unused")

Runs(n) == blocked \in {0, n}
Needs(n) == job[n].step \in {"begun", "verified"} /\ ~job[n].holds

(* The next statement of the request, a query among them, is executed: it  *)
(* has a connection from now on.                                           *)
Query(n) ==
    /\ Runs(n) /\ (job[n].holds \/ free > 0)
    /\ free' = IF job[n].holds THEN free ELSE free - 1
    /\ blocked' = 0

Ended(n) == [NoRequest EXCEPT !.step = "ended", !.holds = job[n].holds]
End(n) == job' = [job EXCEPT ![n] = [Ended(n) EXCEPT !.holds = TRUE]]

Block(n) ==
    /\ Needs(n) /\ blocked = 0 /\ free = 0
    /\ blocked' = n
    /\ UNCHANGED <<roles, tables, job, free>>

(* Mutant: the pool waits for as long as it takes. *)
SlipNoTimeout(n) == FALSE /\ UNCHANGED vars

(* sqlalchemy.exc.TimeoutError: the request fails, the loop goes on.       *)
PoolTimeout(n) ==
    /\ blocked = n /\ free = 0
    /\ blocked' = 0
    /\ job' = [job EXCEPT ![n] = Ended(n)]
    /\ UNCHANGED <<roles, tables, free>>

(* get_db's exit: the loop hands the session to a thread, the thread       *)
(* closes it.                                                              *)
Leave(n) ==
    /\ blocked = 0 /\ job[n].step = "ended"
    /\ job' = [job EXCEPT ![n].step = "closing"]
    /\ UNCHANGED <<roles, tables, free, blocked>>

Close(n) ==
    /\ job[n].step = "closing"
    /\ job' = [job EXCEPT ![n] = [@ EXCEPT !.step = "closed", !.holds = FALSE]]
    /\ free' = IF job[n].holds THEN free + 1 ELSE free
    /\ UNCHANGED <<roles, tables, blocked>>

-----------------------------------------------------------------------------
(* The handlers *)

Receive(n, record) ==
    /\ blocked = 0
    /\ job[n].step = "unused" /\ \A k \in 1 .. n - 1 : job[k].step # "unused"
    /\ job' = [job EXCEPT ![n] = record]
    /\ UNCHANGED <<roles, tables, free, blocked>>

(* create_facility and create_asset_type name the organization and ask     *)
(* auth-service first.                                                     *)
CreateFacility(n, u, o) == Receive(n, Request("facility", u, o, 0, 0, <<>>, "awaiting"))
CreateAssetType(n, u, o, names) ==
    Receive(n, Request("type", u, o, 0, 0, names, "awaiting"))

(* The others name a row (one that exists, or none) and look it up first.  *)
Any == CHOOSE o \in Organizations : TRUE    \* until it is looked up
AddMetricDefinition(n, u, t, name) ==
    Receive(n, Request("metric", u, Any, 0, t, <<name>>, "begun"))
CreateAsset(n, u, f, t) == Receive(n, Request("asset", u, Any, f, t, <<>>, "begun"))
GetFacility(n, u, f) == Receive(n, Request("read", u, Any, f, 0, <<>>, "begun"))

(* The organization is that of the row: 404 when there is none.            *)
Lookup(n) ==
    LET table == IF job[n].kind = "metric" THEN types ELSE facilities
        id == IF job[n].kind = "metric" THEN job[n].type ELSE job[n].facility
    IN  /\ job[n].step = "begun" /\ Query(n)
        /\ \/ ~Has(table, id) /\ End(n)
           \/ /\ Has(table, id)
              /\ job' = [job EXCEPT ![n] = [@ EXCEPT !.step = "awaiting", !.holds = TRUE,
                             !.organization = Row(table, id).organization]]
        /\ UNCHANGED <<roles, tables>>

(* Mutant: whoever auth-service knows may go on. *)
SlipAnyUser(n) ==
    /\ job[n].step = "awaiting" /\ blocked = 0
    /\ job' = [job EXCEPT ![n].step = "verified"]
    /\ UNCHANGED <<roles, tables, free, blocked>>

(* verify_org_membership returns: a member goes on; 403 for the others and *)
(* for any answer but 200, 503 when auth-service does not answer.          *)
VerifyOrgMembership(n) ==
    /\ job[n].step = "awaiting" /\ blocked = 0
    /\ \/ /\ Auth!IsMember(job[n].user, job[n].organization)
          /\ job' = [job EXCEPT ![n].step = "verified"]
       \/ job' = [job EXCEPT ![n] = Ended(n)]
    /\ UNCHANGED <<roles, tables, free, blocked>>

SaveFacility(n) ==
    /\ job[n].kind = "facility" /\ job[n].step = "verified" /\ Query(n)
    /\ facilities' = facilities \cup
          {[id |-> n, organization |-> job[n].organization, by |-> job[n].user]}
    /\ End(n)
    /\ UNCHANGED <<roles, types, metrics, assets>>

MetricsOf(n, t, names) ==
    {[id |-> n, place |-> i, type |-> t, name |-> names[i], by |-> job[n].user] :
        i \in DOMAIN names}

(* Mutant: the type is committed before its metrics are inserted. *)
SlipTypeFirst(n) ==
    /\ job[n].kind = "type" /\ job[n].step = "verified" /\ Query(n)
    /\ types' = types \cup {[id |-> n, organization |-> job[n].organization,
                             metrics |-> job[n].metrics, by |-> job[n].user]}
    /\ \/ metrics' = metrics \cup MetricsOf(n, n, job[n].metrics) /\ End(n)
       \/ UNCHANGED metrics /\ End(n)
    /\ UNCHANGED <<roles, facilities, assets>>

(* The type and its metrics are one transaction, which the unique          *)
(* constraint on organization and name may undo when the organization has  *)
(* a type already (whose name may be another one).                         *)
SaveAssetType(n) ==
    /\ job[n].kind = "type" /\ job[n].step = "verified" /\ Query(n)
    /\ \/ /\ \E t \in types : t.organization = job[n].organization
          /\ End(n)
          /\ UNCHANGED <<types, metrics>>
       \/ /\ types' = types \cup {[id |-> n, organization |-> job[n].organization,
                                   metrics |-> job[n].metrics, by |-> job[n].user]}
          /\ metrics' = metrics \cup MetricsOf(n, n, job[n].metrics)
          /\ End(n)
    /\ UNCHANGED <<roles, facilities, assets>>

(* Mutant: the name is looked for before auth-service is asked. *)
SlipCheckBefore(n) ==
    /\ job[n].kind = "metric" /\ job[n].step = "verified" /\ Query(n)
    /\ metrics' = metrics \cup MetricsOf(n, job[n].type, job[n].metrics)
    /\ End(n)
    /\ UNCHANGED <<roles, facilities, types, assets>>

(* The name is looked for after the await, in the step that inserts it.    *)
SaveMetricDefinition(n) ==
    LET taken == \E m \in metrics :
                    m.type = job[n].type /\ m.name = job[n].metrics[1]
    IN  /\ job[n].kind = "metric" /\ job[n].step = "verified" /\ Query(n)
        /\ \/ taken /\ End(n) /\ UNCHANGED metrics
           \/ /\ ~taken
              /\ metrics' = metrics \cup MetricsOf(n, job[n].type, job[n].metrics)
              /\ End(n)
        /\ UNCHANGED <<roles, facilities, types, assets>>

(* The foreign key refuses a type that does not exist.                     *)
SaveAsset(n) ==
    /\ job[n].kind = "asset" /\ job[n].step = "verified" /\ Query(n)
    /\ \/ ~Has(types, job[n].type) /\ End(n) /\ UNCHANGED assets
       \/ /\ Has(types, job[n].type)
          /\ assets' = assets \cup {[id |-> n, facility |-> job[n].facility,
                                     type |-> job[n].type, by |-> job[n].user]}
          /\ End(n)
    /\ UNCHANGED <<roles, facilities, types, metrics>>

AnswerRead(n) ==
    /\ job[n].kind = "read" /\ job[n].step = "verified" /\ Query(n)
    /\ End(n)
    /\ UNCHANGED <<roles, tables>>

(* The service restarts: its requests are gone and the pool is new.        *)
Crash ==
    /\ \E n \in Jobs : job[n].step \notin {"unused", "closed"}
    /\ job' = [n \in Jobs |-> IF job[n].step = "unused" THEN job[n]
                              ELSE [NoRequest EXCEPT !.step = "closed"]]
    /\ free' = Connections
    /\ blocked' = 0
    /\ UNCHANGED <<roles, tables>>

AuthServiceStep == Auth!Next /\ UNCHANGED <<tables, job, free, blocked>>

-----------------------------------------------------------------------------
Init ==
    /\ Auth!Init
    /\ facilities = {} /\ types = {} /\ metrics = {} /\ assets = {}
    /\ job = [n \in Jobs |-> NoRequest]
    /\ free = Connections /\ blocked = 0

IdsOf(table) == {0} \cup {r.id : r \in table}
Arrive(n) ==
    \E u \in Users :
        \/ \E o \in Organizations :
              \/ CreateFacility(n, u, o)
              \/ \E names \in Payloads : CreateAssetType(n, u, o, names)
        \/ \E t \in IdsOf(types), name \in Names : AddMetricDefinition(n, u, t, name)
        \/ \E f \in IdsOf(facilities) :
              \/ GetFacility(n, u, f)
              \/ \E t \in IdsOf(types) : CreateAsset(n, u, f, t)

Works(n) ==
    \/ Block(n) \/ PoolTimeout(n) \/ Leave(n) \/ Close(n)
    \/ Lookup(n) \/ VerifyOrgMembership(n)
    \/ SaveFacility(n) \/ SaveAssetType(n) \/ SaveMetricDefinition(n)
    \/ SaveAsset(n) \/ AnswerRead(n)

Next ==
    \/ \E n \in Jobs : Arrive(n) \/ Works(n)
    \/ Crash
    \/ AuthServiceStep

Spec == Init /\ [][Next]_vars

(* The loop runs every task that is ready, threads run, the HTTP client    *)
(* has a timeout and the pool has one.                                     *)
FairSpec == Spec /\ \A n \in Jobs : SF_vars(Works(n))

-----------------------------------------------------------------------------
(* Properties *)

(* Every row belongs to an organization of the user who made it, also when *)
(* the organization is that of another row the request names.              *)
MadeByMembers ==
    /\ \A r \in facilities \cup types : Auth!IsMember(r.by, r.organization)
    /\ \A m \in metrics : Auth!IsMember(m.by, Row(types, m.type).organization)
    /\ \A a \in assets : Auth!IsMember(a.by, Row(facilities, a.facility).organization)

(* A metric that is added has a name its type has not, although requests   *)
(* for the same name overlap while they await auth-service.                *)
AddedNamesDiffer ==
    \A m, k \in metrics : m.type = k.type /\ m.name = k.name /\ m # k =>
        m.id = m.type /\ k.id = k.type

(* A type is there with all the metrics it was created with, or not at all. *)
TypesAreWhole ==
    \A t \in types : \A i \in DOMAIN t.metrics :
        \E m \in metrics : m.type = t.id /\ m.id = t.id /\ m.place = i /\ m.name = t.metrics[i]

(* Every request ends, and its connection comes back: the loop does not    *)
(* stand for ever at a query while those who hold the connections wait for *)
(* the loop.                                                               *)
JobsEnd ==
    \A n \in Jobs : job[n].step # "unused" ~> job[n].step = "closed" /\ ~job[n].holds
=============================================================================
