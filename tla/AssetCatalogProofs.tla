-------------------------- MODULE AssetCatalogProofs --------------------------
(***************************************************************************)
(* Theorems about AssetCatalog, for any users, organizations, metric names *)
(* and lists of them, number of requests and size of the pool.  A handler  *)
(* looks a row up, awaits auth-service and then writes: what it found out  *)
(* before the await still holds after it, because no row goes away and     *)
(* auth-service keeps what OrganizationRoles promises.                     *)
(***************************************************************************)
EXTENDS AssetCatalog, FiniteSetTheorems, TLAPS

-----------------------------------------------------------------------------
(* Types, and the connections: those in the pool and those requests hold.  *)

Holders == {n \in Jobs : job[n].holds}
Pooled ==
    /\ free + Cardinality(Holders) = Connections
    /\ \A n \in Jobs : job[n].step = "unused" => ~job[n].holds

\* What a request names, by what is asked for; a row once it is looked up.
Named(j) ==
    /\ j.kind = "type" => j.metrics \in Payloads
    /\ j.kind = "metric" => \E name \in Names : j.metrics = <<name>>
    /\ j.step \in {"awaiting", "verified"} =>
          /\ j.kind = "metric" => j.type \in Jobs
          /\ j.kind \in {"asset", "read"} => j.facility \in Jobs

TypeInv == TypeOK /\ Pooled /\ \A n \in Jobs : Named(job[n])

LEMMA NothingTyped ==
    /\ NoRequest \in JobRecord /\ NoRequest.kind = "none"
    /\ NoRequest.step = "unused" /\ ~NoRequest.holds
<1>1. (CHOOSE u \in Users : TRUE) \in Users /\ (CHOOSE o \in Organizations : TRUE) \in Organizations
    BY CatalogAssumption
<1> QED
    BY <1>1, CatalogAssumption DEF NoRequest, Request, JobRecord, Kind, Ids

\* A request that ended keeps its connection and nothing else.
LEMMA EndedTyped ==
    ASSUME NEW n \in Jobs, job[n] \in JobRecord
    PROVE  /\ Ended(n) \in JobRecord /\ Ended(n).kind = "none"
           /\ Ended(n).step = "ended" /\ Ended(n).holds = job[n].holds
<1>1. job[n].holds \in BOOLEAN
    BY DEF JobRecord
<1> QED
    BY <1>1, NothingTyped DEF Ended, JobRecord

\* What End(n) leaves of the request.
Over(n) == [Ended(n) EXCEPT !.holds = TRUE]

LEMMA OverTyped ==
    ASSUME NEW n \in Jobs, job[n] \in JobRecord
    PROVE  /\ Over(n) \in JobRecord /\ Over(n).kind = "none"
           /\ Over(n).step = "ended" /\ Over(n).holds
BY EndedTyped DEF Over, JobRecord

LEMMA JobsFinite == IsFiniteSet(Holders) /\ Cardinality(Holders) \in Nat
<1>1. IsFiniteSet(Jobs)
    BY FS_Interval, CatalogAssumption DEF Jobs
<1> QED
    BY <1>1, FS_Subset, FS_CardinalityType DEF Holders

LEMMA TypeInit == Init => TypeInv
<1> SUFFICES ASSUME Init PROVE TypeInv
    OBVIOUS
<1>1. Auth!Init => roles \in [Organizations -> [Users -> SUBSET Role]]
    BY DEF Auth!Init
<1>2. TypeOK
    BY <1>1, NothingTyped, CatalogAssumption DEF Init, TypeOK, Ids
<1>3. Holders = {}
    BY NothingTyped DEF Init, Holders
<1>4. Pooled
    BY <1>3, FS_EmptySet, NothingTyped, CatalogAssumption DEF Init, Pooled
<1> QED
    BY <1>2, <1>4, NothingTyped DEF Init, TypeInv, Named

-----------------------------------------------------------------------------
(* How a step changes the request it is of, and the pool.                  *)

\* A statement that queries leaves its request with a connection.
LEMMA QueryPools ==
    ASSUME TypeInv, NEW n \in Jobs, NEW r \in JobRecord, r.holds, r.step # "unused",
           job' = [job EXCEPT ![n] = r], Query(n), Named(r)
    PROVE  /\ free' \in 0 .. Connections /\ blocked' \in Ids
           /\ job' \in [Jobs -> JobRecord] /\ Pooled'
           /\ \A k \in Jobs : Named(job'[k])
<1>1. \A k \in Jobs : job'[k] = IF k = n THEN r ELSE job[k]
    BY DEF TypeInv, TypeOK
<1>2. job' \in [Jobs -> JobRecord] /\ \A k \in Jobs : Named(job'[k])
    BY <1>1 DEF TypeInv, TypeOK
<1>3. Holders' = Holders \cup {n}
    BY <1>1 DEF Holders
<1>4. /\ free \in 0 .. Connections /\ free + Cardinality(Holders) = Connections
      /\ free' = (IF n \in Holders THEN free ELSE free - 1) /\ blocked' = 0
      /\ n \in Holders \/ free > 0
    BY DEF TypeInv, TypeOK, Pooled, Query, Holders
<1>5. Cardinality(Holders') = IF n \in Holders THEN Cardinality(Holders)
                                               ELSE Cardinality(Holders) + 1
    BY <1>3, JobsFinite, FS_AddElement
<1>6. free' + Cardinality(Holders') = Connections /\ free' \in 0 .. Connections
    BY <1>4, <1>5, JobsFinite, CatalogAssumption
<1>7. \A k \in Jobs : job'[k].step = "unused" => ~job'[k].holds
    BY <1>1 DEF TypeInv, Pooled
<1> QED
    BY <1>2, <1>4, <1>6, <1>7 DEF Pooled, Ids

\* Another step leaves the connection where it is.
LEMMA MovePools ==
    ASSUME TypeInv, NEW n \in Jobs, NEW r \in JobRecord, r.holds = job[n].holds,
           job' = [job EXCEPT ![n] = r], r.step # "unused", Named(r), free' = free
    PROVE  /\ job' \in [Jobs -> JobRecord] /\ Pooled'
           /\ \A k \in Jobs : Named(job'[k])
<1>1. \A k \in Jobs : job'[k] = IF k = n THEN r ELSE job[k]
    BY DEF TypeInv, TypeOK
<1>2. job' \in [Jobs -> JobRecord] /\ \A k \in Jobs : Named(job'[k])
    BY <1>1 DEF TypeInv, TypeOK
<1>3. Holders' = Holders
    BY <1>1 DEF Holders
<1> QED
    BY <1>1, <1>2, <1>3 DEF TypeInv, Pooled

LEMMA RowFound ==
    ASSUME NEW table, NEW id, Has(table, id)
    PROVE  Row(table, id) \in table /\ Row(table, id).id = id
BY DEF Has, Row

\* What a new request is.
Asked(r) ==
    /\ r \in JobRecord /\ ~r.holds /\ Named(r)
    /\ \/ r.kind \in {"facility", "type"} /\ r.step = "awaiting"
       \/ r.kind \in {"metric", "asset", "read"} /\ r.step = "begun"

LEMMA AskedTyped ==
    ASSUME NEW u \in Users, NEW o \in Organizations, NEW f \in Ids, NEW t \in Ids,
           NEW names \in Payloads \cup {<<name>> : name \in Names}
    PROVE  /\ Asked(Request("facility", u, o, f, t, names, "awaiting"))
           /\ names \in Payloads => Asked(Request("type", u, o, f, t, names, "awaiting"))
           /\ names \in {<<name>> : name \in Names} =>
                 Asked(Request("metric", u, o, f, t, names, "begun"))
           /\ Asked(Request("asset", u, o, f, t, names, "begun"))
           /\ Asked(Request("read", u, o, f, t, names, "begun"))
BY DEF Asked, Request, JobRecord, Kind, Named

LEMMA ArrivesAsked ==
    ASSUME TypeInv, NEW n \in Jobs, Arrive(n)
    PROVE  /\ job[n].step = "unused" /\ UNCHANGED <<roles, tables, free, blocked>>
           /\ \E r : Asked(r) /\ job' = [job EXCEPT ![n] = r]
<1>1. \A t \in IdsOf(types) \cup IdsOf(facilities) : t \in Ids
    BY DEF IdsOf, Ids, TypeInv, TypeOK, AssetType, Facility
<1>2. Any \in Organizations /\ 0 \in Ids /\ <<>> \in Payloads
    BY CatalogAssumption DEF Any, Ids
<1>3. PICK r : Asked(r) /\ Receive(n, r)
    <2>1. PICK u \in Users :
            \/ \E o \in Organizations : CreateFacility(n, u, o)
            \/ \E o \in Organizations, names \in Payloads : CreateAssetType(n, u, o, names)
            \/ \E t \in IdsOf(types), name \in Names : AddMetricDefinition(n, u, t, name)
            \/ \E f \in IdsOf(facilities) : GetFacility(n, u, f)
            \/ \E f \in IdsOf(facilities), t \in IdsOf(types) : CreateAsset(n, u, f, t)
        BY DEF Arrive
    <2>2. CASE \E o \in Organizations : CreateFacility(n, u, o)
        BY <1>2, <2>2, AskedTyped DEF CreateFacility
    <2>3. CASE \E o \in Organizations, names \in Payloads : CreateAssetType(n, u, o, names)
        BY <1>2, <2>3, AskedTyped DEF CreateAssetType
    <2>4. CASE \E t \in IdsOf(types), name \in Names : AddMetricDefinition(n, u, t, name)
        BY <1>1, <1>2, <2>4, AskedTyped DEF AddMetricDefinition
    <2>5. CASE \E f \in IdsOf(facilities) : GetFacility(n, u, f)
        BY <1>1, <1>2, <2>5, AskedTyped DEF GetFacility
    <2>6. CASE \E f \in IdsOf(facilities), t \in IdsOf(types) : CreateAsset(n, u, f, t)
        BY <1>1, <1>2, <2>6, AskedTyped DEF CreateAsset
    <2> QED
        BY <2>1, <2>2, <2>3, <2>4, <2>5, <2>6
<1> QED
    BY <1>3 DEF Receive

\* A query that ends the request it is of, whatever it writes.
Writes(n) ==
    \/ SaveFacility(n) \/ SaveAssetType(n) \/ SaveMetricDefinition(n)
    \/ SaveAsset(n) \/ AnswerRead(n)
Kept == UNCHANGED <<roles, facilities, types, metrics, assets>>

LEMMA WritesEnd ==
    ASSUME NEW n \in Jobs, Writes(n)
    PROVE  /\ Query(n) /\ job' = [job EXCEPT ![n] = Over(n)] /\ roles' = roles
           /\ job[n].step = "verified"
BY DEF Writes, SaveFacility, SaveAssetType, SaveMetricDefinition, SaveAsset, AnswerRead,
       End, Over, tables

LEMMA LookupFinds ==
    ASSUME TypeInv, NEW n \in Jobs, Lookup(n)
    PROVE  /\ job[n].step = "begun" /\ Query(n) /\ Kept
           /\ \/ job' = [job EXCEPT ![n] = Over(n)]
              \/ \E row, r :
                   /\ row \in IF job[n].kind = "metric" THEN types ELSE facilities
                   /\ row.id = IF job[n].kind = "metric" THEN job[n].type ELSE job[n].facility
                   /\ r \in JobRecord /\ r.holds /\ r.step = "awaiting"
                   /\ r.kind = job[n].kind /\ r.user = job[n].user
                   /\ r.facility = job[n].facility /\ r.type = job[n].type
                   /\ r.metrics = job[n].metrics /\ r.organization = row.organization
                   /\ job' = [job EXCEPT ![n] = r]
<1> DEFINE table == IF job[n].kind = "metric" THEN types ELSE facilities
           id == IF job[n].kind = "metric" THEN job[n].type ELSE job[n].facility
           row == Row(table, id)
           r == [job[n] EXCEPT !.step = "awaiting", !.holds = TRUE,
                               !.organization = row.organization]
<1>1. job[n] \in JobRecord /\ job \in [Jobs -> JobRecord]
    BY DEF TypeInv, TypeOK
<1>2. /\ job[n].step = "begun" /\ Query(n) /\ Kept
      /\ \/ job' = [job EXCEPT ![n] = Over(n)]
         \/ Has(table, id) /\ job' = [job EXCEPT ![n] = r]
    BY <1>1 DEF Lookup, End, Over, Kept, tables
<1>3. ASSUME Has(table, id), job' = [job EXCEPT ![n] = r]
      PROVE  \E w, q : /\ w \in table /\ w.id = id
                       /\ q \in JobRecord /\ q.holds /\ q.step = "awaiting"
                       /\ q.kind = job[n].kind /\ q.user = job[n].user
                       /\ q.facility = job[n].facility /\ q.type = job[n].type
                       /\ q.metrics = job[n].metrics /\ q.organization = w.organization
                       /\ job' = [job EXCEPT ![n] = q]
    <2>1. row \in table /\ row.id = id
        BY <1>3, RowFound
    <2>2. row.organization \in Organizations
        BY <2>1 DEF TypeInv, TypeOK, AssetType, Facility
    <2> HIDE DEF row
    <2>3. /\ r \in JobRecord /\ r.holds /\ r.step = "awaiting"
          /\ r.kind = job[n].kind /\ r.user = job[n].user
          /\ r.facility = job[n].facility /\ r.type = job[n].type
          /\ r.metrics = job[n].metrics /\ r.organization = row.organization
        BY <1>1, <2>2 DEF JobRecord
    <2> HIDE DEF r
    <2> QED
        BY <1>3, <2>1, <2>3
<1> QED
    BY <1>2, <1>3

\* auth-service: roles stay roles.
LEMMA AuthTyped ==
    ASSUME roles \in [Organizations -> [Users -> SUBSET Role]], Auth!Next
    PROVE  roles' \in [Organizations -> [Users -> SUBSET Role]]
<1>1. PICK o \in Organizations, u \in Users, given \in SUBSET Role :
         roles' = [roles EXCEPT ![o][u] = given]
    <2>1. PICK o \in Organizations, u \in Users :
             Auth!Found(u, o) \/ \E a \in Users, r \in Role : Auth!Add(a, u, o, r)
        BY DEF Auth!Next
    <2>2. CASE Auth!Found(u, o)
        <3>1. {"admin"} \in SUBSET Role
            BY CatalogAssumption
        <3> QED
            BY <2>2, <3>1 DEF Auth!Found
    <2>3. ASSUME NEW a \in Users, NEW r \in Role, Auth!Add(a, u, o, r)
          PROVE  \E given \in SUBSET Role : roles' = [roles EXCEPT ![o][u] = given]
        <3>1. roles[o][u] \cup {r} \in SUBSET Role
            OBVIOUS
        <3> QED
            BY <2>3, <3>1 DEF Auth!Add
    <2> QED
        BY <2>1, <2>2, <2>3
<1> QED
    BY <1>1

LEMMA TypeNext == TypeInv /\ [Next]_vars => TypeInv'
<1> SUFFICES ASSUME TypeInv, [Next]_vars PROVE TypeInv'
    OBVIOUS
<1>0. /\ \A n \in Jobs : job[n] \in JobRecord /\ Named(job[n])
      /\ roles \in [Organizations -> [Users -> SUBSET Role]]
      /\ facilities \subseteq Facility /\ types \subseteq AssetType
      /\ metrics \subseteq Metric /\ assets \subseteq Asset
      /\ job \in [Jobs -> JobRecord] /\ free \in 0 .. Connections /\ blocked \in Ids
    BY DEF TypeInv, TypeOK
<1> DEFINE Tabled == /\ facilities' \subseteq Facility /\ types' \subseteq AssetType
                     /\ metrics' \subseteq Metric /\ assets' \subseteq Asset
<1>1. ASSUME NEW n \in Jobs, NEW r \in JobRecord, r.holds, r.step # "unused", Named(r),
             job' = [job EXCEPT ![n] = r], Query(n), roles' = roles, Tabled
      PROVE  TypeInv'
    BY <1>0, <1>1, QueryPools DEF TypeInv, TypeOK, Named
<1>2. ASSUME NEW n \in Jobs, NEW r \in JobRecord, r.holds = job[n].holds,
             r.step # "unused", Named(r), job' = [job EXCEPT ![n] = r],
             UNCHANGED <<roles, tables, free>>, blocked' \in Ids
      PROVE  TypeInv'
    BY <1>0, <1>2, MovePools DEF TypeInv, TypeOK, Named, tables
<1>3. ASSUME NEW n \in Jobs, Arrive(n) PROVE TypeInv'
    <2>1. PICK r : Asked(r) /\ job' = [job EXCEPT ![n] = r]
        BY <1>3, ArrivesAsked
    <2>2. /\ job[n].step = "unused" /\ UNCHANGED <<roles, tables, free, blocked>>
        BY <1>3, ArrivesAsked
    <2>3. ~job[n].holds /\ job[n].holds \in BOOLEAN
        BY <1>0, <2>2 DEF TypeInv, Pooled, JobRecord
    <2>4. r \in JobRecord /\ r.holds = job[n].holds /\ r.step # "unused" /\ Named(r)
        BY <2>1, <2>3 DEF Asked, JobRecord
    <2> QED
        BY <1>0, <1>2, <2>1, <2>2, <2>4
<1>4. ASSUME NEW n \in Jobs, Block(n) PROVE TypeInv'
    BY <1>4, <1>0 DEF Block, TypeInv, TypeOK, Pooled, Holders, Named, Ids, tables
<1>5. ASSUME NEW n \in Jobs, PoolTimeout(n) PROVE TypeInv'
    <2>1. /\ job' = [job EXCEPT ![n] = Ended(n)] /\ blocked' = 0
          /\ UNCHANGED <<roles, tables, free>>
        BY <1>5 DEF PoolTimeout
    <2> QED
        BY <1>0, <1>2, <2>1, EndedTyped DEF Named, Ids
<1>6. ASSUME NEW n \in Jobs, Leave(n) PROVE TypeInv'
    <2> DEFINE r == [job[n] EXCEPT !.step = "closing"]
    <2>1. r \in JobRecord /\ r.holds = job[n].holds /\ r.step # "unused" /\ Named(r)
        BY <1>0 DEF JobRecord, Named
    <2>2. job' = [job EXCEPT ![n] = r] /\ UNCHANGED <<roles, tables, free, blocked>>
        BY <1>6 DEF Leave
    <2> HIDE DEF r
    <2> QED
        BY <1>0, <1>2, <2>1, <2>2
<1>7. ASSUME NEW n \in Jobs, Close(n) PROVE TypeInv'
    <2> DEFINE r == [job[n] EXCEPT !.step = "closed", !.holds = FALSE]
    <2>1. r \in JobRecord /\ ~r.holds /\ r.step = "closed" /\ Named(r)
        <3>1. /\ r \in JobRecord /\ ~r.holds /\ r.step = "closed"
              /\ r.kind = job[n].kind /\ r.metrics = job[n].metrics
            BY <1>0 DEF JobRecord
        <3> HIDE DEF r
        <3> QED
            BY <1>0, <3>1 DEF Named
    <2>2. job' = [job EXCEPT ![n] = r] /\ UNCHANGED <<roles, tables, blocked>>
        BY <1>0, <1>7 DEF Close
    <2>3. free' = IF n \in Holders THEN free + 1 ELSE free
        BY <1>7 DEF Close, Holders
    <2> HIDE DEF r
    <2>4. \A k \in Jobs : job'[k] = IF k = n THEN r ELSE job[k]
        BY <1>0, <2>2
    <2>5. Holders' = Holders \ {n}
        BY <2>1, <2>4 DEF Holders
    <2>6. /\ Cardinality(Holders') \in Nat
          /\ Cardinality(Holders') = IF n \in Holders THEN Cardinality(Holders) - 1
                                                      ELSE Cardinality(Holders)
        BY <2>5, JobsFinite, FS_RemoveElement, FS_CardinalityType
    <2>7. free' + Cardinality(Holders') = Connections /\ free' \in 0 .. Connections
        BY <1>0, <2>3, <2>6, JobsFinite, CatalogAssumption DEF TypeInv, Pooled
    <2>8. job' \in [Jobs -> JobRecord] /\ \A k \in Jobs : Named(job'[k])
        BY <1>0, <2>1, <2>2, <2>4
    <2>9. \A k \in Jobs : job'[k].step = "unused" => ~job'[k].holds
        BY <2>1, <2>4 DEF TypeInv, Pooled
    <2> QED
        BY <1>0, <2>2, <2>7, <2>8, <2>9 DEF TypeInv, TypeOK, Pooled, Named, tables
<1>8. ASSUME NEW n \in Jobs, Lookup(n) PROVE TypeInv'
    <2>1. PICK r \in JobRecord : /\ r.holds /\ r.step # "unused" /\ Named(r)
                                 /\ job' = [job EXCEPT ![n] = r]
        <3>1. CASE job' = [job EXCEPT ![n] = Over(n)]
            BY <1>0, <3>1, OverTyped DEF Named
        <3>2. ASSUME NEW row, NEW r \in JobRecord,
                     row \in IF job[n].kind = "metric" THEN types ELSE facilities,
                     row.id = IF job[n].kind = "metric" THEN job[n].type
                                                        ELSE job[n].facility,
                     r.holds, r.step = "awaiting", r.kind = job[n].kind,
                     r.facility = job[n].facility, r.type = job[n].type,
                     r.metrics = job[n].metrics, job' = [job EXCEPT ![n] = r]
              PROVE  r.step # "unused" /\ Named(r)
            <4>1. row.id \in Jobs
                BY <1>0, <3>2 DEF AssetType, Facility
            <4> QED
                BY <1>0, <3>2, <4>1 DEF Named
        <3> QED
            BY <1>8, <3>1, <3>2, LookupFinds
    <2>2. Query(n) /\ Kept
        BY <1>8, LookupFinds
    <2> QED
        BY <1>0, <1>1, <2>1, <2>2 DEF Kept
<1>9. ASSUME NEW n \in Jobs, VerifyOrgMembership(n) PROVE TypeInv'
    <2> DEFINE r == [job[n] EXCEPT !.step = "verified"]
    <2>1. r \in JobRecord /\ r.holds = job[n].holds /\ r.step # "unused" /\ Named(r)
        <3>1. /\ r \in JobRecord /\ r.holds = job[n].holds /\ r.step = "verified"
              /\ r.kind = job[n].kind /\ r.metrics = job[n].metrics
              /\ r.type = job[n].type /\ r.facility = job[n].facility
            BY <1>0 DEF JobRecord
        <3>2. job[n].step = "awaiting"
            BY <1>9 DEF VerifyOrgMembership
        <3> HIDE DEF r
        <3> QED
            BY <1>0, <3>1, <3>2 DEF Named
    <2>2. /\ \/ job' = [job EXCEPT ![n] = r]
             \/ job' = [job EXCEPT ![n] = Ended(n)]
          /\ UNCHANGED <<roles, tables, free, blocked>>
        BY <1>9 DEF VerifyOrgMembership
    <2> HIDE DEF r
    <2> QED
        BY <1>0, <1>2, <2>1, <2>2, EndedTyped DEF Named
<1>10. ASSUME NEW n \in Jobs, Writes(n) PROVE TypeInv'
    <2>1. Query(n) /\ job' = [job EXCEPT ![n] = Over(n)] /\ roles' = roles
        BY <1>10, WritesEnd
    <2>2. /\ job[n].user \in Users /\ job[n].organization \in Organizations
          /\ Named(job[n]) /\ job[n].step = "verified"
        BY <1>0, <1>10, WritesEnd DEF JobRecord
    <2>3. ASSUME SaveFacility(n) PROVE Tabled
        BY <1>0, <2>2, <2>3 DEF SaveFacility, Facility
    <2>4. ASSUME SaveAssetType(n) PROVE Tabled
        <3>1. \A t \in Jobs, names \in Payloads : MetricsOf(n, t, names) \subseteq Metric
            BY <2>2, CatalogAssumption DEF MetricsOf, Metric
        <3> QED
            BY <1>0, <2>2, <2>4, <3>1 DEF SaveAssetType, AssetType, Named
    <2>5. ASSUME SaveMetricDefinition(n) PROVE Tabled
        <3>1. \A t \in Jobs, name \in Names : MetricsOf(n, t, <<name>>) \subseteq Metric
            BY <2>2 DEF MetricsOf, Metric
        <3> QED
            BY <1>0, <2>2, <2>5, <3>1 DEF SaveMetricDefinition, Named
    <2>6. ASSUME SaveAsset(n) PROVE Tabled
        <3>1. Has(types, job[n].type) => job[n].type \in Jobs
            BY <1>0 DEF Has, AssetType
        <3> QED
            BY <1>0, <2>2, <2>6, <3>1 DEF SaveAsset, Asset, Named
    <2>7. ASSUME AnswerRead(n) PROVE Tabled
        BY <1>0, <2>7 DEF AnswerRead, tables
    <2>8. Tabled
        BY <1>10, <2>3, <2>4, <2>5, <2>6, <2>7 DEF Writes
    <2> QED
        BY <1>0, <1>1, <2>1, <2>8, OverTyped DEF Named
<1>11. CASE Crash
    <2> DEFINE gone == [NoRequest EXCEPT !.step = "closed"]
    <2>1. gone \in JobRecord /\ ~gone.holds /\ gone.step = "closed" /\ gone.kind = "none"
        BY NothingTyped DEF JobRecord
    <2>2. /\ job' = [n \in Jobs |-> IF job[n].step = "unused" THEN job[n] ELSE gone]
          /\ free' = Connections /\ blocked' = 0 /\ UNCHANGED <<roles, tables>>
        BY <1>11 DEF Crash
    <2> HIDE DEF gone
    <2>3. Holders' = {}
        BY <2>1, <2>2 DEF Holders, TypeInv, Pooled
    <2>4. Pooled'
        BY <2>1, <2>2, <2>3, FS_EmptySet, CatalogAssumption DEF TypeInv, Pooled
    <2> QED
        BY <1>0, <2>1, <2>2, <2>4, CatalogAssumption DEF TypeInv, TypeOK, Named, Ids, tables
<1>12. CASE AuthServiceStep
    <2>1. roles' \in [Organizations -> [Users -> SUBSET Role]]
        BY <1>0, <1>12, AuthTyped DEF AuthServiceStep
    <2> QED
        BY <1>0, <1>12, <2>1
        DEF AuthServiceStep, TypeInv, TypeOK, Pooled, Holders, Named, tables
<1>13. CASE UNCHANGED vars
    BY <1>13 DEF vars, tables, TypeInv, TypeOK, Pooled, Holders, Named
<1> QED
    BY <1>3, <1>4, <1>5, <1>6, <1>7, <1>8, <1>9, <1>10, <1>11, <1>12, <1>13
    DEF Next, Works, Writes

LEMMA TypesCorrect == Spec => []TypeInv
<1> QED
    BY TypeInit, TypeNext, PTL DEF Spec

\* Every reachable state is well typed; no request takes a connection the pool
\* has not, and none comes back twice.
THEOREM CatalogTypes == Spec => []TypeOK
<1>1. TypeInv => TypeOK
    BY DEF TypeInv
<1> QED
    BY <1>1, TypesCorrect, PTL

\* The connections in the pool and those of requests are all there are.
THEOREM ConnectionsAreKept == Spec => [](free + Cardinality(Holders) = Connections)
<1>1. TypeInv => free + Cardinality(Holders) = Connections
    BY DEF TypeInv, Pooled
<1> QED
    BY <1>1, TypesCorrect, PTL

-----------------------------------------------------------------------------
(* What a request has found out by the step it is at, and what the rows    *)
(* owe to the requests that wrote them.                                    *)

Finished == {"ended", "closing", "closed"}

Known(j) ==
    /\ j.step = "begun" => j.kind \in {"metric", "asset", "read"}
    /\ j.step \in {"awaiting", "verified"} =>
          /\ j.kind = "metric" =>
                \E t \in types : t.id = j.type /\ t.organization = j.organization
          /\ j.kind \in {"asset", "read"} =>
                \E f \in facilities : f.id = j.facility /\ f.organization = j.organization
    /\ j.step = "verified" => Auth!IsMember(j.user, j.organization)

Informed == \A n \in Jobs : Known(job[n])

\* A row has the number of a request that ended, and no other row has it.
Numbered ==
    /\ \A r \in facilities \cup types : job[r.id].step \in Finished
    /\ \A r, q \in facilities : r.id = q.id => r = q
    /\ \A r, q \in types : r.id = q.id => r = q

References ==
    /\ \A m \in metrics : Has(types, m.type)
    /\ \A a \in assets : Has(facilities, a.facility)

RowsInv == Numbered /\ References
CatalogInv ==
    Informed /\ RowsInv /\ MadeByMembers /\ AddedNamesDiffer /\ TypesAreWhole

LEMMA CatalogInit == Init => CatalogInv
<1> SUFFICES ASSUME Init PROVE CatalogInv
    OBVIOUS
<1>1. Informed
    BY NothingTyped DEF Init, Informed, Known
<1>2. RowsInv
    BY DEF Init, RowsInv, Numbered, References
<1>3. MadeByMembers /\ AddedNamesDiffer /\ TypesAreWhole
    BY DEF Init, MadeByMembers, AddedNamesDiffer, TypesAreWhole
<1> QED
    BY <1>1, <1>2, <1>3 DEF CatalogInv

\* Nothing is taken away: no row, and no membership.
LEMMA TablesGrow ==
    ASSUME [Next]_vars
    PROVE  /\ facilities \subseteq facilities' /\ types \subseteq types'
           /\ metrics \subseteq metrics' /\ assets \subseteq assets'
<1>1. CASE UNCHANGED tables
    BY <1>1 DEF tables
<1>2. ASSUME NEW n \in Jobs, Writes(n) \/ Lookup(n)
      PROVE  /\ facilities \subseteq facilities' /\ types \subseteq types'
             /\ metrics \subseteq metrics' /\ assets \subseteq assets'
    BY <1>2 DEF Writes, Lookup, SaveFacility, SaveAssetType, SaveMetricDefinition,
       SaveAsset, AnswerRead, tables
<1>3. ASSUME NEW n \in Jobs, Arrive(n) PROVE UNCHANGED tables
    BY <1>3 DEF Arrive, CreateFacility, CreateAssetType, AddMetricDefinition, CreateAsset,
       GetFacility, Receive
<1> QED
    BY <1>1, <1>2, <1>3 DEF Next, vars, Works, Writes, Block, PoolTimeout, Leave, Close,
       VerifyOrgMembership, Crash, AuthServiceStep

LEMMA MembersStay ==
    ASSUME TypeInv, [Next]_vars, NEW u \in Users, NEW o \in Organizations,
           Auth!IsMember(u, o)
    PROVE  Auth!IsMember(u, o)'
<1>1. CASE UNCHANGED roles
    BY <1>1 DEF Auth!IsMember
<1>2. CASE Auth!Next
    <2>1. roles \in [Organizations -> [Users -> SUBSET Role]]
        BY DEF TypeInv, TypeOK
    <2>2. PICK p \in Organizations, v \in Users :
             Auth!Found(v, p) \/ \E a \in Users, r \in Role : Auth!Add(a, v, p, r)
        BY <1>2 DEF Auth!Next
    <2>3. CASE Auth!Found(v, p)
        <3>1. p # o
            BY <2>3 DEF Auth!Found
        <3> QED
            BY <2>1, <2>3, <3>1 DEF Auth!Found, Auth!IsMember
    <2>4. ASSUME NEW r \in Role, roles' = [roles EXCEPT ![p][v] = @ \cup {r}]
          PROVE  Auth!IsMember(u, o)'
        BY <2>1, <2>4 DEF Auth!IsMember
    <2> QED
        BY <2>2, <2>3, <2>4 DEF Auth!Add
<1>3. UNCHANGED roles \/ Auth!Next
    <2>1. ASSUME NEW n \in Jobs, Arrive(n) PROVE UNCHANGED roles
        BY <2>1 DEF Arrive, CreateFacility, CreateAssetType, AddMetricDefinition,
           CreateAsset, GetFacility, Receive
    <2>2. ASSUME NEW n \in Jobs, Works(n) PROVE UNCHANGED roles
        BY <2>2 DEF Works, Block, PoolTimeout, Leave, Close, Lookup, VerifyOrgMembership,
           SaveFacility, SaveAssetType, SaveMetricDefinition, SaveAsset, AnswerRead
    <2> QED
        BY <2>1, <2>2 DEF Next, vars, Crash, AuthServiceStep
<1> QED
    BY <1>1, <1>2, <1>3

\* What may happen to a request in a step.
Looked(k) ==
    /\ job[k].step = "begun" /\ job'[k].step = "awaiting"
    /\ job'[k].kind = job[k].kind
    /\ job'[k].type = job[k].type /\ job'[k].facility = job[k].facility
    /\ \E row \in IF job[k].kind = "metric" THEN types ELSE facilities :
          /\ row.id = IF job[k].kind = "metric" THEN job[k].type ELSE job[k].facility
          /\ job'[k].organization = row.organization
Verified(k) ==
    /\ job[k].step = "awaiting" /\ job'[k].step = "verified"
    /\ job'[k].kind = job[k].kind
    /\ job'[k].type = job[k].type /\ job'[k].facility = job[k].facility
    /\ job'[k].organization = job[k].organization /\ job'[k].user = job[k].user
    /\ Auth!IsMember(job[k].user, job[k].organization)
Changes(k) ==
    \/ job'[k] = job[k]
    \/ job'[k].step \in Finished
    \/ job[k].step = "unused" /\ Asked(job'[k])
    \/ Looked(k)
    \/ Verified(k)

LEMMA RequestChanges ==
    ASSUME TypeInv, [Next]_vars, NEW k \in Jobs
    PROVE  Changes(k)
<1>0. /\ \A n \in Jobs : job[n] \in JobRecord
      /\ job \in [Jobs -> JobRecord]
    BY DEF TypeInv, TypeOK
<1>1. ASSUME NEW n \in Jobs, Arrive(n) PROVE Changes(k)
    <2>1. PICK r : Asked(r) /\ job' = [job EXCEPT ![n] = r]
        BY <1>1, ArrivesAsked
    <2>2. job[n].step = "unused"
        BY <1>1, ArrivesAsked
    <2> QED
        BY <1>0, <2>1, <2>2 DEF Changes
<1>2. ASSUME NEW n \in Jobs, NEW r, job' = [job EXCEPT ![n] = r], r.step \in Finished
      PROVE  Changes(k)
    BY <1>0, <1>2 DEF Changes
<1>3. ASSUME NEW n \in Jobs, Block(n) PROVE Changes(k)
    BY <1>3 DEF Block, Changes
<1>4. ASSUME NEW n \in Jobs, PoolTimeout(n) PROVE Changes(k)
    BY <1>0, <1>2, <1>4, EndedTyped DEF PoolTimeout, Finished
<1>5. ASSUME NEW n \in Jobs, Leave(n) PROVE Changes(k)
    <2> DEFINE r == [job[n] EXCEPT !.step = "closing"]
    <2>1. r.step \in Finished /\ job' = [job EXCEPT ![n] = r]
        BY <1>0, <1>5 DEF Leave, JobRecord, Finished
    <2> QED
        BY <1>2, <2>1
<1>6. ASSUME NEW n \in Jobs, Close(n) PROVE Changes(k)
    <2> DEFINE r == [job[n] EXCEPT !.step = "closed", !.holds = FALSE]
    <2>1. r.step \in Finished
        BY <1>0 DEF JobRecord, Finished
    <2>2. job' = [job EXCEPT ![n] = r]
        BY <1>0, <1>6 DEF Close
    <2> QED
        BY <1>2, <2>1, <2>2
<1>7. ASSUME NEW n \in Jobs, Lookup(n) PROVE Changes(k)
    <2>1. CASE job' = [job EXCEPT ![n] = Over(n)]
        BY <1>0, <1>2, <1>7, <2>1, OverTyped, LookupFinds DEF Finished
    <2>2. ASSUME NEW row, NEW r,
                 row \in IF job[n].kind = "metric" THEN types ELSE facilities,
                 row.id = IF job[n].kind = "metric" THEN job[n].type
                                                    ELSE job[n].facility,
                 r.step = "awaiting", r.kind = job[n].kind,
                 r.facility = job[n].facility, r.type = job[n].type,
                 r.organization = row.organization, job' = [job EXCEPT ![n] = r]
          PROVE  Changes(k)
        <3>1. job[n].step = "begun"
            BY <1>7, LookupFinds
        <3>2. job'[k] = IF k = n THEN r ELSE job[k]
            BY <1>0, <2>2
        <3> QED
            BY <2>2, <3>1, <3>2 DEF Changes, Looked
    <2> QED
        BY <1>7, <2>1, <2>2, LookupFinds
<1>8. ASSUME NEW n \in Jobs, VerifyOrgMembership(n) PROVE Changes(k)
    <2> DEFINE r == [job[n] EXCEPT !.step = "verified"]
    <2>1. CASE job' = [job EXCEPT ![n] = Ended(n)]
        BY <1>0, <1>2, <1>8, <2>1, EndedTyped DEF VerifyOrgMembership, Finished
    <2>2. CASE job' = [job EXCEPT ![n] = r]
               /\ Auth!IsMember(job[n].user, job[n].organization)
        <3>1. /\ r.step = "verified" /\ r.kind = job[n].kind /\ r.type = job[n].type
              /\ r.facility = job[n].facility /\ r.user = job[n].user
              /\ r.organization = job[n].organization
            BY <1>0 DEF JobRecord
        <3>2. job'[k] = IF k = n THEN r ELSE job[k]
            BY <1>0, <2>2
        <3>3. job[n].step = "awaiting"
            BY <1>8 DEF VerifyOrgMembership
        <3> HIDE DEF r
        <3> QED
            BY <2>2, <3>1, <3>2, <3>3 DEF Changes, Verified
    <2> QED
        BY <1>8, <2>1, <2>2 DEF VerifyOrgMembership
<1>9. ASSUME NEW n \in Jobs, Writes(n) PROVE Changes(k)
    BY <1>0, <1>2, <1>9, WritesEnd, OverTyped DEF Finished
<1>10. CASE Crash
    <2> DEFINE gone == [NoRequest EXCEPT !.step = "closed"]
    <2>1. gone.step \in Finished
        BY NothingTyped DEF JobRecord, Finished
    <2>2. job'[k] = IF job[k].step = "unused" THEN job[k] ELSE gone
        BY <1>10 DEF Crash
    <2> HIDE DEF gone
    <2> QED
        BY <2>1, <2>2 DEF Changes
<1>11. CASE AuthServiceStep \/ UNCHANGED vars
    BY <1>11 DEF AuthServiceStep, vars, Changes
<1> QED
    BY <1>1, <1>3, <1>4, <1>5, <1>6, <1>7, <1>8, <1>9, <1>10, <1>11
    DEF Next, Works, Writes

LEMMA InformedNext == TypeInv /\ Informed /\ [Next]_vars => Informed'
<1> SUFFICES ASSUME TypeInv, Informed, [Next]_vars, NEW k \in Jobs PROVE Known(job[k])'
    BY DEF Informed
<1>0. /\ Known(job[k]) /\ job[k].user \in Users /\ job[k].organization \in Organizations
      /\ job'[k].organization \in Organizations
    BY TypeNext DEF Informed, TypeInv, TypeOK, JobRecord
<1>1. facilities \subseteq facilities' /\ types \subseteq types'
    BY TablesGrow
<1>3. CASE job'[k] = job[k]
    BY <1>0, <1>1, <1>3, MembersStay DEF Known
<1>4. CASE job'[k].step \in Finished
    BY <1>4 DEF Finished, Known
<1>5. CASE Asked(job'[k])
    BY <1>5 DEF Asked, Known
<1>6. CASE Looked(k)
    BY <1>0, <1>1, <1>6 DEF Looked, Known
<1>7. CASE Verified(k)
    BY <1>0, <1>1, <1>7, MembersStay DEF Verified, Known
<1> QED
    BY <1>3, <1>4, <1>5, <1>6, <1>7, RequestChanges DEF Changes

-----------------------------------------------------------------------------
(* The rows.                                                               *)

\* What the request that writes a row knows of it.
NewFacility(n, f) ==
    /\ f.id = n /\ f.by \in Users /\ f.organization \in Organizations
    /\ Auth!IsMember(f.by, f.organization)
    /\ facilities' = facilities \cup {f} /\ UNCHANGED <<roles, types, metrics, assets>>
NewType(n, t) ==
    /\ t.id = n /\ t.by \in Users /\ t.organization \in Organizations
    /\ t.metrics \in Seq(Names) /\ Auth!IsMember(t.by, t.organization)
    /\ t.by = job[n].user
    /\ types' = types \cup {t} /\ metrics' = metrics \cup MetricsOf(n, n, t.metrics)
    /\ UNCHANGED <<roles, facilities, assets>>
NewMetric(n, m) ==
    /\ m.id = n
    /\ \E t \in types : t.id = m.type /\ Auth!IsMember(m.by, t.organization)
    /\ \A k \in metrics : k.type = m.type => k.name # m.name
    /\ metrics' = metrics \cup {m} /\ UNCHANGED <<roles, facilities, types, assets>>
NewAsset(n, a) ==
    /\ a.id = n
    /\ \E f \in facilities : f.id = a.facility /\ Auth!IsMember(a.by, f.organization)
    /\ assets' = assets \cup {a} /\ UNCHANGED <<roles, facilities, types, metrics>>

LEMMA RowsWritten ==
    ASSUME TypeInv, Informed, [Next]_vars
    PROVE  \/ UNCHANGED <<facilities, types, metrics, assets>>
           \/ \E n \in Jobs :
                 /\ job[n].step = "verified" /\ job'[n].step \in Finished
                 /\ \E r : NewFacility(n, r) \/ NewType(n, r) \/ NewMetric(n, r)
                           \/ NewAsset(n, r)
<1>1. ASSUME NEW n \in Jobs, Writes(n)
      PROVE  /\ job[n].step = "verified" /\ job'[n].step \in Finished /\ roles' = roles
             /\ job[n].user \in Users /\ job[n].organization \in Organizations
             /\ Auth!IsMember(job[n].user, job[n].organization)
             /\ Known(job[n]) /\ Named(job[n])
    <2>1. job[n] \in JobRecord /\ Named(job[n]) /\ Known(job[n])
          /\ job \in [Jobs -> JobRecord]
        BY DEF TypeInv, TypeOK, Informed
    <2>2. job[n].step = "verified" /\ job' = [job EXCEPT ![n] = Over(n)] /\ roles' = roles
        BY <1>1, WritesEnd
    <2>3. job'[n].step \in Finished
        BY <2>1, <2>2, OverTyped DEF Finished
    <2> QED
        BY <2>1, <2>2, <2>3 DEF JobRecord, Known
<1>2. ASSUME NEW n \in Jobs, SaveFacility(n) PROVE \E r : NewFacility(n, r)
    <2> DEFINE f == [id |-> n, organization |-> job[n].organization, by |-> job[n].user]
    <2>1. f.id = n /\ f.by = job[n].user /\ f.organization = job[n].organization
        OBVIOUS
    <2>2. facilities' = facilities \cup {f} /\ UNCHANGED <<roles, types, metrics, assets>>
        BY <1>2 DEF SaveFacility
    <2> HIDE DEF f
    <2>3. Writes(n)
        BY <1>2 DEF Writes
    <2> QED
        BY <1>1, <2>1, <2>2, <2>3 DEF NewFacility
<1>3. ASSUME NEW n \in Jobs, SaveAssetType(n)
      PROVE  UNCHANGED <<facilities, types, metrics, assets>> \/ \E r : NewType(n, r)
    <2> DEFINE t == [id |-> n, organization |-> job[n].organization,
                     metrics |-> job[n].metrics, by |-> job[n].user]
    <2>1. /\ t.id = n /\ t.by = job[n].user /\ t.organization = job[n].organization
          /\ t.metrics = job[n].metrics
        OBVIOUS
    <2>2. \/ UNCHANGED <<facilities, types, metrics, assets>>
          \/ /\ types' = types \cup {t}
             /\ metrics' = metrics \cup MetricsOf(n, n, t.metrics)
             /\ UNCHANGED <<roles, facilities, assets>>
        BY <1>3 DEF SaveAssetType
    <2> HIDE DEF t
    <2>3. Writes(n) /\ job[n].kind = "type"
        BY <1>3 DEF Writes, SaveAssetType
    <2>4. job[n].metrics \in Seq(Names)
        BY <1>1, <2>3, CatalogAssumption DEF Named
    <2> QED
        BY <1>1, <2>1, <2>2, <2>3, <2>4 DEF NewType
<1>4. ASSUME NEW n \in Jobs, SaveMetricDefinition(n)
      PROVE  UNCHANGED <<facilities, types, metrics, assets>> \/ \E r : NewMetric(n, r)
    <2>1. Writes(n) /\ job[n].kind = "metric"
        BY <1>4 DEF Writes, SaveMetricDefinition
    <2>2. PICK name \in Names : job[n].metrics = <<name>>
        BY <1>1, <2>1 DEF Named
    <2> DEFINE m == [id |-> n, place |-> 1, type |-> job[n].type, name |-> name,
                     by |-> job[n].user]
    <2>3. m.id = n /\ m.type = job[n].type /\ m.name = name /\ m.by = job[n].user
        OBVIOUS
    <2>4. MetricsOf(n, job[n].type, job[n].metrics) = {m}
        BY <2>2 DEF MetricsOf
    <2>5. \/ UNCHANGED <<facilities, types, metrics, assets>>
          \/ /\ ~ \E k \in metrics : k.type = job[n].type /\ k.name = name
             /\ metrics' = metrics \cup {m}
             /\ UNCHANGED <<roles, facilities, types, assets>>
        BY <1>4, <2>2, <2>4 DEF SaveMetricDefinition
    <2> HIDE DEF m
    <2>6. \E t \in types : t.id = m.type /\ Auth!IsMember(m.by, t.organization)
        BY <1>1, <2>1, <2>3 DEF Known
    <2> QED
        BY <1>1, <2>1, <2>3, <2>5, <2>6 DEF NewMetric
<1>5. ASSUME NEW n \in Jobs, SaveAsset(n)
      PROVE  UNCHANGED <<facilities, types, metrics, assets>> \/ \E r : NewAsset(n, r)
    <2> DEFINE a == [id |-> n, facility |-> job[n].facility, type |-> job[n].type,
                     by |-> job[n].user]
    <2>1. a.id = n /\ a.by = job[n].user /\ a.facility = job[n].facility
        OBVIOUS
    <2>2. \/ UNCHANGED <<facilities, types, metrics, assets>>
          \/ assets' = assets \cup {a} /\ UNCHANGED <<roles, facilities, types, metrics>>
        BY <1>5 DEF SaveAsset
    <2> HIDE DEF a
    <2>3. Writes(n) /\ job[n].kind = "asset"
        BY <1>5 DEF Writes, SaveAsset
    <2>4. \E f \in facilities : f.id = a.facility /\ Auth!IsMember(a.by, f.organization)
        BY <1>1, <2>1, <2>3 DEF Known
    <2> QED
        BY <2>1, <2>2, <2>4 DEF NewAsset
<1>6. ASSUME NEW n \in Jobs, AnswerRead(n)
      PROVE  UNCHANGED <<facilities, types, metrics, assets>>
    BY <1>6 DEF AnswerRead, tables
<1>7. \/ UNCHANGED <<facilities, types, metrics, assets>>
      \/ \E n \in Jobs : Writes(n)
    <2>1. ASSUME NEW n \in Jobs, Arrive(n) PROVE UNCHANGED tables
        BY <2>1 DEF Arrive, CreateFacility, CreateAssetType, AddMetricDefinition,
           CreateAsset, GetFacility, Receive
    <2> QED
        BY <2>1 DEF Next, vars, tables, Works, Writes, Block, PoolTimeout, Leave, Close,
           Lookup, VerifyOrgMembership, Crash, AuthServiceStep
<1>8. ASSUME NEW n \in Jobs, Writes(n)
      PROVE  \/ UNCHANGED <<facilities, types, metrics, assets>>
             \/ \E r : NewFacility(n, r) \/ NewType(n, r) \/ NewMetric(n, r)
                       \/ NewAsset(n, r)
    BY <1>2, <1>3, <1>4, <1>5, <1>6, <1>8 DEF Writes
<1> QED
    BY <1>1, <1>7, <1>8

LEMMA FinishedStay ==
    ASSUME TypeInv, [Next]_vars, NEW k \in Jobs, job[k].step \in Finished
    PROVE  job'[k].step \in Finished
BY RequestChanges DEF Changes, Finished, Asked, Looked, Verified

\* No row has the number of a request that is yet to write one.
LEMMA NumberedNext == TypeInv /\ Informed /\ RowsInv /\ [Next]_vars => RowsInv'
<1> SUFFICES ASSUME TypeInv, Informed, RowsInv, [Next]_vars PROVE RowsInv'
    OBVIOUS
<1>1. \A r \in facilities \cup types : r.id \in Jobs /\ job'[r.id].step \in Finished
    <2>1. \A r \in facilities \cup types : r.id \in Jobs /\ job[r.id].step \in Finished
        BY DEF TypeInv, TypeOK, Facility, AssetType, RowsInv, Numbered
    <2> QED
        BY <2>1, FinishedStay
<1>2. CASE UNCHANGED <<facilities, types, metrics, assets>>
    BY <1>1, <1>2 DEF RowsInv, Numbered, References, Has
<1>3. ASSUME NEW n \in Jobs, NEW r, job[n].step = "verified", job'[n].step \in Finished,
             NewFacility(n, r) \/ NewType(n, r) \/ NewMetric(n, r) \/ NewAsset(n, r)
      PROVE  RowsInv'
    <2>1. \A q \in facilities \cup types : q.id # n
        BY <1>3 DEF RowsInv, Numbered, Finished
    <2>2. Numbered'
        BY <1>1, <1>3, <2>1 DEF RowsInv, Numbered, NewFacility, NewType, NewMetric, NewAsset
    <2>3. /\ \A m \in metrics' : Has(types, m.type)'
          /\ \A a \in assets' : Has(facilities, a.facility)'
        <3>1. CASE NewFacility(n, r) \/ NewMetric(n, r) \/ NewAsset(n, r)
            BY <3>1 DEF RowsInv, References, Has, NewFacility, NewMetric, NewAsset
        <3>2. CASE NewType(n, r)
            <4>1. \A m \in MetricsOf(n, n, r.metrics) : m.type = n
                BY DEF MetricsOf
            <4> QED
                BY <3>2, <4>1 DEF RowsInv, References, Has, NewType
        <3> QED
            BY <1>3, <3>1, <3>2
    <2> QED
        BY <2>2, <2>3 DEF RowsInv, References
<1> QED
    BY <1>2, <1>3, RowsWritten

\* The row a number stands for.
LEMMA TheRow ==
    ASSUME NEW table, NEW r \in table, \A q \in table : q.id = r.id => q = r
    PROVE  Row(table, r.id) = r
BY DEF Row

\* MadeByMembers of the rows as they are found, by the row and not its number.
Made ==
    /\ \A r \in facilities \cup types : Auth!IsMember(r.by, r.organization)
    /\ \A m \in metrics, t \in types : t.id = m.type => Auth!IsMember(m.by, t.organization)
    /\ \A a \in assets, f \in facilities :
          f.id = a.facility => Auth!IsMember(a.by, f.organization)

LEMMA MadeMeans == RowsInv => (Made <=> MadeByMembers)
<1> SUFFICES ASSUME RowsInv PROVE Made <=> MadeByMembers
    OBVIOUS
<1>1. ASSUME NEW m \in metrics, NEW t \in types, t.id = m.type
      PROVE  Row(types, m.type) = t
    <2>1. Row(types, t.id) = t
        BY TheRow DEF RowsInv, Numbered
    <2> QED
        BY <1>1, <2>1
<1>2. ASSUME NEW a \in assets, NEW f \in facilities, f.id = a.facility
      PROVE  Row(facilities, a.facility) = f
    <2>1. Row(facilities, f.id) = f
        BY TheRow DEF RowsInv, Numbered
    <2> QED
        BY <1>2, <2>1
<1>3. /\ \A m \in metrics : \E t \in types : t.id = m.type
      /\ \A a \in assets : \E f \in facilities : f.id = a.facility
    BY DEF RowsInv, References, Has
<1> QED
    BY <1>1, <1>2, <1>3 DEF Made, MadeByMembers

LEMMA MadeNext ==
    TypeInv /\ Informed /\ RowsInv /\ Made /\ [Next]_vars => Made'
<1> SUFFICES ASSUME TypeInv, Informed, RowsInv, Made, [Next]_vars PROVE Made'
    OBVIOUS
<1>1. CASE UNCHANGED <<facilities, types, metrics, assets>>
    <2>1. \A u \in Users, o \in Organizations :
             Auth!IsMember(u, o) => Auth!IsMember(u, o)'
        BY MembersStay
    <2>2. /\ \A r \in facilities \cup types : r.by \in Users /\ r.organization \in Organizations
          /\ \A r \in metrics \cup assets : r.by \in Users
        BY DEF TypeInv, TypeOK, Facility, AssetType, Metric, Asset
    <2> QED
        BY <1>1, <2>1, <2>2 DEF Made
<1>2. ASSUME NEW n \in Jobs, NEW r, job[n].step = "verified",
             NewFacility(n, r) \/ NewType(n, r) \/ NewMetric(n, r) \/ NewAsset(n, r)
      PROVE  Made'
    <2>1. \A q \in facilities \cup types : q.id # n
        BY <1>2 DEF RowsInv, Numbered, Finished
    <2>2. /\ \A m \in metrics : \E t \in types : t.id = m.type
          /\ \A a \in assets : \E f \in facilities : f.id = a.facility
          /\ \A q, t \in types : q.id = t.id => q = t
          /\ \A q, t \in facilities : q.id = t.id => q = t
        BY DEF RowsInv, References, Numbered, Has
    <2>3. \A u, o : Auth!IsMember(u, o)' = Auth!IsMember(u, o)
        BY <1>2 DEF Auth!IsMember, NewFacility, NewType, NewMetric, NewAsset
    <2>4. CASE NewFacility(n, r)
        BY <2>1, <2>2, <2>3, <2>4 DEF Made, NewFacility
    <2>5. CASE NewType(n, r)
        <3>1. \A m \in MetricsOf(n, n, r.metrics) : m.type = n /\ m.by = r.by
            BY <2>5 DEF MetricsOf, NewType
        <3> QED
            BY <2>1, <2>2, <2>3, <2>5, <3>1 DEF Made, NewType
    <2>6. CASE NewMetric(n, r)
        BY <2>2, <2>3, <2>6 DEF Made, NewMetric
    <2>7. CASE NewAsset(n, r)
        BY <2>2, <2>3, <2>7 DEF Made, NewAsset
    <2> QED
        BY <1>2, <2>4, <2>5, <2>6, <2>7
<1> QED
    BY <1>1, <1>2, RowsWritten

LEMMA NamesNext ==
    TypeInv /\ Informed /\ RowsInv /\ AddedNamesDiffer /\ [Next]_vars => AddedNamesDiffer'
<1> SUFFICES ASSUME TypeInv, Informed, RowsInv, AddedNamesDiffer, [Next]_vars
             PROVE  AddedNamesDiffer'
    OBVIOUS
<1>1. ASSUME NEW n \in Jobs, NEW t, job[n].step = "verified", NewType(n, t)
      PROVE  AddedNamesDiffer'
    <2>1. \A m \in MetricsOf(n, n, t.metrics) : m.type = n /\ m.id = n
        BY DEF MetricsOf
    <2>2. \A m \in metrics : m.type # n
        BY <1>1 DEF RowsInv, Numbered, References, Has, Finished
    <2> QED
        BY <1>1, <2>1, <2>2 DEF AddedNamesDiffer, NewType
<1>2. ASSUME NEW n \in Jobs, NEW m, NewMetric(n, m) PROVE AddedNamesDiffer'
    BY <1>2 DEF AddedNamesDiffer, NewMetric
<1>3. CASE UNCHANGED metrics
    BY <1>3 DEF AddedNamesDiffer
<1> QED
    BY <1>1, <1>2, <1>3, RowsWritten DEF NewFacility, NewAsset

LEMMA WholeNext ==
    TypeInv /\ Informed /\ TypesAreWhole /\ [Next]_vars => TypesAreWhole'
<1> SUFFICES ASSUME TypeInv, Informed, TypesAreWhole, [Next]_vars PROVE TypesAreWhole'
    OBVIOUS
<1>1. metrics \subseteq metrics'
    BY TablesGrow
<1>2. ASSUME types' = types PROVE TypesAreWhole'
    BY <1>1, <1>2 DEF TypesAreWhole
<1>3. ASSUME NEW n \in Jobs, NEW t, NewType(n, t) PROVE TypesAreWhole'
    <2>1. ASSUME NEW i \in DOMAIN t.metrics
          PROVE  \E m \in metrics' : /\ m.type = t.id /\ m.id = t.id /\ m.place = i
                                     /\ m.name = t.metrics[i]
        <3> DEFINE m == [id |-> n, place |-> i, type |-> n, name |-> t.metrics[i],
                         by |-> job[n].user]
        <3>1. m \in MetricsOf(n, n, t.metrics)
            BY DEF MetricsOf
        <3>2. m.type = n /\ m.id = n /\ m.place = i /\ m.name = t.metrics[i]
            OBVIOUS
        <3> HIDE DEF m
        <3> QED
            BY <1>3, <3>1, <3>2 DEF NewType
    <2> QED
        BY <1>1, <1>3, <2>1 DEF TypesAreWhole, NewType
<1> QED
    BY <1>2, <1>3, RowsWritten DEF NewFacility, NewMetric, NewAsset

LEMMA CatalogCorrect == Spec => [](TypeInv /\ CatalogInv)
<1>1. Init => TypeInv /\ CatalogInv
    BY TypeInit, CatalogInit
<1>2. TypeInv /\ CatalogInv /\ [Next]_vars => (TypeInv /\ CatalogInv)'
    <2> SUFFICES ASSUME TypeInv, CatalogInv, [Next]_vars PROVE TypeInv' /\ CatalogInv'
        OBVIOUS
    <2>1. TypeInv' /\ Informed' /\ RowsInv'
        BY TypeNext, InformedNext, NumberedNext DEF CatalogInv
    <2>2. MadeByMembers'
        <3>1. Made /\ Made'
            BY MadeMeans, MadeNext DEF CatalogInv
        <3>2. (RowsInv => (Made <=> MadeByMembers))'
            BY MadeMeans, PTL
        <3> QED
            BY <2>1, <3>1, <3>2
    <2> QED
        BY <2>1, <2>2, NamesNext, WholeNext DEF CatalogInv
<1> QED
    BY <1>1, <1>2, PTL DEF Spec

\* A handler asks auth-service, awaits, and writes: whoever made a row belongs
\* to the organization the row is found under, then and ever after.
THEOREM RowsAreMadeByMembers == Spec => []MadeByMembers
<1>1. CatalogInv => MadeByMembers
    BY DEF CatalogInv
<1> QED
    BY <1>1, CatalogCorrect, PTL

\* However many requests add the same metric name while they await
\* auth-service, the type has it once.
THEOREM AddedNamesAreNew == Spec => []AddedNamesDiffer
<1>1. CatalogInv => AddedNamesDiffer
    BY DEF CatalogInv
<1> QED
    BY <1>1, CatalogCorrect, PTL

\* No crash shows a type without one of the metrics it was created with.
THEOREM TypesAreStoredWhole == Spec => []TypesAreWhole
<1>1. CatalogInv => TypesAreWhole
    BY DEF CatalogInv
<1> QED
    BY <1>1, CatalogCorrect, PTL
=============================================================================
