------------------------- MODULE TelemetryIngestion -------------------------
(***************************************************************************)
(* How telemetry-service writes readings and metric mappings: the HTTP     *)
(* handlers, which share one event loop and never yield inside their       *)
(* database code, and the MQTT callback, which paho runs on a thread of    *)
(* its own.  Each works in a PostgreSQL transaction of its own (READ       *)
(* COMMITTED), so what one of them reads can be stale when it writes.      *)
(*                                                                         *)
(* Authentication comes before every operation here and is left out: a     *)
(* rejected HTTP call changes nothing, a rejected message is DropMessage.  *)
(***************************************************************************)
EXTENDS Naturals, Sequences, FiniteSets

CONSTANTS
    Points, Contents, CallerKeys, Metrics, NoMetric,  \* see ReadingLedger
    NoKey,        \* an item that brings no idempotency_key
    Threads,      \* the threads that run: {"loop"} or {"loop", "mqtt"}
    Submissions,  \* what a client may send in one call
    MaxCalls,     \* bound: ingestion calls and messages
    MaxMappings,  \* bound: mappings created
    MaxCrashes    \* bound: restarts of the process

\* A validated TelemetryReadingCreate.
Items == [point: Points, content: Contents, ikey: CallerKeys \cup {NoKey}]

\* A payload: the entries that validate, in their order, whether there are
\* entries that fail validation, and whether there are entries that are not
\* even rows or objects.
Payloads == [items: Seq(Items), invalid: BOOLEAN, alien: BOOLEAN]

ContentKeys == Points \X Contents

ASSUME ThreadsAssumption == Threads \subseteq {"loop", "mqtt"}
ASSUME BoundsAssumption == {MaxCalls, MaxMappings, MaxCrashes} \subseteq Nat
ASSUME SubmissionsAssumption == Submissions \subseteq Payloads
ASSUME NamesAssumption ==
    /\ NoKey \notin CallerKeys
    /\ NoMetric \notin Metrics
    \* A caller's key is never the hash of some reading.
    /\ CallerKeys \cap ContentKeys = {}

VARIABLES
    readings,  \* committed rows of telemetry_readings
    mappings,  \* committed rows of metric_mappings, oldest first
    calls,     \* history: every ingestion call so far and how it ended
    crashes,   \* history: restarts so far
    pc,        \* per thread: the statement its handler is at
    call,      \* per thread: the call it is serving
    todo,      \* per thread: items its loop has still to look at
    existing,  \* per thread: existing_keys, as of the first SELECT
    staged,    \* per thread: rows added to the session, not yet flushed
    inserted,  \* per thread: rows flushed, not yet committed
    change,    \* per thread: the mapping being created, if any
    marked     \* per thread: rows its backfill UPDATE matched

db == <<readings, mappings>>
session == <<call, todo, existing, staged, inserted>>
backfill == <<change, marked>>
vars == <<db, calls, crashes, pc, session, backfill>>

Ledger == INSTANCE ReadingLedger

Channels == {"json", "csv", "mqtt"}

ChannelsOf(t) == IF t = "mqtt" THEN {"mqtt"} ELSE {"json", "csv"}

Outcomes == {"running", "returned", "raised", "lost"}

CallRecords == [channel: Channels, items: Seq(Items), outcome: Outcomes,
                accepted: Nat, unmapped: Nat, duplicate: Nat]

NoChange == [point |-> {}, metric |-> NoMetric]

-----------------------------------------------------------------------------
\* Slips, here and below: each is a plausible mistake in the definition that
\* follows it, and some run must notice when it takes that definition's place.
\* Here: no derived key at all; a derived key that forgets the content.
SlipCallerKeyOnly(item) == item.ikey
SlipPointKey(item) == IF item.ikey = NoKey THEN <<item.point>> ELSE item.ikey

\* item.idempotency_key or _derive_content_key(item): the hash is injective,
\* so the derived key is the content itself.
EffectiveKey(item) ==
    IF item.ikey = NoKey THEN <<item.point, item.content>> ELSE item.ikey

Elements(s) == {s[i] : i \in 1..Len(s)}

\* seen_in_batch: a key is added to it exactly when its row is staged.
SeenInBatch(t) == Ledger!KeysOf(Elements(staged[t]))

\* Slip: the mapping of any point will do.
SlipAnyMapping(p) ==
    {NoMetric} \cup UNION {Ledger!MappedMetrics(o) : o \in Points}

\* What _resolve_metric may return: .first() of the mappings of the point with
\* no ORDER BY, so any of them; NULL when there is none.
Resolutions(p) ==
    IF Ledger!MappedMetrics(p) = {} THEN {NoMetric} ELSE Ledger!MappedMetrics(p)

RowOf(item, metric, c) ==
    [key |-> EffectiveKey(item), point |-> item.point,
     content |-> item.content, metric |-> metric, call |-> c]

\* The rows the backfill UPDATE matches now: committed, of the point, NULL.
Unresolved(p) == {r \in readings : r.point = p /\ r.metric = NoMetric}

\* list_unmapped_keys and list_metric_mappings: the points that have a reading
\* without a metric, and the points that have a mapping.
UnmappedPoints == {p \in Points : Unresolved(p) # {}}
MappedPoints == {p \in Points : Ledger!MappedMetrics(p) # {}}

\* The unique index makes an insert wait for the transaction of another
\* thread that holds the same key uncommitted.
WaitsFor(t, u) ==
    /\ u # t
    /\ pc[t] = "write" /\ todo[t] = <<>> /\ staged[t] # <<>>
    /\ Head(staged[t]).key \in Ledger!KeysOf(inserted[u])

Init ==
    /\ readings = {}
    /\ mappings = <<>>
    /\ calls = <<>>
    /\ crashes = 0
    /\ pc = [t \in Threads |-> "idle"]
    /\ call = [t \in Threads |-> 0]
    /\ todo = [t \in Threads |-> <<>>]
    /\ existing = [t \in Threads |-> {}]
    /\ staged = [t \in Threads |-> <<>>]
    /\ inserted = [t \in Threads |-> {}]
    /\ change = [t \in Threads |-> NoChange]
    /\ marked = [t \in Threads |-> {}]

-----------------------------------------------------------------------------
(* Arrival of a call.                                                      *)

NewCall(ch, items, outcome) ==
    [channel |-> ch, items |-> items, outcome |-> outcome,
     accepted |-> 0, unmapped |-> 0, duplicate |-> 0]

MayArrive(t) == pc[t] = "idle" /\ Len(calls) < MaxCalls

\* A call whose entries all parse or are skipped.  JSON is validated as a
\* whole before the handler runs, CSV rows and MQTT readings one by one.
Arrive(t) ==
    /\ MayArrive(t)
    /\ \E raw \in Submissions, ch \in ChannelsOf(t) :
         /\ ~raw.alien
         /\ raw.items # <<>>
         /\ ch = "json" => ~raw.invalid
         /\ calls' = Append(calls, NewCall(ch, raw.items, "running"))
         /\ todo' = [todo EXCEPT ![t] = raw.items]
    /\ call' = [call EXCEPT ![t] = Len(calls) + 1]
    /\ pc' = [pc EXCEPT ![t] = "lookup"]
    /\ UNCHANGED <<db, crashes, existing, staged, inserted, backfill>>

\* An entry that is not a row or an object: a CSV line with more cells than
\* the header, an MQTT reading or payload that is no JSON object.  The error
\* raised is none of those caught.  It ends an HTTP call with a 500 and
\* (paho) the MQTT thread for good.
ArriveAlien(t) ==
    /\ MayArrive(t)
    /\ \E raw \in Submissions, ch \in ChannelsOf(t) \ {"json"} :
         /\ raw.alien
         /\ calls' = Append(calls, NewCall(ch, raw.items, "raised"))
    /\ pc' = [pc EXCEPT ![t] = IF t = "mqtt" THEN "dead" ELSE "idle"]
    /\ UNCHANGED <<db, crashes, session, backfill>>

\* A message that is no JSON, lacks a field, fails authentication or holds no
\* valid reading is dropped.
DropMessage ==
    /\ "mqtt" \in Threads
    /\ MayArrive("mqtt")
    /\ calls' = Append(calls, NewCall("mqtt", <<>>, "returned"))
    /\ UNCHANGED <<db, crashes, pc, session, backfill>>

-----------------------------------------------------------------------------
(* _ingest_items, and ingest_reading, which is the same for one item.      *)

LookupExisting(t) ==
    /\ pc[t] = "lookup"
    /\ existing' = [existing EXCEPT ![t] =
           {EffectiveKey(i) : i \in Elements(todo[t])}
               \cap Ledger!KeysOf(readings)]
    /\ pc' = [pc EXCEPT ![t] = "write"]
    /\ UNCHANGED <<db, calls, crashes, call, todo, staged, inserted, backfill>>

IsDuplicate(t, item) ==
    EffectiveKey(item) \in existing[t] \cup SeenInBatch(t)

SkipDuplicate(t) ==
    /\ pc[t] = "write" /\ todo[t] # <<>>
    /\ IsDuplicate(t, Head(todo[t]))
    /\ todo' = [todo EXCEPT ![t] = Tail(@)]
    /\ calls' = [calls EXCEPT ![call[t]].duplicate = @ + 1]
    /\ UNCHANGED <<db, crashes, pc, call, existing, staged, inserted, backfill>>

StageReading(t) ==
    /\ pc[t] = "write" /\ todo[t] # <<>>
    /\ ~IsDuplicate(t, Head(todo[t]))
    /\ \E m \in Resolutions(Head(todo[t]).point) :
         /\ staged' = [staged EXCEPT ![t] =
                Append(@, RowOf(Head(todo[t]), m, call[t]))]
         /\ calls' = [calls EXCEPT
                ![call[t]].accepted = @ + 1,
                ![call[t]].unmapped = IF m = NoMetric THEN @ + 1 ELSE @]
    /\ todo' = [todo EXCEPT ![t] = Tail(@)]
    /\ UNCHANGED <<db, crashes, pc, call, existing, inserted, backfill>>

\* Slips: no unique index; every row committed by itself.
SlipNoIndex(t) ==
    /\ pc[t] = "write" /\ todo[t] = <<>> /\ staged[t] # <<>>
    /\ inserted' = [inserted EXCEPT ![t] = @ \cup {Head(staged[t])}]
    /\ staged' = [staged EXCEPT ![t] = Tail(@)]
    /\ UNCHANGED <<db, calls, crashes, pc, call, todo, existing, backfill>>
SlipAutocommit(t) ==
    /\ pc[t] = "write" /\ todo[t] = <<>> /\ staged[t] # <<>>
    /\ Head(staged[t]).key \notin Ledger!KeysOf(readings)
    /\ readings' = readings \cup {Head(staged[t])}
    /\ staged' = [staged EXCEPT ![t] = Tail(@)]
    /\ UNCHANGED <<mappings, calls, crashes, pc, call, todo, existing, inserted,
                   backfill>>

\* db.commit() first flushes the session: INSERTs in the order of db.add.
InsertRow(t) ==
    /\ pc[t] = "write" /\ todo[t] = <<>> /\ staged[t] # <<>>
    /\ \A u \in Threads : ~WaitsFor(t, u)
    /\ Head(staged[t]).key \notin Ledger!KeysOf(readings \cup inserted[t])
    /\ inserted' = [inserted EXCEPT ![t] = @ \cup {Head(staged[t])}]
    /\ staged' = [staged EXCEPT ![t] = Tail(@)]
    /\ UNCHANGED <<db, calls, crashes, pc, call, todo, existing, backfill>>

\* The exception leaves the handler and the session is closed, which rolls the
\* transaction back.
RollBack(t) ==
    /\ calls' = [calls EXCEPT ![call[t]].outcome = "raised"]
    /\ pc' = [pc EXCEPT ![t] = IF t = "mqtt" THEN "dead" ELSE "idle"]
    /\ existing' = [existing EXCEPT ![t] = {}]
    /\ staged' = [staged EXCEPT ![t] = <<>>]
    /\ inserted' = [inserted EXCEPT ![t] = {}]
    /\ UNCHANGED <<db, crashes, call, todo, backfill>>

\* Slips: the conflicting row is passed over, but was counted as accepted; the
\* flush is tried again as it was.
SlipSkipConflict(t) ==
    /\ pc[t] = "write" /\ todo[t] = <<>> /\ staged[t] # <<>>
    /\ Head(staged[t]).key \in Ledger!KeysOf(readings \cup inserted[t])
    /\ staged' = [staged EXCEPT ![t] = Tail(@)]
    /\ UNCHANGED <<db, calls, crashes, pc, call, todo, existing, inserted, backfill>>
SlipRetryConflict(t) ==
    /\ pc[t] = "write" /\ todo[t] = <<>> /\ staged[t] # <<>>
    /\ Head(staged[t]).key \in Ledger!KeysOf(readings \cup inserted[t])
    /\ UNCHANGED vars

\* IntegrityError: the key was committed after the SELECT.
InsertConflict(t) ==
    /\ pc[t] = "write" /\ todo[t] = <<>> /\ staged[t] # <<>>
    /\ \A u \in Threads : ~WaitsFor(t, u)
    /\ Head(staged[t]).key \in Ledger!KeysOf(readings \cup inserted[t])
    /\ RollBack(t)

\* Slip: the flush of the aborted transaction is tried again, without a rollback.
SlipRetryVictim(t) ==
    /\ \E u \in Threads : WaitsFor(t, u) /\ WaitsFor(u, t)
    /\ UNCHANGED vars

\* Two batches with the same keys in opposite orders: PostgreSQL finds the
\* cycle and aborts one of the transactions.
DeadlockVictim(t) ==
    /\ \E u \in Threads : WaitsFor(t, u) /\ WaitsFor(u, t)
    /\ RollBack(t)

CommitBatch(t) ==
    /\ pc[t] = "write" /\ todo[t] = <<>> /\ staged[t] = <<>>
    /\ readings' = readings \cup inserted[t]
    /\ existing' = [existing EXCEPT ![t] = {}]
    /\ inserted' = [inserted EXCEPT ![t] = {}]
    /\ pc' = [pc EXCEPT ![t] = "answer"]
    /\ UNCHANGED <<mappings, calls, crashes, call, todo, staged, backfill>>

\* The response leaves, or the message is acknowledged to the broker.
Answer(t) ==
    /\ pc[t] = "answer"
    /\ calls' = [calls EXCEPT ![call[t]].outcome = "returned"]
    /\ pc' = [pc EXCEPT ![t] = "idle"]
    /\ UNCHANGED <<db, crashes, session, backfill>>

-----------------------------------------------------------------------------
(* create_metric_mapping, on the event loop: flush, UPDATE, commit.        *)

InsertMapping ==
    /\ "loop" \in Threads /\ pc["loop"] = "idle"
    /\ Len(mappings) < MaxMappings
    /\ \E new \in Ledger!Mappings : change' = [change EXCEPT !["loop"] = new]
    /\ pc' = [pc EXCEPT !["loop"] = "backfill"]
    /\ UNCHANGED <<db, calls, crashes, session, marked>>

\* Slips: the UPDATE forgets IS NULL, or external_key.
SlipMark(rows) ==
    /\ "loop" \in Threads /\ pc["loop"] = "backfill"
    /\ marked' = [marked EXCEPT !["loop"] = rows]
    /\ pc' = [pc EXCEPT !["loop"] = "commitMapping"]
    /\ UNCHANGED <<db, calls, crashes, session, change>>
SlipRestamp == SlipMark({r \in readings : r.point = change["loop"].point})
SlipAnyPoint == SlipMark({r \in readings : r.metric = NoMetric})

Backfill ==
    /\ "loop" \in Threads /\ pc["loop"] = "backfill"
    /\ marked' = [marked EXCEPT !["loop"] = Unresolved(change["loop"].point)]
    /\ pc' = [pc EXCEPT !["loop"] = "commitMapping"]
    /\ UNCHANGED <<db, calls, crashes, session, change>>

CommitMapping ==
    /\ "loop" \in Threads /\ pc["loop"] = "commitMapping"
    /\ mappings' = Append(mappings, change["loop"])
    /\ readings' = (readings \ marked["loop"])
           \cup {Ledger!Stamped(r, change["loop"].metric) : r \in marked["loop"]}
    /\ change' = [change EXCEPT !["loop"] = NoChange]
    /\ marked' = [marked EXCEPT !["loop"] = {}]
    /\ pc' = [pc EXCEPT !["loop"] = "idle"]
    /\ UNCHANGED <<calls, crashes, session>>

-----------------------------------------------------------------------------
\* The process dies and compose restarts it: open transactions roll back, the
\* MQTT thread starts anew, and whoever waited for an answer gets none.
Crash ==
    /\ crashes < MaxCrashes
    /\ crashes' = crashes + 1
    /\ calls' = [c \in DOMAIN calls |->
           IF calls[c].outcome = "running"
           THEN [calls[c] EXCEPT !.outcome = "lost"] ELSE calls[c]]
    /\ pc' = [t \in Threads |-> "idle"]
    /\ todo' = [t \in Threads |-> <<>>]
    /\ existing' = [t \in Threads |-> {}]
    /\ staged' = [t \in Threads |-> <<>>]
    /\ inserted' = [t \in Threads |-> {}]
    /\ change' = [t \in Threads |-> NoChange]
    /\ marked' = [t \in Threads |-> {}]
    /\ UNCHANGED <<db, call>>

\* The steps of a handler that has begun; a new call is the client's choice.
Serve(t) ==
    \/ LookupExisting(t)
    \/ SkipDuplicate(t)
    \/ StageReading(t)
    \/ InsertRow(t)
    \/ InsertConflict(t)
    \/ DeadlockVictim(t)
    \/ CommitBatch(t)
    \/ Answer(t)

Next ==
    \/ \E t \in Threads : Arrive(t) \/ ArriveAlien(t) \/ Serve(t)
    \/ DropMessage
    \/ InsertMapping
    \/ Backfill
    \/ CommitMapping
    \/ Crash

Spec == Init /\ [][Next]_vars

\* A thread that is at a statement runs it: the event loop and the paho thread
\* are scheduled by the interpreter, and the deadlock detector always fires.
Fairness ==
    /\ \A t \in Threads : WF_vars(Serve(t))
    /\ WF_vars(Backfill) /\ WF_vars(CommitMapping)

FairSpec == Spec /\ Fairness

-----------------------------------------------------------------------------
(* Properties.                                                             *)

\* The types of the state, and what each statement of a handler relies on.
TypeOK ==
    /\ readings \subseteq Ledger!Rows
    /\ mappings \in Seq(Ledger!Mappings)
    /\ calls \in Seq(CallRecords)
    /\ crashes \in Nat
    /\ pc \in [Threads -> {"idle", "lookup", "write", "answer",
                           "backfill", "commitMapping", "dead"}]
    /\ call \in [Threads -> Nat]
    /\ todo \in [Threads -> Seq(Items)]
    /\ existing \in [Threads -> SUBSET Ledger!Keys]
    /\ staged \in [Threads -> Seq(Ledger!Rows)]
    /\ inserted \in [Threads -> SUBSET Ledger!Rows]
    /\ change \in [Threads -> Ledger!Mappings \cup {NoChange}]
    /\ marked \in [Threads -> SUBSET Ledger!Rows]

\* UNIQUE(idempotency_key): whatever the threads raced on, a key is stored at
\* most once, so a reading sent again is never stored again.
UniqueKeys == Ledger!KeysDistinct(readings)

\* The strengthening that makes UniqueKeys inductive: a key some transaction
\* holds uncommitted is in no committed row and in no other transaction.
PendingKeysFresh ==
    \A t \in Threads :
        /\ Ledger!KeysDistinct(inserted[t])
        /\ Ledger!KeysOf(inserted[t]) \cap Ledger!KeysOf(readings) = {}
        /\ \A u \in Threads \ {t} :
              Ledger!KeysOf(inserted[t]) \cap Ledger!KeysOf(inserted[u]) = {}

\* What a backfill is about to stamp still lacks a metric: nobody else rewrites
\* or removes the rows between its UPDATE and its commit.
MarkedAreUnresolved ==
    \A t \in Threads :
        /\ marked[t] \subseteq Unresolved(change[t].point)
        /\ (t # "loop" \/ pc[t] # "commitMapping") => marked[t] = {}

\* The store holds this item: its own reading if it brought no key, a reading
\* with its key if it did.
Stored(item) ==
    \E r \in readings :
        /\ r.key = EffectiveKey(item)
        /\ item.ikey = NoKey => r.point = item.point /\ r.content = item.content

\* Every item of these calls is stored.
AllStored(cs) == \A c \in cs : \A item \in Elements(calls[c].items) : Stored(item)

CallsEnding(outcomes) == {c \in DOMAIN calls : calls[c].outcome \in outcomes}

\* A client that was told 2xx need not send again: each of its readings is
\* stored, under a restart and whatever it raced with.  What is skipped as a
\* duplicate was already there.
AnsweredMeansStored == AllStored(CallsEnding({"returned"}))

RowsOf(c) == {r \in readings : r.call = c}

\* A call writes all its new readings in one commit: it left no row if it
\* failed, and every row it owes if it left any, even if the process died
\* before answering.
AllOrNothing ==
    /\ \A c \in CallsEnding({"raised"}) : RowsOf(c) = {}
    /\ AllStored({c \in DOMAIN calls : RowsOf(c) # {}})

\* The counts of the response are those of the database: accepted readings
\* are the rows the call wrote, the others were duplicates, and no more of
\* its rows lack a metric than it said (a backfill may have come since).
CountsHonest ==
    \A c \in CallsEnding({"returned"}) :
        /\ calls[c].accepted = Cardinality(RowsOf(c))
        /\ calls[c].accepted + calls[c].duplicate = Len(calls[c].items)
        /\ calls[c].unmapped >=
              Cardinality({r \in RowsOf(c) : r.metric = NoMetric})

\* The metric of a reading is one its own point was mapped to, by a mapping
\* that is committed, whichever handler stamped it.
StampsFromMappings == \A r \in readings : Ledger!Sourced(r)

\* ADR 0005: a reading is never deleted and its metric, once set, is never
\* rewritten, even when its point is mapped again.
StampPermanent ==
    [][\A r \in readings :
          \/ r \in readings'
          \/ /\ r.metric = NoMetric
             /\ \E m \in Metrics : Ledger!Stamped(r, m) \in readings']_vars

\* The threads, transactions and restarts implement the atomic ledger.
ImplementsLedger == Ledger!Spec

\* Every call that began ends: a thread that waits for the other's insert gets
\* to go on, fail or be aborted.
CallsEnd ==
    \A c \in 1..MaxCalls :
        c \in CallsEnding({"running"}) ~> c \in CallsEnding(Outcomes \ {"running"})

-----------------------------------------------------------------------------
(* What the documentation says and the code does not do; see the README.   *)

\* list_metric_mappings is "The complement of GET /telemetry/unmapped": no
\* point is both mapped and listed as lacking a mapping.  It is so as long as
\* the event loop is the only writer (ListsAreComplementsOverHttp, in the
\* proofs), and not beside the MQTT thread.
ListsAreComplements == UnmappedPoints \cap MappedPoints = {}
=============================================================================
