---------------------- MODULE TelemetryIngestionProofs ----------------------
(***************************************************************************)
(* Theorems about TelemetryIngestion, for every choice of points, keys,    *)
(* payloads, threads and bounds.  TypeCorrect comes first; the others use  *)
(* it and an inductive invariant of their own.                             *)
(***************************************************************************)
EXTENDS TelemetryIngestion, FiniteSetTheorems, SequenceTheorems, TLAPS

-----------------------------------------------------------------------------
(* Sequences: what the model does to its lists.                            *)

LEMMA AppendElements ==
    ASSUME NEW S, NEW s \in Seq(S), NEW e
    PROVE  Elements(Append(s, e)) = Elements(s) \cup {e}
<1>1. /\ Len(Append(s, e)) = Len(s) + 1
      /\ Len(s) \in Nat
      /\ \A i \in 1..Len(s) : Append(s, e)[i] = s[i]
      /\ Append(s, e)[Len(s) + 1] = e
    OBVIOUS
<1>2. 1..(Len(s) + 1) = (1..Len(s)) \cup {Len(s) + 1}
    BY <1>1
<1> QED
    BY <1>1, <1>2 DEF Elements

LEMMA HeadTailElements ==
    ASSUME NEW S, NEW s \in Seq(S), s # <<>>
    PROVE  /\ Head(s) \in S
           /\ Tail(s) \in Seq(S)
           /\ Elements(s) = {Head(s)} \cup Elements(Tail(s))
<1>1. /\ Head(s) \in S /\ Head(s) = s[1]
      /\ Tail(s) \in Seq(S)
      /\ Len(s) \in Nat /\ Len(s) >= 1
      /\ Len(Tail(s)) = Len(s) - 1
      /\ \A i \in 1..Len(Tail(s)) : Tail(s)[i] = s[i + 1]
    BY HeadTailProperties, EmptySeq
<1>2. ASSUME NEW i \in 1..Len(s), i # 1
      PROVE  i - 1 \in 1..Len(Tail(s)) /\ Tail(s)[i - 1] = s[i]
    BY <1>1, <1>2
<1>3. ASSUME NEW i \in 1..Len(Tail(s))
      PROVE  i + 1 \in 1..Len(s)
    BY <1>1, <1>3
<1>4. 1 \in 1..Len(s)
    BY <1>1
<1>5. Elements(s) \subseteq {Head(s)} \cup Elements(Tail(s))
    BY <1>1, <1>2 DEF Elements
<1>6. {Head(s)} \cup Elements(Tail(s)) \subseteq Elements(s)
    BY <1>1, <1>3, <1>4 DEF Elements
<1> QED
    BY <1>1, <1>5, <1>6

LEMMA EmptyElements == Elements(<<>>) = {}
BY DEF Elements

-----------------------------------------------------------------------------
(* Types.                                                                  *)

\* A thread in the middle of a call serves a call of the history, and one in
\* the middle of a mapping has a mapping.
Busy ==
    \A t \in Threads :
        /\ pc[t] \in {"lookup", "write", "answer"} => call[t] \in 1..Len(calls)
        /\ pc[t] \in {"backfill", "commitMapping"} => change[t] \in Ledger!Mappings

TypeInv == TypeOK /\ Busy

LEMMA KeyType ==
    ASSUME NEW item \in Items
    PROVE  EffectiveKey(item) \in Ledger!Keys
BY DEF Items, EffectiveKey, Ledger!Keys, Ledger!ContentKeys

LEMMA ResolutionType ==
    ASSUME mappings \in Seq(Ledger!Mappings), NEW p
    PROVE  Resolutions(p) \subseteq Metrics \cup {NoMetric}
<1>1. \A i \in 1..Len(mappings) : mappings[i] \in Ledger!Mappings
    BY ElementOfSeq
<1>2. \A i \in 1..Len(mappings) : mappings[i].metric \in Metrics
    BY <1>1 DEF Ledger!Mappings
<1> QED
    BY <1>2 DEF Resolutions, Ledger!MappedMetrics

LEMMA RowType ==
    ASSUME NEW item \in Items, NEW m \in Metrics \cup {NoMetric}, NEW c \in Nat
    PROVE  RowOf(item, m, c) \in Ledger!Rows
BY KeyType DEF RowOf, Items, Ledger!Rows

\* The history changes in one of two ways: a call is appended, or the record
\* of one is replaced.
LEMMA NewCallType ==
    ASSUME NEW ch \in Channels, NEW items \in Seq(Items), NEW o \in Outcomes
    PROVE  NewCall(ch, items, o) \in CallRecords
BY DEF NewCall, CallRecords

LEMMA RecordTypes ==
    ASSUME NEW r \in CallRecords
    PROVE  /\ \A o \in Outcomes : [r EXCEPT !.outcome = o] \in CallRecords
           /\ [r EXCEPT !.duplicate = @ + 1] \in CallRecords
           /\ [r EXCEPT !.accepted = @ + 1] \in CallRecords
           /\ [r EXCEPT !.accepted = @ + 1, !.unmapped = @ + 1] \in CallRecords
<1> USE DEF CallRecords
<1>1. ASSUME NEW o \in Outcomes
      PROVE  [r EXCEPT !.outcome = o] \in CallRecords
    OBVIOUS
<1>2. [r EXCEPT !.duplicate = @ + 1] \in CallRecords
    OBVIOUS
<1>3. [r EXCEPT !.accepted = @ + 1] \in CallRecords
    OBVIOUS
<1>4. [r EXCEPT !.accepted = @ + 1, !.unmapped = @ + 1] \in CallRecords
    <2> DEFINE s == [r EXCEPT !.accepted = @ + 1]
    <2>1. s \in CallRecords /\ s.unmapped = r.unmapped
        BY <1>3
    <2>2. ASSUME NEW x \in CallRecords
          PROVE  [x EXCEPT !.unmapped = @ + 1] \in CallRecords
        OBVIOUS
    <2>3. [s EXCEPT !.unmapped = @ + 1] \in CallRecords
        <3> HIDE DEF s
        <3> QED
            BY <2>1, <2>2
    <2>4. [r EXCEPT !.accepted = @ + 1, !.unmapped = @ + 1] =
              [s EXCEPT !.unmapped = r.unmapped + 1]
        OBVIOUS
    <2> QED
        BY <2>1, <2>3, <2>4
<1> QED
    BY <1>1, <1>2, <1>3, <1>4

LEMMA PayloadType ==
    ASSUME NEW raw \in Submissions
    PROVE  raw.items \in Seq(Items)
BY SubmissionsAssumption DEF Payloads

LEMMA TypeInit == Init => TypeInv
<1> SUFFICES ASSUME Init PROVE TypeInv
    OBVIOUS
<1> USE DEF Init
<1>1. TypeOK
    <2>1. /\ <<>> \in Seq(Ledger!Mappings) /\ <<>> \in Seq(CallRecords)
          /\ <<>> \in Seq(Items) /\ <<>> \in Seq(Ledger!Rows)
        BY EmptySeq
    <2> QED
        BY <2>1 DEF TypeOK
<1>2. Busy
    BY DEF Busy
<1> QED
    BY <1>1, <1>2 DEF TypeInv

LEMMA TypeNext == TypeInv /\ [Next]_vars => TypeInv'
<1> SUFFICES ASSUME TypeInv, [Next]_vars PROVE TypeInv'
    OBVIOUS
<1> USE DEF TypeInv
<1> USE DEF TypeOK, Busy, db, session, backfill
<1>0. CASE UNCHANGED vars
    BY <1>0 DEF vars
<1>1. ASSUME NEW t \in Threads, Arrive(t) PROVE TypeInv'
    <2>1. PICK raw \in Submissions, ch \in ChannelsOf(t) :
             /\ calls' = Append(calls, NewCall(ch, raw.items, "running"))
             /\ todo' = [todo EXCEPT ![t] = raw.items]
        BY <1>1 DEF Arrive
    <2>2. NewCall(ch, raw.items, "running") \in CallRecords
        BY PayloadType, NewCallType DEF ChannelsOf, Channels, Outcomes
    <2>3. calls' \in Seq(CallRecords) /\ Len(calls') = Len(calls) + 1
        BY <2>1, <2>2
    <2>4. Len(calls) \in Nat
        OBVIOUS
    <2>5. TypeOK'
        BY <1>1, <2>1, <2>3, <2>4, PayloadType DEF Arrive
    <2>6. Busy'
        BY <1>1, <2>3, <2>4 DEF Arrive
    <2> QED
        BY <2>5, <2>6
<1>2. ASSUME NEW t \in Threads, ArriveAlien(t) PROVE TypeInv'
    <2>1. PICK raw \in Submissions, ch \in ChannelsOf(t) :
             calls' = Append(calls, NewCall(ch, raw.items, "raised"))
        BY <1>2 DEF ArriveAlien
    <2>2. NewCall(ch, raw.items, "raised") \in CallRecords
        BY PayloadType, NewCallType DEF ChannelsOf, Channels, Outcomes
    <2>3. calls' \in Seq(CallRecords) /\ Len(calls') = Len(calls) + 1
        BY <2>1, <2>2
    <2>4. Len(calls) \in Nat
        OBVIOUS
    <2>5. TypeOK'
        BY <1>2, <2>3 DEF ArriveAlien
    <2>6. Busy'
        BY <1>2, <2>3, <2>4 DEF ArriveAlien
    <2> QED
        BY <2>5, <2>6
<1>3. ASSUME NEW t \in Threads, LookupExisting(t) PROVE TypeInv'
    <2>1. Ledger!KeysOf(readings) \subseteq Ledger!Keys
        BY DEF Ledger!KeysOf, Ledger!Rows
    <2> QED
        BY <1>3, <2>1 DEF LookupExisting
<1>4. ASSUME NEW t \in Threads, SkipDuplicate(t) PROVE TypeInv'
    <2>1. Tail(todo[t]) \in Seq(Items)
        BY <1>4, HeadTailElements DEF SkipDuplicate
    <2>2. call[t] \in 1..Len(calls)
        BY <1>4 DEF SkipDuplicate
    <2>3. calls[call[t]] \in CallRecords
        BY <2>2, ElementOfSeq
    <2>4. [calls[call[t]] EXCEPT !.duplicate = @ + 1] \in CallRecords
        BY <2>3, RecordTypes
    <2>5. calls' = [calls EXCEPT ![call[t]] =
                       [calls[call[t]] EXCEPT !.duplicate = @ + 1]]
        BY <1>4 DEF SkipDuplicate
    <2>6. calls' \in Seq(CallRecords) /\ Len(calls') = Len(calls)
        BY <2>2, <2>4, <2>5, ExceptSeq
    <2> QED
        BY <1>4, <2>1, <2>6 DEF SkipDuplicate
<1>5. ASSUME NEW t \in Threads, StageReading(t) PROVE TypeInv'
    <2>1. Head(todo[t]) \in Items /\ Tail(todo[t]) \in Seq(Items)
        BY <1>5, HeadTailElements DEF StageReading
    <2>2. call[t] \in 1..Len(calls) /\ call[t] \in Nat
        BY <1>5 DEF StageReading
    <2>3. calls[call[t]] \in CallRecords
        BY <2>2, ElementOfSeq
    <2>4. PICK m \in Resolutions(Head(todo[t]).point) :
             /\ staged' = [staged EXCEPT ![t] =
                    Append(@, RowOf(Head(todo[t]), m, call[t]))]
             /\ calls' = [calls EXCEPT
                    ![call[t]].accepted = @ + 1,
                    ![call[t]].unmapped = IF m = NoMetric THEN @ + 1 ELSE @]
        BY <1>5 DEF StageReading
    <2>5. RowOf(Head(todo[t]), m, call[t]) \in Ledger!Rows
        BY <2>1, <2>2, ResolutionType, RowType
    <2> DEFINE new == [calls[call[t]] EXCEPT !.accepted = @ + 1,
                          !.unmapped = IF m = NoMetric THEN @ + 1 ELSE @]
    <2>6. new \in CallRecords
        <3>1. CASE m = NoMetric
            BY <2>3, <3>1, RecordTypes
        <3>2. CASE m # NoMetric
            <4>1. new = [calls[call[t]] EXCEPT !.accepted = @ + 1]
                BY <2>3, <3>2 DEF CallRecords
            <4> QED
                BY <2>3, <4>1, RecordTypes
        <3> QED
            BY <3>1, <3>2
    <2>7. calls' = [calls EXCEPT ![call[t]] = new]
        BY <2>2, <2>3, <2>4 DEF CallRecords
    <2>8. calls' \in Seq(CallRecords) /\ Len(calls') = Len(calls)
        BY <2>2, <2>6, <2>7, ExceptSeq
    <2>9. staged' \in [Threads -> Seq(Ledger!Rows)]
        BY <2>4, <2>5
    <2> QED
        BY <1>5, <2>1, <2>8, <2>9 DEF StageReading
<1>6. ASSUME NEW t \in Threads, InsertRow(t) PROVE TypeInv'
    <2>1. Head(staged[t]) \in Ledger!Rows /\ Tail(staged[t]) \in Seq(Ledger!Rows)
        BY <1>6, HeadTailElements DEF InsertRow
    <2> QED
        BY <1>6, <2>1 DEF InsertRow
<1>7. ASSUME NEW t \in Threads, InsertConflict(t) \/ DeadlockVictim(t)
      PROVE  TypeInv'
    <2>1. pc[t] = "write" /\ RollBack(t)
        BY <1>7 DEF InsertConflict, DeadlockVictim, WaitsFor
    <2>2. call[t] \in 1..Len(calls)
        BY <2>1
    <2>3. [calls[call[t]] EXCEPT !.outcome = "raised"] \in CallRecords
        BY <2>2, ElementOfSeq, RecordTypes DEF Outcomes
    <2>4. calls' = [calls EXCEPT ![call[t]] =
                       [calls[call[t]] EXCEPT !.outcome = "raised"]]
        BY <2>1 DEF RollBack
    <2>5. calls' \in Seq(CallRecords) /\ Len(calls') = Len(calls)
        BY <2>2, <2>3, <2>4, ExceptSeq
    <2> QED
        BY <2>1, <2>5, EmptySeq DEF RollBack
<1>8. ASSUME NEW t \in Threads, CommitBatch(t) PROVE TypeInv'
    BY <1>8 DEF CommitBatch
<1>9. ASSUME NEW t \in Threads, Answer(t) PROVE TypeInv'
    <2>1. call[t] \in 1..Len(calls)
        BY <1>9 DEF Answer
    <2>2. [calls[call[t]] EXCEPT !.outcome = "returned"] \in CallRecords
        BY <2>1, ElementOfSeq, RecordTypes DEF Outcomes
    <2>3. calls' = [calls EXCEPT ![call[t]] =
                       [calls[call[t]] EXCEPT !.outcome = "returned"]]
        BY <1>9 DEF Answer
    <2>4. calls' \in Seq(CallRecords) /\ Len(calls') = Len(calls)
        BY <2>1, <2>2, <2>3, ExceptSeq
    <2> QED
        BY <1>9, <2>4 DEF Answer
<1>10. CASE DropMessage
    <2>1. NewCall("mqtt", <<>>, "returned") \in CallRecords
        BY EmptySeq, NewCallType DEF Channels, Outcomes
    <2>2. calls' \in Seq(CallRecords) /\ Len(calls') = Len(calls) + 1
        BY <1>10, <2>1 DEF DropMessage
    <2>3. Len(calls) \in Nat
        OBVIOUS
    <2> QED
        BY <1>10, <2>2, <2>3 DEF DropMessage
<1>11. CASE InsertMapping
    BY <1>11 DEF InsertMapping
<1>12. CASE Backfill
    BY <1>12 DEF Backfill, Unresolved
<1>13. CASE CommitMapping
    <2>1. change["loop"] \in Ledger!Mappings
        BY <1>13 DEF CommitMapping
    <2>2. mappings' \in Seq(Ledger!Mappings)
        BY <1>13, <2>1 DEF CommitMapping
    <2>3. \A r \in Ledger!Rows :
             Ledger!Stamped(r, change["loop"].metric) \in Ledger!Rows
        BY <2>1 DEF Ledger!Stamped, Ledger!Rows, Ledger!Mappings
    <2>4. readings' \subseteq Ledger!Rows
        BY <1>13, <2>3 DEF CommitMapping
    <2> QED
        BY <1>13, <2>2, <2>4 DEF CommitMapping
<1>14. CASE Crash
    <2>1. calls' \in Seq(CallRecords)
        <3>1. \A c \in 1..Len(calls) : calls[c] \in CallRecords
            BY ElementOfSeq
        <3>2. \A c \in 1..Len(calls) :
                 [calls[c] EXCEPT !.outcome = "lost"] \in CallRecords
            BY <3>1, RecordTypes DEF Outcomes
        <3>3. calls' \in [1..Len(calls) -> CallRecords]
            BY <1>14, <3>1, <3>2 DEF Crash
        <3>4. [1..Len(calls) -> CallRecords] \subseteq Seq(CallRecords)
            <4>1. Len(calls) \in Nat
                OBVIOUS
            <4>2. Seq(CallRecords) = UNION {[1..n -> CallRecords] : n \in Nat}
                BY SeqDef
            <4> QED
                BY <4>1, <4>2
        <3> QED
            BY <3>3, <3>4
    <2> QED
        BY <1>14, <2>1, EmptySeq DEF Crash
<1> QED
    BY <1>0, <1>1, <1>2, <1>3, <1>4, <1>5, <1>6, <1>7, <1>8, <1>9, <1>10,
       <1>11, <1>12, <1>13, <1>14 DEF Next, Serve

\* Every state has the types the code relies on.
THEOREM TypeCorrect == Spec => []TypeOK
<1>1. Spec => []TypeInv
    BY TypeInit, TypeNext, PTL DEF Spec
<1> QED
    BY <1>1, PTL DEF TypeInv

-----------------------------------------------------------------------------
(* Unique keys, also among the rows of open transactions.                  *)

KeyInv == UniqueKeys /\ PendingKeysFresh /\ MarkedAreUnresolved

\* Committing a mapping changes the metric of rows and nothing else.
LEMMA StampingKeepsRows ==
    ASSUME TypeInv, MarkedAreUnresolved, CommitMapping
    PROVE  /\ marked["loop"] \subseteq readings
           /\ \A r \in marked["loop"] :
                 LET s == Ledger!Stamped(r, change["loop"].metric)
                 IN  /\ s \in readings'
                     /\ s.key = r.key /\ s.point = r.point
                     /\ s.content = r.content
                     /\ s.metric = change["loop"].metric
           /\ \A s \in readings' :
                 \/ s \in readings \ marked["loop"]
                 \/ \E r \in marked["loop"] :
                       s = Ledger!Stamped(r, change["loop"].metric)
           /\ Ledger!KeysOf(readings') = Ledger!KeysOf(readings)
<1>1. marked["loop"] \subseteq readings
    BY DEF MarkedAreUnresolved, Unresolved, CommitMapping
<1>2. \A r \in readings : r \in Ledger!Rows
    BY DEF TypeInv, TypeOK
<1>3. ASSUME NEW r \in Ledger!Rows
      PROVE  LET s == Ledger!Stamped(r, change["loop"].metric)
             IN  /\ s.key = r.key /\ s.point = r.point
                 /\ s.content = r.content
                 /\ s.metric = change["loop"].metric
    BY DEF Ledger!Stamped, Ledger!Rows
<1>4. readings' = (readings \ marked["loop"])
          \cup {Ledger!Stamped(r, change["loop"].metric) : r \in marked["loop"]}
    BY DEF CommitMapping
<1>5. Ledger!KeysOf(readings') = Ledger!KeysOf(readings)
    BY <1>1, <1>2, <1>3, <1>4 DEF Ledger!KeysOf
<1> QED
    BY <1>1, <1>2, <1>3, <1>4, <1>5

LEMMA KeyInit == Init => KeyInv
BY DEF Init, KeyInv, UniqueKeys, PendingKeysFresh, MarkedAreUnresolved,
       Ledger!KeysDistinct, Ledger!KeysOf

LEMMA KeyNext == TypeInv /\ KeyInv /\ [Next]_vars => KeyInv'
<1> SUFFICES ASSUME TypeInv, KeyInv, [Next]_vars PROVE KeyInv'
    OBVIOUS
<1> USE DEF KeyInv
<1> USE DEF UniqueKeys, PendingKeysFresh, MarkedAreUnresolved, Unresolved
<1>a. /\ pc \in [Threads -> {"idle", "lookup", "write", "answer",
                             "backfill", "commitMapping", "dead"}]
      /\ inserted \in [Threads -> SUBSET Ledger!Rows]
      /\ marked \in [Threads -> SUBSET Ledger!Rows]
      /\ change \in [Threads -> Ledger!Mappings \cup {NoChange}]
    BY DEF TypeInv, TypeOK
\* Most steps leave the keys alone and move no thread into or out of a commit.
<1>b. ASSUME UNCHANGED <<readings, inserted, change, marked>>,
             \A t \in Threads : pc'[t] = pc[t] \/ pc[t] # "commitMapping"
      PROVE  KeyInv'
    BY <1>b
<1>0. CASE UNCHANGED vars
    BY <1>0, <1>b DEF vars, db, session, backfill
<1>1. ASSUME NEW t \in Threads,
             Arrive(t) \/ ArriveAlien(t) \/ LookupExisting(t)
                \/ SkipDuplicate(t) \/ StageReading(t) \/ Answer(t)
      PROVE  KeyInv'
    <2>1. UNCHANGED <<readings, inserted, change, marked>>
        BY <1>1 DEF Arrive, ArriveAlien, LookupExisting, SkipDuplicate,
                    StageReading, Answer, db, session, backfill
    <2>2. \A u \in Threads : pc'[u] = pc[u] \/ pc[u] # "commitMapping"
        BY <1>1, <1>a DEF Arrive, ArriveAlien, LookupExisting, SkipDuplicate,
                    StageReading, Answer, MayArrive, db, session, backfill
    <2> QED
        BY <2>1, <2>2, <1>b
<1>2. ASSUME NEW t \in Threads, InsertRow(t) PROVE KeyInv'
    <2> DEFINE row == Head(staged[t])
    <2>1. /\ inserted' = [inserted EXCEPT ![t] = @ \cup {row}]
          /\ row.key \notin Ledger!KeysOf(readings \cup inserted[t])
          /\ UNCHANGED <<readings, change, marked, pc>>
        BY <1>2 DEF InsertRow, db, backfill
    <2>2. \A u \in Threads \ {t} : row.key \notin Ledger!KeysOf(inserted[u])
        BY <1>2 DEF InsertRow, WaitsFor
    <2> HIDE DEF row
    <2>3. UniqueKeys' /\ MarkedAreUnresolved'
        BY <1>a, <2>1 DEF Ledger!KeysDistinct
    <2>4. /\ inserted'[t] = inserted[t] \cup {row}
          /\ \A u \in Threads \ {t} : inserted'[u] = inserted[u]
        BY <1>a, <2>1
    <2>5. Ledger!KeysOf(inserted'[t]) = Ledger!KeysOf(inserted[t]) \cup {row.key}
        BY <2>4 DEF Ledger!KeysOf
    <2>6. row.key \notin Ledger!KeysOf(readings)
        BY <2>1 DEF Ledger!KeysOf
    <2>7. Ledger!KeysDistinct(inserted'[t])
        BY <2>1, <2>4 DEF Ledger!KeysOf, Ledger!KeysDistinct
    <2>8. ASSUME NEW u \in Threads
          PROVE  /\ Ledger!KeysDistinct(inserted'[u])
                 /\ Ledger!KeysOf(inserted'[u]) \cap Ledger!KeysOf(readings) = {}
                 /\ \A v \in Threads \ {u} :
                       Ledger!KeysOf(inserted'[u])
                           \cap Ledger!KeysOf(inserted'[v]) = {}
        <3>1. CASE u = t
            BY <2>2, <2>4, <2>5, <2>6, <2>7, <3>1
        <3>2. CASE u # t
            <4>1. ASSUME NEW v \in Threads \ {u}
                  PROVE  Ledger!KeysOf(inserted'[u])
                             \cap Ledger!KeysOf(inserted'[v]) = {}
                <5>0. Ledger!KeysOf(inserted[u]) \cap Ledger!KeysOf(inserted[v]) = {}
                    BY <4>1
                <5>1. CASE v = t
                    <6>1. /\ inserted'[u] = inserted[u]
                          /\ row.key \notin Ledger!KeysOf(inserted[u])
                          /\ Ledger!KeysOf(inserted'[v]) =
                                 Ledger!KeysOf(inserted[v]) \cup {row.key}
                        BY <2>2, <2>4, <2>5, <3>2, <5>1
                    <6> QED
                        BY <5>0, <6>1
                <5>2. CASE v # t
                    BY <2>4, <3>2, <5>0, <5>2
                <5> QED
                    BY <5>1, <5>2
            <4> QED
                BY <2>4, <3>2, <4>1
        <3> QED
            BY <3>1, <3>2
    <2>9. readings' = readings
        BY <2>1
    <2>10. PendingKeysFresh'
        BY <2>8, <2>9 DEF Ledger!KeysOf, Ledger!KeysDistinct
    <2> QED
        BY <2>3, <2>10
<1>3. ASSUME NEW t \in Threads, InsertConflict(t) \/ DeadlockVictim(t)
      PROVE  KeyInv'
    <2>1. RollBack(t) /\ pc[t] = "write"
        BY <1>3 DEF InsertConflict, DeadlockVictim, WaitsFor
    <2>2. /\ pc'[t] # "commitMapping"
          /\ \A u \in Threads \ {t} : pc'[u] = pc[u]
          /\ UNCHANGED <<readings, change, marked>>
        BY <2>1, <1>a DEF RollBack, db, backfill
    <2>3. inserted' = [inserted EXCEPT ![t] = {}]
        BY <2>1 DEF RollBack
    <2>4. PendingKeysFresh'
        BY <1>a, <2>2, <2>3 DEF Ledger!KeysOf, Ledger!KeysDistinct
    <2>5. MarkedAreUnresolved'
        BY <1>a, <2>1, <2>2
    <2>6. UniqueKeys'
        BY <2>2 DEF Ledger!KeysDistinct
    <2> QED
        BY <2>4, <2>5, <2>6
<1>4. ASSUME NEW t \in Threads, CommitBatch(t) PROVE KeyInv'
    <2>1. /\ readings' = readings \cup inserted[t]
          /\ inserted' = [inserted EXCEPT ![t] = {}]
          /\ pc[t] = "write" /\ pc' = [pc EXCEPT ![t] = "answer"]
          /\ UNCHANGED <<change, marked>>
        BY <1>4 DEF CommitBatch, backfill
    <2>2. UniqueKeys'
        BY <2>1 DEF Ledger!KeysOf, Ledger!KeysDistinct
    <2>3. PendingKeysFresh'
        <3>1. inserted'[t] = {}
            BY <1>a, <2>1
        <3>2. ASSUME NEW u \in Threads \ {t}
              PROVE  /\ inserted'[u] = inserted[u]
                     /\ Ledger!KeysDistinct(inserted[u])
                     /\ Ledger!KeysOf(inserted[u])
                            \cap Ledger!KeysOf(readings \cup inserted[t]) = {}
            <4>1. inserted'[u] = inserted[u]
                BY <1>a, <2>1
            <4>2. /\ Ledger!KeysDistinct(inserted[u])
                  /\ Ledger!KeysOf(inserted[u]) \cap Ledger!KeysOf(readings) = {}
                  /\ Ledger!KeysOf(inserted[u])
                         \cap Ledger!KeysOf(inserted[t]) = {}
                OBVIOUS
            <4>3. Ledger!KeysOf(readings \cup inserted[t]) =
                      Ledger!KeysOf(readings) \cup Ledger!KeysOf(inserted[t])
                BY DEF Ledger!KeysOf
            <4> QED
                BY <4>1, <4>2, <4>3
        <3>3. \A u, v \in Threads \ {t} : u # v =>
                 Ledger!KeysOf(inserted[u]) \cap Ledger!KeysOf(inserted[v]) = {}
            OBVIOUS
        <3>4. Ledger!KeysOf({}) = {} /\ Ledger!KeysDistinct({})
            BY DEF Ledger!KeysOf, Ledger!KeysDistinct
        <3>5. ASSUME NEW u \in Threads
              PROVE  /\ Ledger!KeysDistinct(inserted'[u])
                     /\ Ledger!KeysOf(inserted'[u])
                            \cap Ledger!KeysOf(readings') = {}
                     /\ \A v \in Threads \ {u} :
                           Ledger!KeysOf(inserted'[u])
                               \cap Ledger!KeysOf(inserted'[v]) = {}
            <4>1. CASE u = t
                BY <3>1, <3>4, <4>1
            <4>2. CASE u # t
                BY <2>1, <3>1, <3>2, <3>3, <3>4, <4>2
            <4> QED
                BY <4>1, <4>2
        <3> QED
            BY <3>5 DEF Ledger!KeysOf, Ledger!KeysDistinct
    <2>4. MarkedAreUnresolved'
        BY <1>a, <2>1
    <2> QED
        BY <2>2, <2>3, <2>4
<1>5. CASE DropMessage
    BY <1>5, <1>b DEF DropMessage, db, session, backfill
<1>6. CASE InsertMapping
    BY <1>6, <1>a DEF InsertMapping, db, session
<1>7. CASE Backfill
    BY <1>7, <1>a DEF Backfill, db, session
<1>8. CASE CommitMapping
    <2>1. /\ UNCHANGED inserted
          /\ "loop" \in Threads
          /\ change' = [change EXCEPT !["loop"] = NoChange]
          /\ marked' = [marked EXCEPT !["loop"] = {}]
          /\ pc' = [pc EXCEPT !["loop"] = "idle"]
        BY <1>8 DEF CommitMapping, session
    <2>2. UniqueKeys'
        BY <1>8, StampingKeepsRows DEF Ledger!KeysDistinct
    <2>3. PendingKeysFresh'
        <3>1. Ledger!KeysOf(readings') = Ledger!KeysOf(readings)
            BY <1>8, StampingKeepsRows
        <3> QED
            BY <2>1, <3>1 DEF Ledger!KeysOf, Ledger!KeysDistinct
    <2>4. MarkedAreUnresolved'
        BY <1>a, <2>1
    <2> QED
        BY <2>2, <2>3, <2>4
<1>9. CASE Crash
    BY <1>9 DEF Crash, db, Ledger!KeysOf, Ledger!KeysDistinct
<1> QED
    BY <1>0, <1>1, <1>2, <1>3, <1>4, <1>5, <1>6, <1>7, <1>8, <1>9
    DEF Next, Serve

LEMMA KeyCorrect == Spec => [](TypeInv /\ KeyInv)
<1>1. Init => TypeInv /\ KeyInv
    BY TypeInit, KeyInit
<1>2. TypeInv /\ KeyInv /\ [Next]_vars => TypeInv' /\ KeyInv'
    BY TypeNext, KeyNext
<1> QED
    BY <1>1, <1>2, PTL DEF Spec

\* A key is stored at most once, whatever the threads race on and whenever the
\* process restarts: the guard of the INSERT (the unique index, with its wait
\* for open transactions) is enough, although the SELECT before it is stale.
THEOREM KeysAreUnique == Spec => []UniqueKeys
BY KeyCorrect, PTL DEF KeyInv

-----------------------------------------------------------------------------
(* Stamps: permanent, and always from a committed mapping.                 *)

\* What a step does to the committed rows: nothing, add those of a batch, or
\* stamp those of a backfill.
LEMMA ReadingsSteps ==
    ASSUME [Next]_vars
    PROVE  \/ UNCHANGED db
           \/ \E t \in Threads : CommitBatch(t)
           \/ CommitMapping
BY DEF Next, Serve, Arrive, ArriveAlien, LookupExisting, SkipDuplicate,
       StageReading, InsertRow, InsertConflict, DeadlockVictim, RollBack,
       Answer, DropMessage, InsertMapping, Backfill, Crash, vars, db

LEMMA StampStep ==
    ASSUME TypeInv, KeyInv, [Next]_vars
    PROVE  \A r \in readings :
               \/ r \in readings'
               \/ /\ r.metric = NoMetric
                  /\ \E m \in Metrics : Ledger!Stamped(r, m) \in readings'
<1>1. CASE UNCHANGED db
    BY <1>1 DEF db
<1>2. CASE \E t \in Threads : CommitBatch(t)
    BY <1>2 DEF CommitBatch
<1>3. CASE CommitMapping
    <2>1. MarkedAreUnresolved
        BY DEF KeyInv
    <2>2. \A r \in marked["loop"] :
             /\ Ledger!Stamped(r, change["loop"].metric) \in readings'
             /\ r.metric = NoMetric
        BY <1>3, <2>1, StampingKeepsRows
        DEF MarkedAreUnresolved, Unresolved, CommitMapping
    <2>3. change["loop"].metric \in Metrics
        BY <1>3 DEF CommitMapping, TypeInv, Busy, Ledger!Mappings
    <2>4. readings \ marked["loop"] \subseteq readings'
        BY <1>3 DEF CommitMapping
    <2> QED
        BY <2>2, <2>3, <2>4
<1> QED
    BY <1>1, <1>2, <1>3, ReadingsSteps

\* ADR 0005's promise holds for every interleaving: no reading disappears and
\* no metric is rewritten.
THEOREM StampsArePermanent == Spec => StampPermanent
<1>1. TypeInv /\ KeyInv /\ [Next]_vars
          => [\A r \in readings :
                 \/ r \in readings'
                 \/ /\ r.metric = NoMetric
                    /\ \E m \in Metrics : Ledger!Stamped(r, m) \in readings']_vars
    BY StampStep
<1> QED
    BY <1>1, KeyCorrect, PTL DEF Spec, StampPermanent

\* Rows on their way to the store are sourced like those in it.
SourceInv ==
    /\ \A r \in readings : Ledger!Sourced(r)
    /\ \A t \in Threads :
          \A r \in inserted[t] \cup Elements(staged[t]) : Ledger!Sourced(r)

\* Mappings are only ever added.
LEMMA MappingsGrow ==
    ASSUME TypeInv, [Next]_vars, NEW p
    PROVE  Ledger!MappedMetrics(p) \subseteq Ledger!MappedMetrics(p)'
<1>1. CASE UNCHANGED mappings
    BY <1>1 DEF Ledger!MappedMetrics
<1>2. CASE CommitMapping
    <2>1. /\ mappings' = Append(mappings, change["loop"])
          /\ mappings \in Seq(Ledger!Mappings)
        BY <1>2 DEF CommitMapping, TypeInv, TypeOK
    <2>2. /\ Len(mappings) \in Nat
          /\ Len(mappings') = Len(mappings) + 1
          /\ \A i \in 1..Len(mappings) : mappings'[i] = mappings[i]
        BY <2>1
    <2>3. \A i \in 1..Len(mappings) : i \in 1..Len(mappings')
        BY <2>2
    <2> QED
        BY <2>2, <2>3 DEF Ledger!MappedMetrics
<1> QED
    BY <1>1, <1>2, ReadingsSteps DEF db, CommitBatch

LEMMA SourcedForGood ==
    ASSUME TypeInv, [Next]_vars, NEW r, Ledger!Sourced(r)
    PROVE  Ledger!Sourced(r)'
<1>1. Ledger!MappedMetrics(r.point) \subseteq Ledger!MappedMetrics(r.point)'
    BY MappingsGrow
<1> QED
    BY <1>1 DEF Ledger!Sourced

\* The rows of an open transaction only come from _resolve_metric.
LEMMA PendingRows ==
    ASSUME TypeInv, [Next]_vars, NEW t \in Threads,
           NEW r \in inserted'[t] \cup Elements(staged'[t])
    PROVE  \/ r \in inserted[t] \cup Elements(staged[t])
           \/ /\ StageReading(t)
              /\ \E m \in Resolutions(Head(todo[t]).point) :
                    r = RowOf(Head(todo[t]), m, call[t])
<1>a. /\ inserted \in [Threads -> SUBSET Ledger!Rows]
      /\ staged \in [Threads -> Seq(Ledger!Rows)]
    BY DEF TypeInv, TypeOK
<1>0. CASE UNCHANGED <<inserted, staged>>
    BY <1>0
<1>1. ASSUME NEW u \in Threads, StageReading(u)
      PROVE  \/ r \in inserted[t] \cup Elements(staged[t])
             \/ /\ StageReading(t)
                /\ \E m \in Resolutions(Head(todo[t]).point) :
                      r = RowOf(Head(todo[t]), m, call[t])
    <2>1. PICK m \in Resolutions(Head(todo[u]).point) :
             staged' = [staged EXCEPT ![u] =
                 Append(@, RowOf(Head(todo[u]), m, call[u]))]
        BY <1>1 DEF StageReading
    <2>2. inserted' = inserted
        BY <1>1 DEF StageReading
    <2>3. CASE u = t
        <3>1. staged'[t] = Append(staged[t], RowOf(Head(todo[t]), m, call[t]))
            BY <1>a, <2>1, <2>3
        <3>2. Elements(staged'[t]) =
                 Elements(staged[t]) \cup {RowOf(Head(todo[t]), m, call[t])}
            BY <1>a, <3>1, AppendElements
        <3> QED
            BY <1>1, <2>2, <2>3, <3>2
    <2>4. CASE u # t
        BY <1>a, <2>1, <2>2, <2>4
    <2> QED
        BY <2>3, <2>4
<1>2. ASSUME NEW u \in Threads, InsertRow(u)
      PROVE  r \in inserted[t] \cup Elements(staged[t])
    <2>1. /\ inserted' = [inserted EXCEPT ![u] = @ \cup {Head(staged[u])}]
          /\ staged' = [staged EXCEPT ![u] = Tail(@)]
          /\ staged[u] # <<>>
        BY <1>2 DEF InsertRow
    <2>2. CASE u = t
        <3>1. /\ inserted'[t] = inserted[t] \cup {Head(staged[t])}
              /\ staged'[t] = Tail(staged[t])
            BY <1>a, <2>1, <2>2
        <3>2. Elements(staged[t]) =
                 {Head(staged[t])} \cup Elements(Tail(staged[t]))
            BY <1>a, <2>1, <2>2, HeadTailElements
        <3> QED
            BY <3>1, <3>2
    <2>3. CASE u # t
        BY <1>a, <2>1, <2>3
    <2> QED
        BY <2>2, <2>3
<1>3. ASSUME NEW u \in Threads,
             InsertConflict(u) \/ DeadlockVictim(u) \/ CommitBatch(u)
      PROVE  r \in inserted[t] \cup Elements(staged[t])
    <2>1. /\ inserted' = [inserted EXCEPT ![u] = {}]
          /\ staged' = [staged EXCEPT ![u] = <<>>] \/ staged' = staged
        BY <1>3 DEF InsertConflict, DeadlockVictim, RollBack, CommitBatch
    <2>2. CASE u = t
        BY <1>a, <2>1, <2>2, EmptyElements
    <2>3. CASE u # t
        BY <1>a, <2>1, <2>3
    <2> QED
        BY <2>2, <2>3
<1>4. CASE Crash
    BY <1>4, EmptyElements DEF Crash
<1>5. \/ UNCHANGED <<inserted, staged>>
      \/ Crash
      \/ \E u \in Threads : \/ StageReading(u) \/ InsertRow(u)
                            \/ InsertConflict(u) \/ DeadlockVictim(u)
                            \/ CommitBatch(u)
    BY DEF Next, Serve, Arrive, ArriveAlien, LookupExisting, SkipDuplicate,
           Answer, DropMessage, InsertMapping, Backfill, CommitMapping,
           vars, session
<1> QED
    BY <1>0, <1>1, <1>2, <1>3, <1>4, <1>5

LEMMA SourceInit == Init => SourceInv
BY EmptyElements DEF Init, SourceInv

LEMMA SourceNext == TypeInv /\ KeyInv /\ SourceInv /\ [Next]_vars => SourceInv'
<1> SUFFICES ASSUME TypeInv, KeyInv, SourceInv, [Next]_vars
             PROVE  SourceInv'
    OBVIOUS
<1>1. ASSUME NEW r \in readings' PROVE Ledger!Sourced(r)'
    <2>1. CASE UNCHANGED db
        BY <1>1, <2>1, SourcedForGood DEF SourceInv, db
    <2>2. ASSUME NEW t \in Threads, CommitBatch(t) PROVE Ledger!Sourced(r)'
        BY <1>1, <2>2, SourcedForGood DEF SourceInv, CommitBatch
    <2>3. CASE CommitMapping
        <3>1. /\ MarkedAreUnresolved
              /\ change["loop"] \in Ledger!Mappings
              /\ mappings \in Seq(Ledger!Mappings)
              /\ mappings' = Append(mappings, change["loop"])
            BY <2>3 DEF KeyInv, CommitMapping, TypeInv, TypeOK, Busy
        <3>2. CASE r \in readings
            BY <3>2, SourcedForGood DEF SourceInv
        <3>3. CASE r \notin readings
            <4>1. PICK s \in marked["loop"] :
                     r = Ledger!Stamped(s, change["loop"].metric)
                BY <1>1, <2>3, <3>1, <3>3, StampingKeepsRows
            <4>2. r.point = s.point /\ r.metric = change["loop"].metric
                BY <2>3, <3>1, <4>1, StampingKeepsRows
            <4>3. s.point = change["loop"].point
                BY <2>3, <3>1, <4>1
                DEF MarkedAreUnresolved, Unresolved, CommitMapping
            <4>4. /\ Len(mappings') \in 1..Len(mappings')
                  /\ mappings'[Len(mappings')] = change["loop"]
                BY <3>1
            <4> QED
                BY <4>2, <4>3, <4>4 DEF Ledger!Sourced, Ledger!MappedMetrics
        <3> QED
            BY <3>2, <3>3
    <2> QED
        BY <2>1, <2>2, <2>3, ReadingsSteps
<1>2. ASSUME NEW t \in Threads, NEW r \in inserted'[t] \cup Elements(staged'[t])
      PROVE  Ledger!Sourced(r)'
    <2>1. CASE r \in inserted[t] \cup Elements(staged[t])
        BY <2>1, SourcedForGood DEF SourceInv
    <2>2. ASSUME NEW m \in Resolutions(Head(todo[t]).point),
                 r = RowOf(Head(todo[t]), m, call[t])
          PROVE  Ledger!Sourced(r)'
        <3>1. r.point = Head(todo[t]).point /\ r.metric = m
            BY <2>2 DEF RowOf
        <3>2. Ledger!Sourced(r)
            BY <2>2, <3>1 DEF Ledger!Sourced, Resolutions
        <3> QED
            BY <3>2, SourcedForGood
    <2> QED
        BY <2>1, <2>2, <1>2, PendingRows
<1> QED
    BY <1>1, <1>2 DEF SourceInv

LEMMA SourceCorrect == Spec => [](TypeInv /\ KeyInv /\ SourceInv)
<1>1. Init => SourceInv
    BY SourceInit
<1>2. TypeInv /\ KeyInv /\ SourceInv /\ [Next]_vars => SourceInv'
    BY SourceNext
<1> QED
    BY <1>1, <1>2, KeyCorrect, PTL DEF Spec

\* Every metric in the store was mapped to the reading's own point, whether
\* _resolve_metric or a backfill stamped it.
THEOREM StampsAreSourced == Spec => []StampsFromMappings
<1>1. SourceInv => StampsFromMappings
    BY DEF SourceInv, StampsFromMappings
<1> QED
    BY <1>1, SourceCorrect, PTL

-----------------------------------------------------------------------------
(* The event loop alone: mapped and unmapped points stay apart.            *)

\* A row without a metric, stored or on its way, is of a point that has no
\* mapping; while a mapping is created no row is on its way, and the backfill
\* has found every stored one.
ListInv ==
    /\ \A r \in readings \cup inserted["loop"] \cup Elements(staged["loop"]) :
          r.metric = NoMetric => Ledger!MappedMetrics(r.point) = {}
    /\ pc["loop"] # "write" =>
          inserted["loop"] = {} /\ staged["loop"] = <<>>
    /\ pc["loop"] = "commitMapping" =>
          marked["loop"] = Unresolved(change["loop"].point)

LEMMA ListInit == ASSUME Threads = {"loop"} PROVE Init => ListInv
BY EmptyElements DEF Init, ListInv

LEMMA OtherPointsKeepMappings ==
    ASSUME TypeInv, CommitMapping, NEW p, p # change["loop"].point
    PROVE  Ledger!MappedMetrics(p)' = Ledger!MappedMetrics(p)
<1>1. /\ mappings' = Append(mappings, change["loop"])
      /\ mappings \in Seq(Ledger!Mappings)
    BY DEF CommitMapping, TypeInv, TypeOK
<1>2. /\ Len(mappings) \in Nat
      /\ Len(mappings') = Len(mappings) + 1
      /\ \A i \in 1..Len(mappings) : mappings'[i] = mappings[i]
      /\ mappings'[Len(mappings) + 1] = change["loop"]
    BY <1>1
<1>3. /\ \A i \in 1..Len(mappings) : i \in 1..Len(mappings')
      /\ \A i \in 1..Len(mappings') :
            i \in 1..Len(mappings) \/ i = Len(mappings) + 1
    BY <1>2
<1> QED
    BY <1>2, <1>3 DEF Ledger!MappedMetrics

LEMMA ListNext ==
    ASSUME Threads = {"loop"}
    PROVE  TypeInv /\ KeyInv /\ ListInv /\ [Next]_vars => ListInv'
<1> SUFFICES ASSUME TypeInv, KeyInv, ListInv, [Next]_vars PROVE ListInv'
    OBVIOUS
<1>a. /\ "loop" \in Threads
      /\ pc \in [Threads -> {"idle", "lookup", "write", "answer",
                             "backfill", "commitMapping", "dead"}]
      /\ inserted \in [Threads -> SUBSET Ledger!Rows]
      /\ staged \in [Threads -> Seq(Ledger!Rows)]
      /\ marked \in [Threads -> SUBSET Ledger!Rows]
    BY DEF TypeInv, TypeOK
<1>1. CASE CommitMapping
    <2>1. /\ pc["loop"] = "commitMapping" /\ pc'["loop"] = "idle"
          /\ inserted' = inserted /\ staged' = staged
          /\ inserted["loop"] = {} /\ staged["loop"] = <<>>
          /\ marked["loop"] = Unresolved(change["loop"].point)
        BY <1>1, <1>a DEF CommitMapping, session, ListInv
    <2>2. ASSUME NEW r \in readings', r.metric = NoMetric
          PROVE  Ledger!MappedMetrics(r.point)' = {}
        <3>1. /\ MarkedAreUnresolved
              /\ change["loop"].metric # NoMetric
            BY <1>1, NamesAssumption
            DEF KeyInv, CommitMapping, TypeInv, Busy, Ledger!Mappings
        <3>2. r \in readings \ marked["loop"]
            BY <1>1, <2>2, <3>1, StampingKeepsRows DEF CommitMapping
        <3>3. r.point # change["loop"].point
            BY <2>1, <2>2, <3>2 DEF Unresolved
        <3>4. Ledger!MappedMetrics(r.point) = {}
            BY <2>2, <3>2 DEF ListInv
        <3> QED
            BY <1>1, <3>3, <3>4, OtherPointsKeepMappings
    <2> QED
        BY <2>1, <2>2, EmptyElements DEF ListInv
<1>2. CASE ~CommitMapping
    <2>1. UNCHANGED mappings
        BY <1>2, ReadingsSteps DEF db, CommitBatch
    <2>2. readings' \subseteq readings \cup inserted["loop"]
        BY <1>2, ReadingsSteps DEF db, CommitBatch
    <2>3. \A r : Ledger!MappedMetrics(r.point)' = Ledger!MappedMetrics(r.point)
        BY <2>1 DEF Ledger!MappedMetrics
    <2>4. ASSUME NEW r \in readings' \cup inserted'["loop"]
                               \cup Elements(staged'["loop"]),
                 r.metric = NoMetric
          PROVE  Ledger!MappedMetrics(r.point) = {}
        <3>1. CASE r \in readings \cup inserted["loop"]
                              \cup Elements(staged["loop"])
            BY <3>1, <2>4 DEF ListInv
        <3>2. ASSUME NEW m \in Resolutions(Head(todo["loop"]).point),
                     r = RowOf(Head(todo["loop"]), m, call["loop"])
              PROVE  Ledger!MappedMetrics(r.point) = {}
            <4>1. r.point = Head(todo["loop"]).point /\ m = NoMetric
                BY <2>4, <3>2 DEF RowOf
            <4>2. NoMetric \notin Ledger!MappedMetrics(r.point)
                <5>1. \A i \in 1..Len(mappings) :
                         mappings[i] \in Ledger!Mappings
                    BY ElementOfSeq DEF TypeInv, TypeOK
                <5> QED
                    BY <5>1, NamesAssumption
                    DEF Ledger!Mappings, Ledger!MappedMetrics
            <4> QED
                BY <3>2, <4>1, <4>2 DEF Resolutions
        <3> QED
            BY <1>a, <2>2, <2>4, <3>1, <3>2, PendingRows
    <2>5. /\ pc'["loop"] # "write" =>
                inserted'["loop"] = {} /\ staged'["loop"] = <<>>
          /\ pc'["loop"] = "commitMapping" =>
                marked'["loop"] = Unresolved(change["loop"].point)'
        <3> USE <1>a DEF ListInv
        <3>1. CASE UNCHANGED vars
            BY <3>1 DEF vars, db, session, backfill, Unresolved
        <3>2. ASSUME Arrive("loop") \/ ArriveAlien("loop")
                     \/ LookupExisting("loop") \/ SkipDuplicate("loop")
                     \/ StageReading("loop") \/ Answer("loop")
                     \/ DropMessage \/ InsertMapping
              PROVE  /\ pc'["loop"] # "write" =>
                           /\ pc["loop"] # "write"
                           /\ inserted' = inserted /\ staged' = staged
                     /\ pc'["loop"] # "commitMapping"
            BY <3>2 DEF Arrive, ArriveAlien, MayArrive, LookupExisting,
                        SkipDuplicate, StageReading, Answer, DropMessage,
                        InsertMapping, session
        <3>3. ASSUME InsertRow("loop") \/ InsertConflict("loop")
                     \/ DeadlockVictim("loop") \/ CommitBatch("loop") \/ Crash
              PROVE  /\ pc'["loop"] # "write" =>
                           inserted'["loop"] = {} /\ staged'["loop"] = <<>>
                     /\ pc'["loop"] # "commitMapping"
            BY <3>3 DEF InsertRow, InsertConflict, DeadlockVictim, WaitsFor,
                        RollBack, CommitBatch, Crash
        <3>4. CASE Backfill
            BY <3>4 DEF Backfill, db, session, Unresolved
        <3> QED
            BY <1>2, <3>1, <3>2, <3>3, <3>4 DEF Next, Serve
    <2> QED
        BY <2>3, <2>4, <2>5 DEF ListInv
<1> QED
    BY <1>1, <1>2

\* Without the MQTT thread the two lists of points are the complements their
\* documentation promises; with it they are not (section 5 of the README).
THEOREM ListsAreComplementsOverHttp ==
    ASSUME Threads = {"loop"} PROVE Spec => []ListsAreComplements
<1>1. Init => ListInv
    BY ListInit
<1>2. TypeInv /\ KeyInv /\ ListInv /\ [Next]_vars => ListInv'
    BY ListNext
<1>3. ListInv => ListsAreComplements
    BY DEF ListInv, ListsAreComplements, UnmappedPoints, MappedPoints,
           Unresolved
<1> QED
    BY <1>1, <1>2, <1>3, KeyCorrect, PTL DEF Spec

-----------------------------------------------------------------------------
(* Refinement: each step is a step of the ledger or leaves it alone.       *)

LEMMA LedgerStep ==
    ASSUME TypeInv, KeyInv, SourceInv, [Next]_vars
    PROVE  [Ledger!Next]_(Ledger!ledger)
<1>1. CASE UNCHANGED db
    BY <1>1 DEF db, Ledger!ledger
<1>2. ASSUME NEW t \in Threads, CommitBatch(t) PROVE Ledger!Accept
    <2> DEFINE new == readings' \ readings
    <2>1. /\ readings' = readings \cup inserted[t]
          /\ UNCHANGED mappings
        BY <1>2 DEF CommitBatch
    <2>2. new \subseteq inserted[t]
        BY <2>1
    <2>3. inserted[t] \subseteq Ledger!Rows
        BY DEF TypeInv, TypeOK
    <2>4. /\ Ledger!KeysDistinct(inserted[t])
          /\ Ledger!KeysOf(inserted[t]) \cap Ledger!KeysOf(readings) = {}
        BY DEF KeyInv, PendingKeysFresh
    <2>5. /\ Ledger!KeysDistinct(new)
          /\ Ledger!KeysOf(new) \cap Ledger!KeysOf(readings) = {}
        BY <2>2, <2>4 DEF Ledger!KeysDistinct, Ledger!KeysOf
    <2>6. \A r \in new : Ledger!Sourced(r)
        BY <2>2 DEF SourceInv
    <2> QED
        BY <2>1, <2>2, <2>3, <2>5, <2>6 DEF Ledger!Accept
<1>3. ASSUME CommitMapping PROVE \E new \in Ledger!Mappings : Ledger!Map(new)
    <2>1. /\ MarkedAreUnresolved
          /\ change["loop"] \in Ledger!Mappings
          /\ mappings' = Append(mappings, change["loop"])
          /\ readings' = (readings \ marked["loop"])
                \cup {Ledger!Stamped(r, change["loop"].metric) :
                         r \in marked["loop"]}
        BY <1>3 DEF KeyInv, CommitMapping, TypeInv, Busy
    <2>2. \A r \in marked["loop"] :
             r \in readings /\ r.point = change["loop"].point
                            /\ r.metric = NoMetric
        BY <1>3, <2>1 DEF MarkedAreUnresolved, Unresolved, CommitMapping
    <2>3. \A r \in marked["loop"] :
             Ledger!Stamped(r, change["loop"].metric).metric # NoMetric
        <3>1. change["loop"].metric # NoMetric
            BY <2>1, NamesAssumption DEF Ledger!Mappings
        <3> QED
            BY <1>3, <2>1, <3>1, StampingKeepsRows
    <2>4. readings \ readings' = marked["loop"]
        BY <2>1, <2>2, <2>3
    <2>5. Ledger!Map(change["loop"])
        BY <2>1, <2>2, <2>4 DEF Ledger!Map
    <2> QED
        BY <2>1, <2>5
<1> QED
    BY <1>1, <1>2, <1>3, ReadingsSteps DEF Ledger!Next

\* The handlers, with their interleavings, roll-backs and restarts, implement
\* the atomic ledger.
THEOREM LedgerImplemented == Spec => ImplementsLedger
<1>1. Init => Ledger!Init
    BY DEF Init, Ledger!Init
<1>2. TypeInv /\ KeyInv /\ SourceInv /\ [Next]_vars
          => [Ledger!Next]_(Ledger!ledger)
    BY LedgerStep
<1> QED
    BY <1>1, <1>2, SourceCorrect, PTL
    DEF Spec, ImplementsLedger, Ledger!Spec

-----------------------------------------------------------------------------
(* What was answered is stored.                                            *)

\* A key derived from content belongs to a row with that content.
Faithful(r) == r.key \in ContentKeys => r.key = <<r.point, r.content>>

FaithfulInv ==
    /\ \A r \in readings : Faithful(r)
    /\ \A t \in Threads :
          \A r \in inserted[t] \cup Elements(staged[t]) : Faithful(r)

KeysOfItems(items) == {EffectiveKey(i) : i \in Elements(items)}

\* The keys a thread has found or is about to write.
KeysHeld(t) ==
    existing[t] \cup Ledger!KeysOf(inserted[t] \cup Elements(staged[t]))

\* Where the keys of a call are while it is served: still in the list, or
\* found in the store, or on their way to it.
Progress(t) ==
    LET items == calls[call[t]].items IN
    /\ pc[t] = "lookup" => todo[t] = items
    /\ pc[t] = "write" =>
          /\ existing[t] \subseteq Ledger!KeysOf(readings)
          /\ KeysOfItems(items) \subseteq KeysOfItems(todo[t]) \cup KeysHeld(t)
    /\ pc[t] = "answer" => KeysOfItems(items) \subseteq Ledger!KeysOf(readings)

ProgressInv ==
    /\ \A t \in Threads : Progress(t)
    /\ \A c \in CallsEnding({"returned"}) :
          KeysOfItems(calls[c].items) \subseteq Ledger!KeysOf(readings)

StoreInv == FaithfulInv /\ ProgressInv

LEMMA RowFaithful ==
    ASSUME NEW item \in Items, NEW m, NEW c
    PROVE  Faithful(RowOf(item, m, c))
BY NamesAssumption DEF Items, RowOf, Faithful, EffectiveKey, ContentKeys

LEMMA KeyMeansStored ==
    ASSUME FaithfulInv, NEW item \in Items,
           EffectiveKey(item) \in Ledger!KeysOf(readings)
    PROVE  Stored(item)
<1>1. PICK r \in readings : r.key = EffectiveKey(item)
    BY DEF Ledger!KeysOf
<1>2. ASSUME item.ikey = NoKey
      PROVE  r.point = item.point /\ r.content = item.content
    <2>1. r.key = <<item.point, item.content>> /\ r.key \in ContentKeys
        BY <1>1, <1>2 DEF EffectiveKey, ContentKeys, Items
    <2>2. r.key = <<r.point, r.content>>
        BY <2>1 DEF FaithfulInv, Faithful
    <2> QED
        BY <2>1, <2>2
<1> QED
    BY <1>1, <1>2 DEF Stored

LEMMA KeysOnlyGrow ==
    ASSUME TypeInv, KeyInv, [Next]_vars
    PROVE  Ledger!KeysOf(readings) \subseteq Ledger!KeysOf(readings')
<1>1. CASE UNCHANGED db
    BY <1>1 DEF db
<1>2. CASE \E t \in Threads : CommitBatch(t)
    BY <1>2 DEF CommitBatch, Ledger!KeysOf
<1>3. CASE CommitMapping
    BY <1>3, StampingKeepsRows DEF KeyInv
<1> QED
    BY <1>1, <1>2, <1>3, ReadingsSteps

LEMMA FaithfulNext ==
    TypeInv /\ KeyInv /\ FaithfulInv /\ [Next]_vars => FaithfulInv'
<1> SUFFICES ASSUME TypeInv, KeyInv, FaithfulInv, [Next]_vars
             PROVE  FaithfulInv'
    OBVIOUS
<1>1. ASSUME NEW r \in readings' PROVE Faithful(r)
    <2>1. CASE UNCHANGED db
        BY <1>1, <2>1 DEF FaithfulInv, db
    <2>2. CASE \E t \in Threads : CommitBatch(t)
        BY <1>1, <2>2 DEF FaithfulInv, CommitBatch
    <2>3. CASE CommitMapping
        <3>1. CASE r \in readings
            BY <3>1 DEF FaithfulInv
        <3>2. CASE r \notin readings
            <4>1. PICK s \in marked["loop"] :
                     r = Ledger!Stamped(s, change["loop"].metric)
                BY <1>1, <2>3, <3>2, StampingKeepsRows DEF KeyInv
            <4>2. /\ s \in readings
                  /\ r.key = s.key /\ r.point = s.point /\ r.content = s.content
                BY <2>3, <4>1, StampingKeepsRows DEF KeyInv
            <4> QED
                BY <4>2 DEF FaithfulInv, Faithful
        <3> QED
            BY <3>1, <3>2
    <2> QED
        BY <2>1, <2>2, <2>3, ReadingsSteps
<1>2. ASSUME NEW t \in Threads, NEW r \in inserted'[t] \cup Elements(staged'[t])
      PROVE  Faithful(r)
    <2>1. CASE r \in inserted[t] \cup Elements(staged[t])
        BY <2>1 DEF FaithfulInv
    <2>2. ASSUME StageReading(t), NEW m,
                 r = RowOf(Head(todo[t]), m, call[t])
          PROVE  Faithful(r)
        <3>1. Head(todo[t]) \in Items
            BY <2>2, HeadTailElements DEF StageReading, TypeInv, TypeOK
        <3> QED
            BY <2>2, <3>1, RowFaithful
    <2> QED
        BY <1>2, <2>1, <2>2, PendingRows
<1> QED
    BY <1>1, <1>2 DEF FaithfulInv, Faithful

LEMMA StoreInit == Init => StoreInv
<1> SUFFICES ASSUME Init PROVE StoreInv
    OBVIOUS
<1>1. FaithfulInv
    BY EmptyElements DEF Init, FaithfulInv
<1>2. ProgressInv
    BY DEF Init, ProgressInv, Progress, CallsEnding
<1> QED
    BY <1>1, <1>2 DEF StoreInv

\* The history only grows, and a call keeps its items.  A call ends as
\* returned when its thread answers, or at once if a message is dropped.
LEMMA HistorySteps ==
    ASSUME TypeInv, [Next]_vars
    PROVE  /\ \A c \in 1..Len(calls) :
                 c \in 1..Len(calls') /\ calls'[c].items = calls[c].items
           /\ \A c \in CallsEnding({"returned"})' :
                 \/ c \in CallsEnding({"returned"})
                 \/ calls'[c].items = <<>>
                 \/ \E t \in Threads : Answer(t) /\ c = call[t]
<1>a. calls \in Seq(CallRecords) /\ Len(calls) \in Nat
    BY DEF TypeInv, TypeOK
<1>b. \A c \in 1..Len(calls) : calls[c] \in CallRecords
    BY <1>a, ElementOfSeq
<1> DEFINE Goal ==
      /\ \A c \in 1..Len(calls) :
            c \in 1..Len(calls') /\ calls'[c].items = calls[c].items
      /\ \A c \in CallsEnding({"returned"})' :
            \/ c \in CallsEnding({"returned"})
            \/ calls'[c].items = <<>>
            \/ \E t \in Threads : Answer(t) /\ c = call[t]
<1>0. CASE UNCHANGED calls
    BY <1>0 DEF CallsEnding
<1>1. ASSUME NEW new \in CallRecords, calls' = Append(calls, new),
             new.outcome = "returned" => new.items = <<>>
      PROVE  Goal
    <2>1. /\ Len(calls') = Len(calls) + 1
          /\ \A c \in 1..Len(calls) : calls'[c] = calls[c]
          /\ calls'[Len(calls) + 1] = new
          /\ DOMAIN calls' = 1..Len(calls) + 1
          /\ DOMAIN calls = 1..Len(calls)
        BY <1>1, <1>a
    <2> QED
        BY <1>1, <1>a, <2>1 DEF CallsEnding
<1>2. ASSUME NEW t \in Threads, call[t] \in 1..Len(calls), NEW new,
             calls' = [calls EXCEPT ![call[t]] = new],
             new.items = calls[call[t]].items,
             \/ new.outcome = calls[call[t]].outcome
             \/ new.outcome = "raised"
             \/ Answer(t)
      PROVE  Goal
    <2>1. /\ DOMAIN calls' = DOMAIN calls /\ DOMAIN calls = 1..Len(calls)
          /\ Len(calls') = Len(calls)
          /\ calls'[call[t]] = new
          /\ \A c \in 1..Len(calls) : c # call[t] => calls'[c] = calls[c]
        BY <1>2, <1>a
    <2> QED
        BY <1>2, <1>a, <2>1 DEF CallsEnding
<1>3. ASSUME NEW t \in Threads, Arrive(t) \/ ArriveAlien(t) PROVE Goal
    <2>1. PICK raw \in Submissions, ch \in ChannelsOf(t), o \in {"running", "raised"} :
             calls' = Append(calls, NewCall(ch, raw.items, o))
        BY <1>3 DEF Arrive, ArriveAlien
    <2>2. /\ NewCall(ch, raw.items, o) \in CallRecords
          /\ NewCall(ch, raw.items, o).outcome # "returned"
        BY PayloadType, NewCallType DEF NewCall, ChannelsOf, Channels, Outcomes
    <2> QED
        BY <1>1, <2>1, <2>2
<1>4. CASE DropMessage
    <2>1. /\ NewCall("mqtt", <<>>, "returned") \in CallRecords
          /\ NewCall("mqtt", <<>>, "returned").items = <<>>
        BY EmptySeq, NewCallType DEF NewCall, Channels, Outcomes
    <2> QED
        BY <1>1, <1>4, <2>1 DEF DropMessage
<1>5. ASSUME NEW t \in Threads,
             \/ SkipDuplicate(t) \/ StageReading(t) \/ InsertConflict(t)
             \/ DeadlockVictim(t) \/ Answer(t)
      PROVE  Goal
    <2>1. call[t] \in 1..Len(calls)
        BY <1>5 DEF TypeInv, Busy, SkipDuplicate, StageReading, InsertConflict,
                    DeadlockVictim, WaitsFor, Answer
    <2>2. calls[call[t]] \in CallRecords
        BY <2>1, <1>b
    <2>3. CASE SkipDuplicate(t)
        <3>1. calls' = [calls EXCEPT ![call[t]] =
                           [calls[call[t]] EXCEPT !.duplicate = @ + 1]]
            BY <2>3 DEF SkipDuplicate
        <3>2. LET new == [calls[call[t]] EXCEPT !.duplicate = @ + 1]
              IN  /\ new.items = calls[call[t]].items
                  /\ new.outcome = calls[call[t]].outcome
            BY <2>2 DEF CallRecords
        <3> QED
            BY <1>2, <2>1, <3>1, <3>2
    <2>4. CASE StageReading(t)
        <3>1. PICK m \in Resolutions(Head(todo[t]).point) :
                 calls' = [calls EXCEPT
                    ![call[t]].accepted = @ + 1,
                    ![call[t]].unmapped = IF m = NoMetric THEN @ + 1 ELSE @]
            BY <2>4 DEF StageReading
        <3> DEFINE new == [calls[call[t]] EXCEPT !.accepted = @ + 1,
                              !.unmapped = IF m = NoMetric THEN @ + 1 ELSE @]
        <3>2. calls' = [calls EXCEPT ![call[t]] = new]
            BY <2>1, <2>2, <3>1 DEF CallRecords
        <3>3. /\ new.items = calls[call[t]].items
              /\ new.outcome = calls[call[t]].outcome
            BY <2>2 DEF CallRecords
        <3> QED
            BY <1>2, <2>1, <3>2, <3>3
    <2>5. CASE InsertConflict(t) \/ DeadlockVictim(t)
        <3>1. calls' = [calls EXCEPT ![call[t]] =
                           [calls[call[t]] EXCEPT !.outcome = "raised"]]
            BY <2>5 DEF InsertConflict, DeadlockVictim, RollBack
        <3>2. LET new == [calls[call[t]] EXCEPT !.outcome = "raised"]
              IN  new.items = calls[call[t]].items /\ new.outcome = "raised"
            BY <2>2 DEF CallRecords
        <3> QED
            BY <1>2, <2>1, <3>1, <3>2
    <2>6. CASE Answer(t)
        <3>1. calls' = [calls EXCEPT ![call[t]] =
                           [calls[call[t]] EXCEPT !.outcome = "returned"]]
            BY <2>6 DEF Answer
        <3>2. LET new == [calls[call[t]] EXCEPT !.outcome = "returned"]
              IN  new.items = calls[call[t]].items
            BY <2>2 DEF CallRecords
        <3> QED
            BY <1>2, <2>1, <2>6, <3>1, <3>2
    <2> QED
        BY <1>5, <2>3, <2>4, <2>5, <2>6
<1>6. CASE Crash
    <2>1. /\ DOMAIN calls' = DOMAIN calls /\ DOMAIN calls = 1..Len(calls)
          /\ Len(calls') = Len(calls)
        BY <1>6, <1>a DEF Crash
    <2>2. ASSUME NEW c \in 1..Len(calls)
          PROVE  /\ calls'[c].items = calls[c].items
                 /\ calls'[c].outcome = "returned" => calls[c].outcome = "returned"
        <3>1. calls'[c] = IF calls[c].outcome = "running"
                          THEN [calls[c] EXCEPT !.outcome = "lost"] ELSE calls[c]
            BY <1>6, <2>1 DEF Crash
        <3>2. calls[c] \in CallRecords
            BY <1>b
        <3> QED
            BY <3>1, <3>2 DEF CallRecords
    <2> QED
        BY <2>1, <2>2 DEF CallsEnding
<1>7. \/ UNCHANGED calls \/ DropMessage \/ Crash
      \/ \E t \in Threads : \/ Arrive(t) \/ ArriveAlien(t) \/ SkipDuplicate(t)
                            \/ StageReading(t) \/ InsertConflict(t)
                            \/ DeadlockVictim(t) \/ Answer(t)
    BY DEF Next, Serve, LookupExisting, InsertRow, CommitBatch, InsertMapping,
           Backfill, CommitMapping, vars
<1> QED
    BY <1>0, <1>3, <1>4, <1>5, <1>6, <1>7

LEMMA TailKeys ==
    ASSUME NEW items \in Seq(Items), items # <<>>
    PROVE  KeysOfItems(items) =
               {EffectiveKey(Head(items))} \cup KeysOfItems(Tail(items))
<1>1. Elements(items) = {Head(items)} \cup Elements(Tail(items))
    BY HeadTailElements
<1> QED
    BY <1>1 DEF KeysOfItems

LEMMA NoKeys == KeysOfItems(<<>>) = {}
BY EmptyElements DEF KeysOfItems

LEMMA ProgressNext ==
    TypeInv /\ KeyInv /\ ProgressInv /\ [Next]_vars => ProgressInv'
<1> SUFFICES ASSUME TypeInv, KeyInv, ProgressInv, [Next]_vars
             PROVE  ProgressInv'
    OBVIOUS
<1>a. /\ calls \in Seq(CallRecords) /\ DOMAIN calls = 1..Len(calls)
      /\ pc \in [Threads -> {"idle", "lookup", "write", "answer",
                             "backfill", "commitMapping", "dead"}]
      /\ call \in [Threads -> Nat]
      /\ todo \in [Threads -> Seq(Items)]
      /\ existing \in [Threads -> SUBSET Ledger!Keys]
      /\ staged \in [Threads -> Seq(Ledger!Rows)]
      /\ inserted \in [Threads -> SUBSET Ledger!Rows]
    BY DEF TypeInv, TypeOK
<1>b. \A u \in Threads :
         pc[u] \in {"lookup", "write", "answer"} =>
             /\ call[u] \in 1..Len(calls)
             /\ calls'[call[u]].items = calls[call[u]].items
    BY HistorySteps DEF TypeInv, Busy
<1>c. Ledger!KeysOf(readings) \subseteq Ledger!KeysOf(readings')
    BY KeysOnlyGrow
<1>1. ASSUME NEW c \in CallsEnding({"returned"})'
      PROVE  KeysOfItems(calls'[c].items) \subseteq Ledger!KeysOf(readings')
    <2>1. CASE c \in CallsEnding({"returned"})
        <3>1. c \in 1..Len(calls)
            BY <1>a, <2>1 DEF CallsEnding
        <3>2. calls'[c].items = calls[c].items
            BY <3>1, HistorySteps
        <3> QED
            BY <1>c, <2>1, <3>2 DEF ProgressInv
    <2>2. CASE calls'[c].items = <<>>
        BY <2>2, NoKeys
    <2>3. ASSUME NEW t \in Threads, Answer(t), c = call[t]
          PROVE  KeysOfItems(calls'[c].items) \subseteq Ledger!KeysOf(readings')
        <3>1. pc[t] = "answer" /\ Progress(t)
            BY <2>3 DEF Answer, ProgressInv
        <3> QED
            BY <1>b, <1>c, <2>3, <3>1 DEF Progress
    <2> QED
        BY <1>1, <2>1, <2>2, <2>3, HistorySteps
<1>2. ASSUME NEW u \in Threads,
             pc'[u] = pc[u], call'[u] = call[u], todo'[u] = todo[u],
             existing'[u] = existing[u], staged'[u] = staged[u],
             inserted'[u] = inserted[u]
      PROVE  Progress(u)'
    <2>1. Progress(u)
        BY DEF ProgressInv
    <2>2. KeysHeld(u)' = KeysHeld(u)
        BY <1>2 DEF KeysHeld, Ledger!KeysOf
    <2> QED
        BY <1>2, <1>b, <1>c, <2>1, <2>2 DEF Progress
<1>3. ASSUME NEW u \in Threads, pc'[u] \notin {"lookup", "write", "answer"}
      PROVE  Progress(u)'
    BY <1>3 DEF Progress
<1>4. ASSUME NEW t \in Threads, Arrive(t) PROVE Progress(t)'
    <2>1. PICK raw \in Submissions, ch \in ChannelsOf(t) :
             /\ calls' = Append(calls, NewCall(ch, raw.items, "running"))
             /\ todo' = [todo EXCEPT ![t] = raw.items]
        BY <1>4 DEF Arrive
    <2>2. call'[t] = Len(calls) + 1 /\ pc'[t] = "lookup"
        BY <1>4, <1>a DEF Arrive
    <2>3. calls'[Len(calls) + 1] = NewCall(ch, raw.items, "running")
        BY <1>a, <2>1
    <2>4. calls'[call'[t]].items = todo'[t]
        BY <1>a, <2>1, <2>2, <2>3 DEF NewCall
    <2> QED
        BY <2>2, <2>4 DEF Progress
<1>5. ASSUME NEW t \in Threads, LookupExisting(t) PROVE Progress(t)'
    <2>1. /\ pc[t] = "lookup" /\ pc'[t] = "write"
          /\ call'[t] = call[t] /\ todo'[t] = todo[t]
          /\ existing'[t] \subseteq Ledger!KeysOf(readings)
        BY <1>5, <1>a DEF LookupExisting
    <2>2. KeysOfItems(calls'[call'[t]].items) = KeysOfItems(todo'[t])
        BY <1>b, <2>1 DEF ProgressInv, Progress
    <2> QED
        BY <1>c, <2>1, <2>2 DEF Progress
<1>6. ASSUME NEW t \in Threads, SkipDuplicate(t) \/ StageReading(t)
      PROVE  Progress(t)'
    <2>1. /\ pc[t] = "write" /\ pc'[t] = "write"
          /\ call'[t] = call[t] /\ existing'[t] = existing[t]
          /\ inserted'[t] = inserted[t]
          /\ todo[t] # <<>> /\ todo'[t] = Tail(todo[t])
        BY <1>6, <1>a DEF SkipDuplicate, StageReading
    <2>2. KeysOfItems(todo[t]) =
             {EffectiveKey(Head(todo[t]))} \cup KeysOfItems(todo'[t])
        BY <1>a, <2>1, TailKeys
    <2>3. /\ KeysHeld(t) \subseteq KeysHeld(t)'
          /\ EffectiveKey(Head(todo[t])) \in KeysHeld(t)'
        <3>1. CASE SkipDuplicate(t)
            BY <3>1, <2>1
            DEF SkipDuplicate, IsDuplicate, SeenInBatch, KeysHeld, Ledger!KeysOf
        <3>2. CASE StageReading(t)
            <4>1. PICK m \in Resolutions(Head(todo[t]).point) :
                     staged' = [staged EXCEPT ![t] =
                         Append(@, RowOf(Head(todo[t]), m, call[t]))]
                BY <3>2 DEF StageReading
            <4>2. staged'[t] =
                     Append(staged[t], RowOf(Head(todo[t]), m, call[t]))
                BY <1>a, <4>1
            <4>3. Elements(staged'[t]) =
                     Elements(staged[t]) \cup {RowOf(Head(todo[t]), m, call[t])}
                BY <1>a, <4>2, AppendElements
            <4>4. RowOf(Head(todo[t]), m, call[t]).key
                     = EffectiveKey(Head(todo[t]))
                BY DEF RowOf
            <4> QED
                BY <2>1, <4>3, <4>4 DEF KeysHeld, Ledger!KeysOf
        <3> QED
            BY <1>6, <3>1, <3>2
    <2> QED
        BY <1>b, <1>c, <2>1, <2>2, <2>3 DEF ProgressInv, Progress
<1>7. ASSUME NEW t \in Threads, InsertRow(t) PROVE Progress(t)'
    <2>1. /\ pc[t] = "write" /\ pc'[t] = "write"
          /\ call'[t] = call[t] /\ todo'[t] = todo[t]
          /\ existing'[t] = existing[t]
          /\ staged[t] # <<>> /\ staged'[t] = Tail(staged[t])
          /\ inserted'[t] = inserted[t] \cup {Head(staged[t])}
        BY <1>7, <1>a DEF InsertRow
    <2>2. Elements(staged[t]) = {Head(staged[t])} \cup Elements(staged'[t])
        BY <1>a, <2>1, HeadTailElements
    <2>3. inserted'[t] \cup Elements(staged'[t]) = inserted[t] \cup Elements(staged[t])
        BY <2>1, <2>2
    <2>4. KeysHeld(t)' = KeysHeld(t)
        BY <2>1, <2>3 DEF KeysHeld, Ledger!KeysOf
    <2> QED
        BY <1>b, <1>c, <2>1, <2>4 DEF ProgressInv, Progress
<1>8. ASSUME NEW t \in Threads, CommitBatch(t) PROVE Progress(t)'
    <2>1. /\ pc[t] = "write" /\ pc'[t] = "answer" /\ call'[t] = call[t]
          /\ todo[t] = <<>> /\ staged[t] = <<>>
          /\ readings' = readings \cup inserted[t]
        BY <1>8, <1>a DEF CommitBatch
    <2>2. Ledger!KeysOf(inserted[t] \cup Elements(staged[t]))
              \subseteq Ledger!KeysOf(readings')
        BY <2>1, EmptyElements DEF Ledger!KeysOf
    <2>3. KeysHeld(t) \subseteq Ledger!KeysOf(readings')
        BY <1>c, <2>1, <2>2 DEF KeysHeld, ProgressInv, Progress
    <2> QED
        BY <1>b, <2>1, <2>3, NoKeys DEF ProgressInv, Progress
<1>9. ASSUME NEW t \in Threads,
             ArriveAlien(t) \/ InsertConflict(t) \/ DeadlockVictim(t) \/ Answer(t)
      PROVE  Progress(t)'
    <2>1. pc'[t] \notin {"lookup", "write", "answer"}
        BY <1>9, <1>a
        DEF ArriveAlien, InsertConflict, DeadlockVictim, RollBack, Answer
    <2> QED
        BY <1>3, <2>1
<1>10. ASSUME NEW t \in Threads, NEW u \in Threads \ {t},
              Arrive(t) \/ ArriveAlien(t) \/ Serve(t)
       PROVE  Progress(u)'
    BY <1>2, <1>10, <1>a
    DEF Arrive, ArriveAlien, Serve, LookupExisting, SkipDuplicate, StageReading,
        InsertRow, InsertConflict, DeadlockVictim, RollBack, CommitBatch, Answer,
        session
<1>11. ASSUME NEW u \in Threads,
              \/ UNCHANGED vars \/ DropMessage \/ InsertMapping \/ Backfill
              \/ CommitMapping \/ Crash
       PROVE  Progress(u)'
    <2>1. CASE UNCHANGED vars \/ DropMessage
        BY <1>2, <2>1 DEF vars, DropMessage, session
    <2>2. CASE InsertMapping \/ Backfill \/ CommitMapping
        <3>1. UNCHANGED session
            BY <2>2 DEF InsertMapping, Backfill, CommitMapping
        <3>2. CASE u = "loop"
            BY <1>3, <1>a, <2>2, <3>2 DEF InsertMapping, Backfill, CommitMapping
        <3>3. CASE u # "loop"
            <4>1. pc'[u] = pc[u]
                BY <1>a, <2>2, <3>3 DEF InsertMapping, Backfill, CommitMapping
            <4> QED
                BY <1>2, <3>1, <4>1 DEF session
        <3> QED
            BY <3>2, <3>3
    <2>3. CASE Crash
        BY <1>3, <2>3 DEF Crash
    <2> QED
        BY <1>11, <2>1, <2>2, <2>3
<1>12. ASSUME NEW u \in Threads PROVE Progress(u)'
    <2>1. ASSUME NEW t \in Threads, Arrive(t) \/ ArriveAlien(t) \/ Serve(t)
          PROVE  Progress(u)'
        <3>1. CASE u = t
            BY <2>1, <3>1, <1>4, <1>5, <1>6, <1>7, <1>8, <1>9 DEF Serve
        <3>2. CASE u # t
            BY <2>1, <3>2, <1>10
        <3> QED
            BY <3>1, <3>2
    <2> QED
        BY <1>11, <2>1 DEF Next
<1> QED
    BY <1>1, <1>12 DEF ProgressInv

LEMMA StoreCorrect == Spec => [](TypeInv /\ KeyInv /\ StoreInv)
<1>1. Init => StoreInv
    BY StoreInit
<1>2. TypeInv /\ KeyInv /\ StoreInv /\ [Next]_vars => StoreInv'
    BY FaithfulNext, ProgressNext DEF StoreInv
<1> QED
    BY <1>1, <1>2, KeyCorrect, PTL DEF Spec

\* A call whose keys are all stored has its items stored.
LEMMA KeysMeanStored ==
    ASSUME TypeInv, StoreInv, NEW c \in 1..Len(calls),
           KeysOfItems(calls[c].items) \subseteq Ledger!KeysOf(readings),
           NEW item \in Elements(calls[c].items)
    PROVE  Stored(item)
<1>1. calls[c] \in CallRecords
    BY ElementOfSeq DEF TypeInv, TypeOK
<1>2. \A i \in 1..Len(calls[c].items) : calls[c].items[i] \in Items
    BY <1>1, ElementOfSeq DEF CallRecords
<1>3. item \in Items
    BY <1>2 DEF Elements
<1> QED
    BY <1>3, KeyMeansStored DEF StoreInv, KeysOfItems

\* A call that was answered has every reading in the store, for good: nothing
\* is lost by a restart, by a batch it raced with or by the skipping of
\* duplicates.
THEOREM AnswersAreKept == Spec => []AnsweredMeansStored
<1>1. ASSUME TypeInv, StoreInv PROVE AnsweredMeansStored
    <2>1. \A c \in CallsEnding({"returned"}) : c \in 1..Len(calls)
        BY <1>1 DEF CallsEnding, TypeInv, TypeOK
    <2>2. \A c \in CallsEnding({"returned"}) :
             KeysOfItems(calls[c].items) \subseteq Ledger!KeysOf(readings)
        BY <1>1 DEF StoreInv, ProgressInv
    <2> QED
        BY <1>1, <2>1, <2>2, KeysMeanStored DEF AnsweredMeansStored, AllStored
<1> QED
    BY <1>1, StoreCorrect, PTL

-----------------------------------------------------------------------------
(* A call is all or nothing, and what it says of itself is true.           *)

\* The rows a thread has on their way to the store.
Pending(t) == inserted[t] \cup Elements(staged[t])
Serving(t) == pc[t] \in {"lookup", "write", "answer"}
Unmapped(rows) == {r \in rows : r.metric = NoMetric}

\* A thread holds rows of its own call only, and none of them is stored before
\* it commits; no other thread serves that call.
Owns(t) ==
    /\ pc[t] # "write" => Pending(t) = {}
    /\ \A r \in Pending(t) : r.call = call[t]
    /\ Serving(t) => calls[call[t]].outcome = "running"
    /\ \A u \in Threads \ {t} : Serving(t) /\ Serving(u) => call[u] # call[t]
    /\ pc[t] \in {"lookup", "write"} => RowsOf(call[t]) = {}

\* A stored row is of a call that did not fail and whose keys are all stored.
OwnerInv ==
    /\ \A t \in Threads : Owns(t)
    /\ \A r \in readings :
          /\ r.call \in 1..Len(calls) /\ calls[r.call].outcome # "raised"
          /\ KeysOfItems(calls[r.call].items) \subseteq Ledger!KeysOf(readings)

\* The counts of a call say how many rows these are.
Counted(c, rows) ==
    /\ IsFiniteSet(rows)
    /\ calls[c].accepted = Cardinality(rows)
    /\ calls[c].unmapped >= Cardinality(Unmapped(rows))

\* The items of a call that were looked at.
Looked(c) == calls[c].accepted + calls[c].duplicate

\* The counts of a call that is being worked on are those of the rows its
\* thread holds; rows are only flushed when every item was looked at.
Underway(t) ==
    /\ Counted(call[t], Pending(t))
    /\ Looked(call[t]) + Len(todo[t]) = Len(calls[call[t]].items)
    /\ todo[t] # <<>> => inserted[t] = {}

\* The counts of a call are those of the database.
Honest(c) == Counted(c, RowsOf(c)) /\ Looked(c) = Len(calls[c].items)

CountInv ==
    /\ \A t \in Threads :
          /\ pc[t] \in {"lookup", "write"} => Underway(t)
          /\ pc[t] = "answer" => Honest(call[t])
    /\ \A c \in CallsEnding({"returned"}) : Honest(c)

\* A statement of a handler rewrites the record of the call it serves.
LEMMA ServedRecord ==
    ASSUME TypeInv, NEW t \in Threads,
           \/ SkipDuplicate(t) \/ StageReading(t) \/ InsertConflict(t)
           \/ DeadlockVictim(t) \/ Answer(t)
    PROVE  LET old == calls[call[t]]
               new == calls'[call[t]]
           IN  /\ call[t] \in 1..Len(calls) /\ Len(calls') = Len(calls)
               /\ \A c \in 1..Len(calls) : c # call[t] => calls'[c] = calls[c]
               /\ new.items = old.items
               /\ old.accepted \in Nat /\ old.unmapped \in Nat /\ old.duplicate \in Nat
               /\ SkipDuplicate(t) =>
                     /\ new.outcome = old.outcome /\ new.accepted = old.accepted
                     /\ new.unmapped = old.unmapped /\ new.duplicate = old.duplicate + 1
               /\ StageReading(t) =>
                     /\ new.outcome = old.outcome /\ new.accepted = old.accepted + 1
                     /\ new.duplicate = old.duplicate
                     /\ \E m \in Resolutions(Head(todo[t]).point) :
                           /\ staged' = [staged EXCEPT ![t] =
                                  Append(@, RowOf(Head(todo[t]), m, call[t]))]
                           /\ new.unmapped = IF m = NoMetric THEN old.unmapped + 1
                                                             ELSE old.unmapped
               /\ InsertConflict(t) \/ DeadlockVictim(t) => new.outcome = "raised"
               /\ Answer(t) =>
                     /\ new.outcome = "returned" /\ new.accepted = old.accepted
                     /\ new.unmapped = old.unmapped /\ new.duplicate = old.duplicate
<1> DEFINE old == calls[call[t]]
           new == calls'[call[t]]
<1>1. call[t] \in 1..Len(calls)
    BY DEF TypeInv, Busy, SkipDuplicate, StageReading, InsertConflict, DeadlockVictim,
           WaitsFor, Answer
<1>2. /\ calls \in Seq(CallRecords) /\ old \in CallRecords
      /\ pc[t] \in {"write", "answer"}
    BY <1>1, ElementOfSeq DEF TypeInv, TypeOK, SkipDuplicate, StageReading, InsertConflict,
       DeadlockVictim, WaitsFor, Answer
<1>3. ASSUME NEW r, calls' = [calls EXCEPT ![call[t]] = r]
      PROVE  /\ Len(calls') = Len(calls) /\ new = r
             /\ \A c \in 1..Len(calls) : c # call[t] => calls'[c] = calls[c]
    BY <1>1, <1>2, <1>3
<1>4. CASE SkipDuplicate(t)
    <2>1. calls' = [calls EXCEPT ![call[t]] = [old EXCEPT !.duplicate = @ + 1]]
        BY <1>4 DEF SkipDuplicate
    <2>2. ~StageReading(t) /\ ~InsertConflict(t) /\ ~DeadlockVictim(t) /\ ~Answer(t)
        BY <1>4 DEF SkipDuplicate, StageReading, InsertConflict, DeadlockVictim, WaitsFor,
                    Answer
    <2> QED
        BY <1>1, <1>2, <1>3, <1>4, <2>1, <2>2 DEF CallRecords
<1>5. CASE StageReading(t)
    <2>1. PICK m \in Resolutions(Head(todo[t]).point) :
             /\ staged' = [staged EXCEPT ![t] =
                    Append(@, RowOf(Head(todo[t]), m, call[t]))]
             /\ calls' = [calls EXCEPT
                    ![call[t]].accepted = @ + 1,
                    ![call[t]].unmapped = IF m = NoMetric THEN @ + 1 ELSE @]
        BY <1>5 DEF StageReading
    <2> DEFINE r == [old EXCEPT !.accepted = @ + 1,
                                !.unmapped = IF m = NoMetric THEN @ + 1 ELSE @]
    <2>2. calls' = [calls EXCEPT ![call[t]] = r]
        BY <1>1, <1>2, <2>1 DEF CallRecords
    <2>3. /\ r.items = old.items /\ r.outcome = old.outcome
          /\ r.accepted = old.accepted + 1 /\ r.duplicate = old.duplicate
          /\ r.unmapped = IF m = NoMetric THEN old.unmapped + 1 ELSE old.unmapped
          /\ old.accepted \in Nat /\ old.unmapped \in Nat /\ old.duplicate \in Nat
        BY <1>2 DEF CallRecords
    <2> HIDE DEF r
    <2>4. /\ Len(calls') = Len(calls) /\ new = r
          /\ \A c \in 1..Len(calls) : c # call[t] => calls'[c] = calls[c]
        BY <1>3, <2>2
    <2>5. ~SkipDuplicate(t) /\ ~InsertConflict(t) /\ ~DeadlockVictim(t) /\ ~Answer(t)
        BY <1>5 DEF SkipDuplicate, StageReading, InsertConflict, DeadlockVictim, WaitsFor,
                    Answer
    <2> QED
        BY <1>1, <2>1, <2>3, <2>4, <2>5
<1>6. CASE InsertConflict(t) \/ DeadlockVictim(t)
    <2>1. calls' = [calls EXCEPT ![call[t]] = [old EXCEPT !.outcome = "raised"]]
        BY <1>6 DEF InsertConflict, DeadlockVictim, RollBack
    <2>2. ~SkipDuplicate(t) /\ ~StageReading(t) /\ ~Answer(t)
        BY <1>6 DEF SkipDuplicate, StageReading, InsertConflict, DeadlockVictim, WaitsFor,
                    Answer
    <2> QED
        BY <1>1, <1>2, <1>3, <2>1, <2>2 DEF CallRecords
<1>7. CASE Answer(t)
    <2>1. calls' = [calls EXCEPT ![call[t]] = [old EXCEPT !.outcome = "returned"]]
        BY <1>7 DEF Answer
    <2>2. ~SkipDuplicate(t) /\ ~StageReading(t) /\ ~InsertConflict(t) /\ ~DeadlockVictim(t)
        BY <1>7 DEF SkipDuplicate, StageReading, InsertConflict, DeadlockVictim, WaitsFor,
                    Answer
    <2> QED
        BY <1>1, <1>2, <1>3, <2>1, <2>2 DEF CallRecords
<1> QED
    BY <1>4, <1>5, <1>6, <1>7

\* A call that arrives is recorded after the others, with nothing counted.
LEMMA ArrivedRecord ==
    ASSUME TypeInv,
           DropMessage \/ \E t \in Threads : Arrive(t) \/ ArriveAlien(t)
    PROVE  LET new == calls'[Len(calls) + 1]
           IN  /\ Len(calls) \in Nat /\ Len(calls') = Len(calls) + 1
               /\ \A c \in 1..Len(calls) : calls'[c] = calls[c]
               /\ new.accepted = 0 /\ new.unmapped = 0 /\ new.duplicate = 0
               /\ new.outcome = "returned" => new.items = <<>>
               /\ \A t \in Threads : Arrive(t) =>
                     /\ new.outcome = "running"
                     /\ todo' = [todo EXCEPT ![t] = new.items]
<1> DEFINE new == calls'[Len(calls) + 1]
<1>1. calls \in Seq(CallRecords) /\ Len(calls) \in Nat
    BY DEF TypeInv, TypeOK
<1>2. ASSUME NEW r, calls' = Append(calls, r)
      PROVE  /\ Len(calls') = Len(calls) + 1 /\ new = r
             /\ \A c \in 1..Len(calls) : calls'[c] = calls[c]
    BY <1>1, <1>2
<1>3. CASE DropMessage
    <2>1. calls' = Append(calls, NewCall("mqtt", <<>>, "returned"))
        BY <1>3 DEF DropMessage
    <2>2. \A t \in Threads : ~Arrive(t)
        <3>1. ASSUME NEW t \in Threads, Arrive(t) PROVE FALSE
            <4>1. "mqtt" \in Threads /\ pc["mqtt"] = "idle" /\ pc' = pc
                BY <1>3 DEF DropMessage, MayArrive
            <4>2. pc[t] = "idle" /\ pc' = [pc EXCEPT ![t] = "lookup"]
                BY <3>1 DEF Arrive, MayArrive
            <4> QED
                BY <4>1, <4>2 DEF TypeInv, TypeOK
        <3> QED
            BY <3>1
    <2> QED
        BY <1>1, <1>2, <2>1, <2>2 DEF NewCall
<1>4. ASSUME NEW t \in Threads, ArriveAlien(t)
      PROVE  /\ Len(calls') = Len(calls) + 1
             /\ \A c \in 1..Len(calls) : calls'[c] = calls[c]
             /\ new.accepted = 0 /\ new.unmapped = 0 /\ new.duplicate = 0
             /\ new.outcome = "raised" /\ \A u \in Threads : ~Arrive(u)
    <2>1. PICK raw, ch : calls' = Append(calls, NewCall(ch, raw.items, "raised"))
        BY <1>4 DEF ArriveAlien
    <2>2. ASSUME NEW u \in Threads, Arrive(u) PROVE FALSE
        <3>1. PICK r, k : calls' = Append(calls, NewCall(k, r.items, "running"))
            BY <2>2 DEF Arrive
        <3>2. NewCall(k, r.items, "running").outcome = "running"
              /\ NewCall(ch, raw.items, "raised").outcome = "raised"
            BY DEF NewCall
        <3> HIDE DEF new
        <3> QED
            BY <1>2, <2>1, <3>1, <3>2
    <2> QED
        BY <1>2, <2>1, <2>2 DEF NewCall
<1>5. ASSUME NEW t \in Threads, Arrive(t)
      PROVE  /\ Len(calls') = Len(calls) + 1
             /\ \A c \in 1..Len(calls) : calls'[c] = calls[c]
             /\ new.accepted = 0 /\ new.unmapped = 0 /\ new.duplicate = 0
             /\ new.outcome = "running" /\ todo' = [todo EXCEPT ![t] = new.items]
    <2>1. PICK raw, ch : /\ calls' = Append(calls, NewCall(ch, raw.items, "running"))
                         /\ todo' = [todo EXCEPT ![t] = raw.items]
        BY <1>5 DEF Arrive
    <2>2. LET r == NewCall(ch, raw.items, "running")
          IN  /\ r.accepted = 0 /\ r.unmapped = 0 /\ r.duplicate = 0
              /\ r.outcome = "running" /\ r.items = raw.items
        BY DEF NewCall
    <2>3. /\ Len(calls') = Len(calls) + 1 /\ new = NewCall(ch, raw.items, "running")
          /\ \A c \in 1..Len(calls) : calls'[c] = calls[c]
        BY <1>2, <2>1
    <2> HIDE DEF new
    <2> QED
        BY <2>1, <2>2, <2>3
<1> QED
    BY <1>1, <1>3, <1>4, <1>5

\* A restart only turns running calls into lost ones.
LEMMA LostRecord ==
    ASSUME TypeInv, Crash
    PROVE  /\ Len(calls') = Len(calls)
           /\ \A c \in 1..Len(calls) :
                 /\ calls'[c].items = calls[c].items
                 /\ calls'[c].accepted = calls[c].accepted
                 /\ calls'[c].unmapped = calls[c].unmapped
                 /\ calls'[c].duplicate = calls[c].duplicate
                 /\ calls'[c].outcome = IF calls[c].outcome = "running" THEN "lost"
                                                                   ELSE calls[c].outcome
<1>1. calls \in Seq(CallRecords) /\ DOMAIN calls = 1..Len(calls) /\ Len(calls) \in Nat
    BY DEF TypeInv, TypeOK
<1>2. Len(calls') = Len(calls)
    BY <1>1 DEF Crash
<1>3. ASSUME NEW c \in 1..Len(calls)
      PROVE  calls'[c] = (IF calls[c].outcome = "running"
                          THEN [calls[c] EXCEPT !.outcome = "lost"] ELSE calls[c])
             /\ calls[c] \in CallRecords
    BY <1>1, ElementOfSeq DEF Crash
<1> QED
    BY <1>2, <1>3 DEF CallRecords

\* What others do: the thread stays where it is, or stays out of _ingest_items.
Aside(t) ==
    /\ UNCHANGED <<call[t], todo[t], existing[t], inserted[t], staged[t]>>
    /\ pc'[t] = pc[t] \/ (~Serving(t) /\ ~Serving(t)')

LEMMA ThreadSteps ==
    ASSUME TypeInv, [Next]_vars, NEW t \in Threads
    PROVE  Aside(t) \/ Arrive(t) \/ Serve(t) \/ Crash
<1>a. /\ pc \in [Threads -> {"idle", "lookup", "write", "answer",
                             "backfill", "commitMapping", "dead"}]
      /\ call \in [Threads -> Nat] /\ todo \in [Threads -> Seq(Items)]
      /\ existing \in [Threads -> SUBSET Ledger!Keys]
      /\ staged \in [Threads -> Seq(Ledger!Rows)]
      /\ inserted \in [Threads -> SUBSET Ledger!Rows]
    BY DEF TypeInv, TypeOK
<1>1. CASE UNCHANGED vars
    BY <1>1 DEF vars, session, Aside
<1>2. ASSUME NEW u \in Threads, Arrive(u) \/ Serve(u) PROVE Aside(t) \/ u = t
    <2>1. CASE Arrive(u)
        BY <1>a, <2>1 DEF Arrive, Aside
    <2>2. CASE LookupExisting(u) \/ SkipDuplicate(u) \/ StageReading(u) \/ InsertRow(u)
        BY <1>a, <2>2 DEF LookupExisting, SkipDuplicate, StageReading, InsertRow, Aside
    <2>3. CASE InsertConflict(u) \/ DeadlockVictim(u) \/ CommitBatch(u) \/ Answer(u)
        BY <1>a, <2>3 DEF InsertConflict, DeadlockVictim, RollBack, CommitBatch, Answer,
                          session, Aside
    <2> QED
        BY <1>2, <2>1, <2>2, <2>3 DEF Serve
<1>3. ASSUME NEW u \in Threads, ArriveAlien(u) PROVE Aside(t)
    BY <1>3, <1>a DEF ArriveAlien, MayArrive, session, Aside, Serving
<1>4. CASE DropMessage \/ InsertMapping \/ Backfill \/ CommitMapping
    BY <1>4, <1>a DEF DropMessage, InsertMapping, Backfill, CommitMapping, session, Aside,
                      Serving
<1> QED
    BY <1>1, <1>2, <1>3, <1>4 DEF Next

\* The rows of a call that does not commit now are the same, a metric that was
\* mapped meanwhile aside.
LEMMA RowsKept ==
    ASSUME TypeInv, KeyInv, [Next]_vars, \A t \in Threads : Owns(t), NEW c,
           \A t \in Threads : CommitBatch(t) => call[t] # c
    PROVE  /\ RowsOf(c) = {} => RowsOf(c)' = {}
           /\ IsFiniteSet(RowsOf(c)) =>
                 /\ IsFiniteSet(RowsOf(c)')
                 /\ Cardinality(RowsOf(c)') = Cardinality(RowsOf(c))
                 /\ Cardinality(Unmapped(RowsOf(c)')) <= Cardinality(Unmapped(RowsOf(c)))
<1>1. CASE RowsOf(c)' = RowsOf(c)
    <2>1. IsFiniteSet(RowsOf(c)) => Cardinality(Unmapped(RowsOf(c))) \in Nat
        BY FS_Subset, FS_CardinalityType DEF Unmapped
    <2> QED
        BY <1>1, <2>1
<1>2. CASE UNCHANGED db
    BY <1>1, <1>2 DEF db, RowsOf
<1>3. ASSUME NEW t \in Threads, CommitBatch(t) PROVE RowsOf(c)' = RowsOf(c)
    <2>1. readings' = readings \cup inserted[t]
        BY <1>3 DEF CommitBatch
    <2>2. \A r \in inserted[t] : r.call # c
        BY <1>3 DEF Owns, Pending
    <2> QED
        BY <2>1, <2>2 DEF RowsOf
<1>4. CASE CommitMapping
    <2> DEFINE m == change["loop"].metric
               now(r) == IF r \in marked["loop"] THEN Ledger!Stamped(r, m) ELSE r
               f == [r \in RowsOf(c) |-> now(r)]
    <2>1. /\ MarkedAreUnresolved /\ UniqueKeys /\ m # NoMetric
          /\ \A r \in readings : r \in Ledger!Rows
          /\ readings' = (readings \ marked["loop"]) \cup
                         {Ledger!Stamped(r, m) : r \in marked["loop"]}
        BY <1>4, NamesAssumption DEF KeyInv, CommitMapping, TypeInv, TypeOK, Busy, Ledger!Mappings
    <2>2. \A r \in marked["loop"] :
             /\ r \in readings /\ r.metric = NoMetric
             /\ Ledger!Stamped(r, m).key = r.key /\ Ledger!Stamped(r, m).metric = m
        BY <1>4, <2>1, StampingKeepsRows DEF MarkedAreUnresolved, Unresolved, CommitMapping
    <2>3. \A r \in marked["loop"] : Ledger!Stamped(r, m).call = r.call
        BY <2>1, <2>2 DEF Ledger!Stamped, Ledger!Rows
    <2> HIDE DEF m
    <2>4. \A r \in readings : now(r) \in readings' /\ now(r).key = r.key /\ now(r).call = r.call
        BY <2>1, <2>2, <2>3
    <2>5. \A s \in readings' : \E r \in readings : s = now(r)
        BY <2>1, <2>2
    <2>6. \A r \in readings : now(r).metric = NoMetric => now(r) = r
        BY <2>1, <2>2
    <2> HIDE DEF now
    <2>7. f \in [RowsOf(c) -> RowsOf(c)'] /\ \A s \in RowsOf(c)' : \E r \in RowsOf(c) : f[r] = s
        BY <2>4, <2>5 DEF RowsOf
    <2>8. ASSUME NEW r \in RowsOf(c), NEW s \in RowsOf(c), f[r] = f[s] PROVE r = s
        BY <2>1, <2>4, <2>8 DEF RowsOf, UniqueKeys, Ledger!KeysDistinct
    <2>9. ExistsBijection(RowsOf(c), RowsOf(c)')
        <3> HIDE DEF f
        <3>1. f \in Injection(RowsOf(c), RowsOf(c)') /\ f \in Surjection(RowsOf(c), RowsOf(c)')
            BY <2>7, <2>8 DEF Injection, Surjection, IsInjective
        <3> QED
            BY <3>1 DEF ExistsBijection, Bijection
    <2>10. Unmapped(RowsOf(c)') \subseteq Unmapped(RowsOf(c))
        BY <2>5, <2>6, <2>4 DEF Unmapped, RowsOf
    <2>11. IsFiniteSet(RowsOf(c)) =>
              Cardinality(Unmapped(RowsOf(c)')) <= Cardinality(Unmapped(RowsOf(c)))
        BY <2>10, FS_Subset DEF Unmapped
    <2> QED
        BY <2>7, <2>9, <2>11, FS_Bijection
<1> QED
    BY <1>1, <1>2, <1>3, <1>4, ReadingsSteps

\* Nobody else rewrites the record of a call that is being served.
LEMMA OtherRecords ==
    ASSUME TypeInv, [Next]_vars, \A t \in Threads : Owns(t), NEW c \in 1..Len(calls),
           \A t \in Threads : Serve(t) => call[t] # c
    PROVE  /\ c \in 1..Len(calls') /\ calls'[c].items = calls[c].items
           /\ calls'[c].accepted = calls[c].accepted
           /\ calls'[c].unmapped = calls[c].unmapped
           /\ calls'[c].duplicate = calls[c].duplicate
           /\ ~Crash => calls'[c].outcome = calls[c].outcome
           /\ calls'[c].outcome = "raised" <=> calls[c].outcome = "raised"
           /\ calls'[c].outcome = "returned" <=> calls[c].outcome = "returned"
<1>1. CASE UNCHANGED calls
    BY <1>1
<1>2. CASE DropMessage \/ \E t \in Threads : Arrive(t) \/ ArriveAlien(t)
    BY <1>2, ArrivedRecord
<1>3. CASE Crash
    BY <1>3, LostRecord
<1>4. ASSUME NEW t \in Threads,
             \/ SkipDuplicate(t) \/ StageReading(t) \/ InsertConflict(t)
             \/ DeadlockVictim(t) \/ Answer(t)
      PROVE  Len(calls') = Len(calls) /\ calls'[c] = calls[c]
    BY <1>4, ServedRecord DEF Serve
<1>5. \/ UNCHANGED calls \/ DropMessage \/ Crash
      \/ \E t \in Threads : \/ Arrive(t) \/ ArriveAlien(t) \/ SkipDuplicate(t)
                            \/ StageReading(t) \/ InsertConflict(t)
                            \/ DeadlockVictim(t) \/ Answer(t)
    BY DEF Next, Serve, LookupExisting, InsertRow, CommitBatch, InsertMapping,
           Backfill, CommitMapping, vars
<1> QED
    BY <1>1, <1>2, <1>3, <1>4, <1>5

LEMMA OwnerInit == Init => OwnerInv
BY EmptyElements DEF Init, OwnerInv, Owns, Pending, Serving

\* A thread that serves a call and does not act is left alone with it.
LEMMA AsideOwns ==
    ASSUME TypeInv, KeyInv, OwnerInv, [Next]_vars, NEW t \in Threads, Aside(t), ~Crash,
           Serving(t), ~Serve(t)
    PROVE  /\ \A u \in Threads : Serve(u) => call[u] # call[t]
           /\ call[t] \in 1..Len(calls) /\ calls'[call[t]].outcome = "running"
<1>1. \A u \in Threads : Serve(u) => Serving(u)
    BY DEF Serving, Serve, LookupExisting, SkipDuplicate, StageReading, InsertRow,
           InsertConflict, DeadlockVictim, WaitsFor, CommitBatch, Answer
<1>2. \A u \in Threads : Serve(u) => call[u] # call[t]
    BY <1>1 DEF OwnerInv, Owns
<1>3. call[t] \in 1..Len(calls)
    BY DEF TypeInv, Busy, Serving
<1> QED
    BY <1>2, <1>3, OtherRecords DEF OwnerInv, Owns

\* A thread begins, goes on with or ends a call; the record of the call it
\* goes on with is not touched by anybody else.
LEMMA OwnsNext ==
    ASSUME TypeInv, KeyInv, OwnerInv, [Next]_vars, NEW t \in Threads
    PROVE  Owns(t)'
<1>a. /\ pc \in [Threads -> {"idle", "lookup", "write", "answer",
                             "backfill", "commitMapping", "dead"}]
      /\ call \in [Threads -> Nat] /\ todo \in [Threads -> Seq(Items)]
      /\ staged \in [Threads -> Seq(Ledger!Rows)]
      /\ inserted \in [Threads -> SUBSET Ledger!Rows]
      /\ Len(calls) \in Nat
    BY DEF TypeInv, TypeOK
<1>b. Owns(t) /\ \A u \in Threads : Serving(u) => call[u] \in 1..Len(calls)
    BY DEF OwnerInv, TypeInv, Busy, Serving
<1>c. \A r \in readings : r.call \in 1..Len(calls)
    BY DEF OwnerInv
\* Two threads do not serve the same call.
<1>d. ASSUME NEW u \in Threads \ {t}, Serving(t)', Serving(u)' PROVE call'[u] # call'[t]
    <2>1. \A v \in Threads :
             \/ Serving(v) /\ call'[v] = call[v]
             \/ Arrive(v) /\ call'[v] = Len(calls) + 1
             \/ ~Serving(v)'
        <3>1. ASSUME NEW v \in Threads, Serve(v) PROVE Serving(v) /\ call' = call
            BY <3>1 DEF Serving, Serve, LookupExisting, SkipDuplicate, StageReading, InsertRow,
               InsertConflict, DeadlockVictim, WaitsFor, RollBack, CommitBatch, Answer, session
        <3>2. ASSUME NEW v \in Threads, Arrive(v) PROVE call'[v] = Len(calls) + 1
            BY <1>a, <3>2 DEF Arrive
        <3>3. ASSUME NEW v \in Threads, Crash PROVE ~Serving(v)'
            BY <3>3 DEF Crash, Serving
        <3> QED
            BY <3>1, <3>2, <3>3, ThreadSteps DEF Aside, Serving
    <2>2. ~(Arrive(u) /\ Arrive(t))
        <3>1. ASSUME Arrive(u), Arrive(t) PROVE FALSE
            BY <1>a, <3>1 DEF Arrive, MayArrive
        <3> QED
            BY <3>1
    <2> QED
        BY <1>a, <1>b, <1>d, <2>1, <2>2 DEF Owns
<1>1. CASE Crash
    BY <1>1, EmptyElements DEF Crash, Owns, Pending, Serving
<1>2. CASE Arrive(t)
    <2>1. /\ pc[t] = "idle" /\ pc'[t] = "lookup" /\ call'[t] = Len(calls) + 1
          /\ UNCHANGED <<readings, inserted, staged>>
        BY <1>2, <1>a DEF Arrive, MayArrive, db
    <2>2. Pending(t)' = {}
        BY <1>b, <2>1 DEF Owns, Pending
    <2>3. calls'[Len(calls) + 1].outcome = "running"
        BY <1>2, ArrivedRecord
    <2>4. \A r \in readings' : r.call # call'[t]
        BY <1>a, <1>c, <2>1
    <2> QED
        BY <1>d, <2>1, <2>2, <2>3, <2>4 DEF Owns, RowsOf
<1>3. CASE Aside(t) /\ ~Crash /\ ~Serve(t)
    <2>1. Pending(t)' = Pending(t)
        BY <1>3 DEF Aside, Pending
    <2>2. pc'[t] # "write" => Pending(t) = {}
        BY <1>3, <1>b DEF Aside, Owns, Serving
    <2>3. Serving(t)' => Serving(t) /\ pc'[t] = pc[t] /\ call'[t] = call[t]
        BY <1>3 DEF Aside, Serving
    <2>4. Serving(t)' => calls'[call'[t]].outcome = "running"
        BY <1>3, <2>3, AsideOwns
    <2>5. ASSUME pc'[t] \in {"lookup", "write"}
          PROVE  \A r \in readings' : r.call # call[t]
        <3>1. Serving(t) /\ RowsOf(call[t]) = {}
            BY <1>b, <2>3, <2>5 DEF Owns, Serving
        <3>2. \A u \in Threads : CommitBatch(u) => call[u] # call[t]
            BY <1>3, <3>1, AsideOwns DEF Serve
        <3> QED
            BY <3>1, <3>2, RowsKept DEF OwnerInv, RowsOf
    <2>6. call'[t] = call[t]
        BY <1>3 DEF Aside
    <2> QED
        BY <1>b, <1>d, <2>1, <2>2, <2>3, <2>4, <2>5, <2>6 DEF Owns, RowsOf
<1>4. CASE Serve(t)
    <2>1. call' = call
        BY <1>4 DEF Serve, LookupExisting, SkipDuplicate, StageReading, InsertRow,
           InsertConflict, DeadlockVictim, RollBack, CommitBatch, Answer, session
    <2>2. CASE LookupExisting(t)
        <3>1. /\ UNCHANGED <<readings, calls, inserted, staged>>
              /\ pc[t] = "lookup" /\ pc'[t] = "write"
            BY <1>a, <2>2 DEF LookupExisting, db
        <3> QED
            BY <1>b, <1>d, <2>1, <3>1 DEF Owns, Pending, Serving, RowsOf
    <2>3. CASE SkipDuplicate(t) \/ StageReading(t)
        <3>1. /\ UNCHANGED <<readings, inserted, pc>> /\ pc[t] = "write"
              /\ calls'[call[t]].outcome = calls[call[t]].outcome
            BY <2>3, ServedRecord DEF SkipDuplicate, StageReading, db
        <3>2. \A r \in Pending(t)' : r.call = call[t]
            <4>1. CASE SkipDuplicate(t)
                BY <1>b, <4>1 DEF SkipDuplicate, Owns, Pending
            <4>2. CASE StageReading(t)
                <5>1. PICK m : staged' = [staged EXCEPT ![t] =
                                   Append(@, RowOf(Head(todo[t]), m, call[t]))]
                    BY <4>2, ServedRecord
                <5>2. Elements(staged'[t]) =
                          Elements(staged[t]) \cup {RowOf(Head(todo[t]), m, call[t])}
                    BY <1>a, <5>1, AppendElements
                <5>3. RowOf(Head(todo[t]), m, call[t]).call = call[t]
                    BY DEF RowOf
                <5> QED
                    BY <1>b, <3>1, <5>2, <5>3 DEF Owns, Pending
            <4> QED
                BY <2>3, <4>1, <4>2
        <3> QED
            BY <1>b, <1>d, <2>1, <3>1, <3>2 DEF Owns, Serving, RowsOf
    <2>4. CASE InsertRow(t)
        <3>1. /\ UNCHANGED <<readings, calls, pc>> /\ pc[t] = "write"
              /\ staged[t] # <<>> /\ inserted'[t] = inserted[t] \cup {Head(staged[t])}
              /\ staged'[t] = Tail(staged[t])
            BY <1>a, <2>4 DEF InsertRow, db
        <3>2. Pending(t)' = Pending(t)
            BY <1>a, <3>1, HeadTailElements DEF Pending
        <3> QED
            BY <1>b, <1>d, <2>1, <3>1, <3>2 DEF Owns, Serving, RowsOf
    <2>5. CASE InsertConflict(t) \/ DeadlockVictim(t)
        <3>1. /\ inserted'[t] = {} /\ staged'[t] = <<>> /\ pc'[t] \in {"idle", "dead"}
            BY <1>a, <2>5 DEF InsertConflict, DeadlockVictim, RollBack
        <3> QED
            BY <3>1, EmptyElements DEF Owns, Pending, Serving
    <2>6. CASE CommitBatch(t)
        <3>1. /\ inserted'[t] = {} /\ staged'[t] = <<>> /\ pc[t] = "write"
              /\ pc'[t] = "answer" /\ calls' = calls
            BY <1>a, <2>6 DEF CommitBatch
        <3> QED
            BY <1>b, <1>d, <2>1, <3>1, EmptyElements DEF Owns, Pending, Serving
    <2>7. CASE Answer(t)
        <3>1. /\ UNCHANGED <<inserted, staged>> /\ pc[t] = "answer" /\ pc'[t] = "idle"
            BY <1>a, <2>7 DEF Answer, session
        <3> QED
            BY <1>b, <3>1 DEF Owns, Pending, Serving
    <2> QED
        BY <1>4, <2>2, <2>3, <2>4, <2>5, <2>6, <2>7 DEF Serve
<1> QED
    BY <1>1, <1>2, <1>3, <1>4, ThreadSteps

\* Where a stored row comes from.
LEMMA RowOrigin ==
    ASSUME TypeInv, KeyInv, [Next]_vars, NEW r \in readings'
    PROVE  \/ \E s \in readings : s.call = r.call
           \/ \E t \in Threads : CommitBatch(t) /\ r \in inserted[t]
<1>1. CASE UNCHANGED db
    BY <1>1 DEF db
<1>2. CASE \E t \in Threads : CommitBatch(t)
    BY <1>2 DEF CommitBatch
<1>3. CASE CommitMapping
    <2>1. CASE r \in readings
        BY <2>1
    <2>2. CASE r \notin readings
        <3>1. PICK s \in marked["loop"] : r = Ledger!Stamped(s, change["loop"].metric)
            BY <1>3, <2>2, StampingKeepsRows DEF KeyInv
        <3>2. s \in readings /\ s \in Ledger!Rows
            BY <1>3, StampingKeepsRows DEF KeyInv, TypeInv, TypeOK
        <3>3. r.call = s.call
            BY <3>1, <3>2 DEF Ledger!Stamped, Ledger!Rows
        <3> QED
            BY <3>2, <3>3
    <2> QED
        BY <2>1, <2>2
<1> QED
    BY <1>1, <1>2, <1>3, ReadingsSteps

LEMMA OwnerNext ==
    TypeInv /\ KeyInv /\ ProgressInv /\ OwnerInv /\ [Next]_vars => OwnerInv'
<1> SUFFICES ASSUME TypeInv, KeyInv, ProgressInv, OwnerInv, [Next]_vars,
                    NEW r \in readings'
             PROVE  /\ r.call \in 1..Len(calls') /\ calls'[r.call].outcome # "raised"
                    /\ KeysOfItems(calls'[r.call].items) \subseteq Ledger!KeysOf(readings')
    BY OwnsNext DEF OwnerInv
<1>1. ASSUME NEW s \in readings, s.call = r.call
      PROVE  /\ r.call \in 1..Len(calls') /\ calls'[r.call].outcome # "raised"
             /\ KeysOfItems(calls'[r.call].items) \subseteq Ledger!KeysOf(readings')
    <2>1. /\ r.call \in 1..Len(calls) /\ calls[r.call].outcome # "raised"
          /\ KeysOfItems(calls[r.call].items) \subseteq Ledger!KeysOf(readings)
        BY <1>1 DEF OwnerInv
    <2>2. calls'[r.call].items = calls[r.call].items /\ r.call \in 1..Len(calls')
        BY <2>1, HistorySteps
    <2>3. calls'[r.call].outcome # "raised"
        <3>1. CASE \A t \in Threads : Serve(t) => call[t] # r.call
            BY <2>1, <3>1, OtherRecords DEF OwnerInv
        <3>2. ASSUME NEW t \in Threads, Serve(t), call[t] = r.call
              PROVE  calls'[r.call].outcome # "raised"
            <4>1. r.call \in Nat /\ RowsOf(call[t]) # {}
                BY <1>1, <2>1, <3>2 DEF RowsOf
            <4>2. pc[t] \notin {"lookup", "write"}
                BY <4>1 DEF OwnerInv, Owns
            <4>3. Answer(t)
                BY <3>2, <4>2 DEF Serve, LookupExisting, SkipDuplicate, StageReading, InsertRow,
                   InsertConflict, DeadlockVictim, WaitsFor, CommitBatch
            <4> QED
                BY <3>2, <4>3, ServedRecord
        <3> QED
            BY <3>1, <3>2
    <2> QED
        BY <2>1, <2>2, <2>3, KeysOnlyGrow
<1>2. ASSUME NEW t \in Threads, CommitBatch(t), r \in inserted[t]
      PROVE  /\ r.call \in 1..Len(calls') /\ calls'[r.call].outcome # "raised"
             /\ KeysOfItems(calls'[r.call].items) \subseteq Ledger!KeysOf(readings')
    <2>1. /\ pc[t] = "write" /\ todo[t] = <<>> /\ staged[t] = <<>> /\ calls' = calls
          /\ readings' = readings \cup inserted[t]
        BY <1>2 DEF CommitBatch
    <2>2. r.call = call[t] /\ calls[call[t]].outcome = "running"
        BY <1>2, <2>1 DEF OwnerInv, Owns, Pending, Serving
    <2>3. call[t] \in 1..Len(calls)
        BY <2>1 DEF TypeInv, Busy
    <2>4. KeysOfItems(calls[call[t]].items) \subseteq KeysHeld(t)
        BY <2>1, NoKeys DEF ProgressInv, Progress
    <2>5. KeysHeld(t) \subseteq Ledger!KeysOf(readings')
        BY <2>1, EmptyElements DEF ProgressInv, Progress, KeysHeld, Ledger!KeysOf
    <2> QED
        BY <2>1, <2>2, <2>3, <2>4, <2>5
<1> QED
    BY <1>1, <1>2, RowOrigin

LEMMA OwnerCorrect == Spec => [](TypeInv /\ KeyInv /\ StoreInv /\ OwnerInv)
<1>1. Init => OwnerInv
    BY OwnerInit
<1>2. TypeInv /\ KeyInv /\ StoreInv /\ OwnerInv /\ [Next]_vars => OwnerInv'
    BY OwnerNext DEF StoreInv
<1> QED
    BY <1>1, <1>2, StoreCorrect, PTL DEF Spec

\* A call that failed left no row, and one that left a row left every row it
\* owed, even if the process died before it answered.
THEOREM CallsAreAtomic == Spec => []AllOrNothing
<1>1. ASSUME TypeInv, StoreInv, OwnerInv PROVE AllOrNothing
    <2>1. DOMAIN calls = 1..Len(calls)
        BY <1>1 DEF TypeInv, TypeOK
    <2>2. \A c \in CallsEnding({"raised"}) : RowsOf(c) = {}
        BY <1>1 DEF OwnerInv, CallsEnding, RowsOf
    <2>3. \A c \in DOMAIN calls : RowsOf(c) # {} =>
             KeysOfItems(calls[c].items) \subseteq Ledger!KeysOf(readings)
        BY <1>1 DEF OwnerInv, RowsOf
    <2> QED
        BY <1>1, <2>1, <2>2, <2>3, KeysMeanStored DEF AllOrNothing, AllStored
<1> QED
    BY <1>1, OwnerCorrect, PTL

LEMMA RecordNumbers ==
    ASSUME TypeInv, NEW c \in 1..Len(calls)
    PROVE  /\ calls[c].accepted \in Nat /\ calls[c].unmapped \in Nat
           /\ calls[c].duplicate \in Nat /\ Len(calls[c].items) \in Nat
<1>1. calls \in Seq(CallRecords)
    BY DEF TypeInv, TypeOK
<1>2. calls[c] \in CallRecords
    BY <1>1, ElementOfSeq
<1> QED
    BY <1>2 DEF CallRecords

LEMMA CountInit == Init => CountInv
BY DEF Init, CountInv, CallsEnding

\* One more row, with or without a metric.
LEMMA OneMoreRow ==
    ASSUME NEW rows, IsFiniteSet(rows), NEW r, r \notin rows
    PROVE  /\ IsFiniteSet(rows \cup {r})
           /\ Cardinality(rows) \in Nat /\ Cardinality(Unmapped(rows)) \in Nat
           /\ Cardinality(rows \cup {r}) = Cardinality(rows) + 1
           /\ Cardinality(Unmapped(rows \cup {r})) =
                 IF r.metric = NoMetric THEN Cardinality(Unmapped(rows)) + 1
                                        ELSE Cardinality(Unmapped(rows))
<1>1. Unmapped(rows) \subseteq rows
    BY DEF Unmapped
<1>2. IsFiniteSet(Unmapped(rows)) /\ r \notin Unmapped(rows)
    BY <1>1, FS_Subset
<1>3. Unmapped(rows \cup {r}) = IF r.metric = NoMetric THEN Unmapped(rows) \cup {r}
                                                       ELSE Unmapped(rows)
    BY DEF Unmapped
<1> QED
    BY <1>2, <1>3, FS_AddElement, FS_CardinalityType

\* The counts of a call that is not being served stay true.
LEMMA HonestKept ==
    ASSUME TypeInv, KeyInv, OwnerInv, [Next]_vars, NEW c \in 1..Len(calls), Honest(c),
           \A t \in Threads : Serve(t) => call[t] # c
    PROVE  Honest(c)'
<1>1. /\ RowsOf(c)' = {r \in readings' : r.call = c}
      /\ IsFiniteSet(RowsOf(c)')
      /\ Cardinality(RowsOf(c)') = Cardinality(RowsOf(c))
      /\ Cardinality(Unmapped(RowsOf(c)')) <= Cardinality(Unmapped(RowsOf(c)))
      /\ Cardinality(Unmapped(RowsOf(c))) \in Nat /\ Cardinality(Unmapped(RowsOf(c)')) \in Nat
    <2>1. \A t \in Threads : CommitBatch(t) => call[t] # c
        BY DEF Serve
    <2>2. /\ IsFiniteSet(RowsOf(c)) /\ IsFiniteSet(RowsOf(c)')
          /\ Cardinality(RowsOf(c)') = Cardinality(RowsOf(c))
          /\ Cardinality(Unmapped(RowsOf(c)')) <= Cardinality(Unmapped(RowsOf(c)))
        BY <2>1, RowsKept DEF OwnerInv, Honest, Counted
    <2>3. \A rows : IsFiniteSet(rows) => Cardinality(Unmapped(rows)) \in Nat
        <3>1. \A rows : Unmapped(rows) \subseteq rows
            BY DEF Unmapped
        <3> QED
            BY <3>1, FS_Subset, FS_CardinalityType
    <2> QED
        BY <2>2, <2>3 DEF RowsOf
<1>2. /\ calls'[c].accepted = calls[c].accepted /\ calls'[c].unmapped = calls[c].unmapped
      /\ calls'[c].duplicate = calls[c].duplicate /\ calls'[c].items = calls[c].items
    BY OtherRecords DEF OwnerInv
<1>3. calls[c].unmapped \in Nat
    BY RecordNumbers
<1>4. /\ calls[c].accepted = Cardinality(RowsOf(c))
      /\ calls[c].unmapped >= Cardinality(Unmapped(RowsOf(c)))
      /\ calls[c].accepted + calls[c].duplicate = Len(calls[c].items)
    BY DEF Honest, Counted, Looked
<1>5. calls[c].unmapped >= Cardinality(Unmapped(RowsOf(c)'))
    BY <1>1, <1>3, <1>4
<1>6. Unmapped(RowsOf(c))' = Unmapped(RowsOf(c)')
    BY DEF Unmapped
<1> QED
    BY <1>1, <1>2, <1>4, <1>5, <1>6 DEF Honest, Counted, Looked

\* The statements between the arrival of a call and its commit.
LEMMA UnderwayNext ==
    ASSUME TypeInv, KeyInv, OwnerInv, CountInv, [Next]_vars, NEW t \in Threads,
           pc'[t] \in {"lookup", "write"}
    PROVE  Underway(t)'
<1>a. /\ pc \in [Threads -> {"idle", "lookup", "write", "answer",
                             "backfill", "commitMapping", "dead"}]
      /\ call \in [Threads -> Nat] /\ todo \in [Threads -> Seq(Items)]
      /\ staged \in [Threads -> Seq(Ledger!Rows)]
      /\ inserted \in [Threads -> SUBSET Ledger!Rows]
      /\ calls \in Seq(CallRecords) /\ Len(calls) \in Nat
    BY DEF TypeInv, TypeOK
<1>b. Owns(t)
    BY DEF OwnerInv
\* The facts of Underway(t)', one by one.
<1>c. ASSUME NEW c, c = call'[t], NEW rows, rows = Pending(t)', IsFiniteSet(rows),
             calls'[c].accepted = Cardinality(rows),
             calls'[c].unmapped >= Cardinality(Unmapped(rows)),
             calls'[c].accepted + calls'[c].duplicate + Len(todo'[t]) = Len(calls'[c].items),
             todo'[t] # <<>> => inserted'[t] = {}
      PROVE  Underway(t)'
    BY <1>c DEF Underway, Counted, Looked, Unmapped
<1>1. CASE Arrive(t)
    <2>1. /\ pc[t] = "idle" /\ call'[t] = Len(calls) + 1
          /\ UNCHANGED <<inserted, staged>>
        BY <1>1, <1>a DEF Arrive, MayArrive, db
    <2>2. Pending(t)' = {} /\ inserted'[t] = {}
        BY <1>b, <2>1 DEF Owns, Pending
    <2> DEFINE new == calls'[Len(calls) + 1]
    <2>3. /\ new.accepted = 0 /\ new.unmapped = 0 /\ new.duplicate = 0
          /\ todo' = [todo EXCEPT ![t] = new.items]
        BY <1>1, ArrivedRecord
    <2>4. todo'[t] = new.items /\ Len(todo'[t]) \in Nat
        <3>1. todo' \in [Threads -> Seq(Items)]
            BY TypeNext DEF TypeInv, TypeOK
        <3> QED
            BY <1>a, <2>3, <3>1
    <2> HIDE DEF new
    <2>5. Cardinality({}) = 0 /\ IsFiniteSet({}) /\ Unmapped({}) = {}
        BY FS_EmptySet DEF Unmapped
    <2>6. new = calls'[call'[t]]
        BY <2>1 DEF new
    <2>7. new.accepted + new.duplicate + Len(todo'[t]) = Len(new.items)
        BY <2>3, <2>4
    <2>8. new.unmapped >= Cardinality(Unmapped({}))
        BY <2>3, <2>5
    <2> QED
        BY <1>c, <2>2, <2>3, <2>5, <2>6, <2>7, <2>8
<1>2. CASE Aside(t) /\ ~Crash /\ ~Serve(t)
    <2>1. Serving(t) /\ pc'[t] = pc[t] /\ call'[t] = call[t] /\ todo'[t] = todo[t]
          /\ inserted'[t] = inserted[t] /\ Pending(t)' = Pending(t)
        BY <1>2 DEF Aside, Serving, Pending
    <2>2. Underway(t)
        BY <2>1 DEF CountInv
    <2>3. /\ call[t] \in 1..Len(calls)
          /\ \A u \in Threads : Serve(u) => call[u] # call[t]
        BY <1>2, <2>1, AsideOwns
    <2>4. /\ calls'[call[t]].accepted = calls[call[t]].accepted
          /\ calls'[call[t]].unmapped = calls[call[t]].unmapped
          /\ calls'[call[t]].duplicate = calls[call[t]].duplicate
          /\ calls'[call[t]].items = calls[call[t]].items
        BY <2>3, OtherRecords DEF OwnerInv
    <2> QED
        BY <1>c, <2>1, <2>2, <2>4 DEF Underway, Counted, Looked
<1>3. CASE LookupExisting(t) \/ InsertRow(t)
    <2>1. /\ UNCHANGED <<calls, call, todo>> /\ pc[t] \in {"lookup", "write"}
        BY <1>3 DEF LookupExisting, InsertRow, db
    <2>2. Underway(t)
        BY <2>1 DEF CountInv
    <2>3. Pending(t)' = Pending(t) /\ (todo[t] # <<>> => inserted'[t] = inserted[t])
        <3>1. CASE LookupExisting(t)
            BY <3>1 DEF LookupExisting, Pending
        <3>2. CASE InsertRow(t)
            <4>1. /\ staged[t] # <<>> /\ inserted'[t] = inserted[t] \cup {Head(staged[t])}
                  /\ staged'[t] = Tail(staged[t]) /\ todo[t] = <<>>
                BY <1>a, <3>2 DEF InsertRow
            <4> QED
                BY <1>a, <4>1, HeadTailElements DEF Pending
        <3> QED
            BY <1>3, <3>1, <3>2
    <2> QED
        BY <1>c, <2>1, <2>2, <2>3 DEF Underway, Counted, Looked
<1>4. CASE SkipDuplicate(t)
    <2>1. /\ UNCHANGED <<call, inserted, staged>> /\ pc[t] = "write"
          /\ todo[t] # <<>> /\ todo'[t] = Tail(todo[t])
        BY <1>4, <1>a DEF SkipDuplicate
    <2>2. Underway(t)
        BY <2>1 DEF CountInv
    <2>3. LET old == calls[call[t]]
              new == calls'[call[t]]
          IN  /\ new.items = old.items /\ old.accepted \in Nat /\ old.duplicate \in Nat
              /\ new.accepted = old.accepted /\ new.unmapped = old.unmapped
              /\ new.duplicate = old.duplicate + 1
        BY <1>4, ServedRecord
    <2>4. Len(todo'[t]) = Len(todo[t]) - 1 /\ Len(todo[t]) \in Nat
        BY <1>a, <2>1
    <2>5. Pending(t)' = Pending(t)
        BY <2>1 DEF Pending
    <2> QED
        BY <1>c, <2>1, <2>2, <2>3, <2>4, <2>5 DEF Underway, Counted, Looked
<1>5. CASE StageReading(t)
    <2>1. /\ UNCHANGED <<call, inserted>> /\ pc[t] = "write"
          /\ todo[t] # <<>> /\ todo'[t] = Tail(todo[t]) /\ ~IsDuplicate(t, Head(todo[t]))
        BY <1>5, <1>a DEF StageReading
    <2>2. Underway(t)
        BY <2>1 DEF CountInv
    <2> DEFINE old == calls[call[t]]
               new == calls'[call[t]]
    <2>3. PICK m : /\ staged' = [staged EXCEPT ![t] =
                          Append(@, RowOf(Head(todo[t]), m, call[t]))]
                   /\ new.unmapped = IF m = NoMetric THEN old.unmapped + 1
                                                     ELSE old.unmapped
        BY <1>5, ServedRecord
    <2>4. /\ new.items = old.items /\ old.accepted \in Nat /\ old.duplicate \in Nat
          /\ old.unmapped \in Nat /\ new.accepted = old.accepted + 1
          /\ new.duplicate = old.duplicate
        BY <1>5, ServedRecord
    <2> DEFINE row == RowOf(Head(todo[t]), m, call[t])
    <2>5. row.key = EffectiveKey(Head(todo[t])) /\ row.metric = m
        BY DEF RowOf
    <2>6. Elements(staged'[t]) = Elements(staged[t]) \cup {row}
        BY <1>a, <2>3, AppendElements
    <2>7. inserted[t] = {} /\ inserted'[t] = {}
        BY <2>1, <2>2 DEF Underway
    <2>8. row \notin Pending(t)
        BY <2>1, <2>5, <2>7 DEF IsDuplicate, SeenInBatch, Ledger!KeysOf, Pending
    <2>9. Pending(t)' = Pending(t) \cup {row}
        BY <2>6, <2>7 DEF Pending
    <2>10. Len(todo'[t]) = Len(todo[t]) - 1 /\ Len(todo[t]) \in Nat
        BY <1>a, <2>1
    <2> HIDE DEF row, old, new
    <2>11. /\ IsFiniteSet(Pending(t)) /\ old.accepted = Cardinality(Pending(t))
           /\ old.unmapped >= Cardinality(Unmapped(Pending(t)))
           /\ old.accepted + old.duplicate + Len(todo[t]) = Len(old.items)
        BY <2>2 DEF Underway, Counted, Looked, old
    <2>12. /\ IsFiniteSet(Pending(t) \cup {row})
           /\ new.accepted = Cardinality(Pending(t) \cup {row})
           /\ new.unmapped >= Cardinality(Unmapped(Pending(t) \cup {row}))
        <3>1. /\ IsFiniteSet(Pending(t) \cup {row})
              /\ Cardinality(Pending(t) \cup {row}) = Cardinality(Pending(t)) + 1
              /\ Cardinality(Unmapped(Pending(t))) \in Nat
              /\ Cardinality(Unmapped(Pending(t) \cup {row})) =
                    IF m = NoMetric THEN Cardinality(Unmapped(Pending(t))) + 1
                                    ELSE Cardinality(Unmapped(Pending(t)))
            BY <2>5, <2>8, <2>11, OneMoreRow
        <3>2. \A i, j \in Nat : i >= j => i + 1 >= j + 1
            OBVIOUS
        <3> QED
            BY <2>3, <2>4, <2>11, <3>1, <3>2
    <2>13. new.accepted + new.duplicate + Len(todo'[t]) = Len(new.items)
        <3>1. (old.accepted + 1) + old.duplicate + (Len(todo[t]) - 1) = Len(old.items)
            <4>1. /\ old.accepted \in Nat /\ old.duplicate \in Nat /\ Len(todo[t]) \in Nat
                  /\ old.accepted + old.duplicate + Len(todo[t]) = Len(old.items)
                BY <2>4, <2>10, <2>11
            <4>2. \A i, j, k \in Nat : (i + 1) + j + (k - 1) = i + j + k
                OBVIOUS
            <4> QED
                BY <4>1, <4>2, Zenon
        <3>2. Len(new.items) = Len(old.items)
            BY <2>4
        <3> QED
            BY <2>4, <2>10, <3>1, <3>2, Zenon
    <2> QED
        BY <1>c, <2>1, <2>7, <2>9, <2>12, <2>13 DEF new
<1>6. CASE Crash \/ InsertConflict(t) \/ DeadlockVictim(t) \/ CommitBatch(t) \/ Answer(t)
    <2>1. pc'[t] \notin {"lookup", "write"}
        BY <1>6, <1>a DEF Crash, InsertConflict, DeadlockVictim, RollBack, CommitBatch, Answer
    <2> QED
        BY <2>1
<1> QED
    BY <1>1, <1>2, <1>3, <1>4, <1>5, <1>6, ThreadSteps DEF Serve

\* From the commit to the answer.
LEMMA AnswerNext ==
    ASSUME TypeInv, KeyInv, OwnerInv, CountInv, [Next]_vars, NEW t \in Threads,
           pc'[t] = "answer"
    PROVE  Honest(call[t])' 
<1>a. /\ pc \in [Threads -> {"idle", "lookup", "write", "answer",
                             "backfill", "commitMapping", "dead"}]
      /\ todo \in [Threads -> Seq(Items)] /\ inserted \in [Threads -> SUBSET Ledger!Rows]
    BY DEF TypeInv, TypeOK
<1>1. CASE CommitBatch(t)
    <2>1. /\ pc[t] = "write" /\ todo[t] = <<>> /\ staged[t] = <<>>
          /\ readings' = readings \cup inserted[t] /\ UNCHANGED <<calls, call>>
        BY <1>1 DEF CommitBatch
    <2>2. Underway(t) /\ Owns(t)
        BY <2>1 DEF CountInv, OwnerInv
    <2>3. Pending(t) = inserted[t] /\ RowsOf(call[t]) = {}
          /\ \A r \in inserted[t] : r.call = call[t]
        BY <2>1, <2>2, EmptyElements DEF Pending, Owns
    <2>4. RowsOf(call[t])' = inserted[t]
        BY <2>1, <2>3 DEF RowsOf
    <2>5. Looked(call[t]) = Len(calls[call[t]].items)
        <3>1. call[t] \in 1..Len(calls)
            BY <2>1 DEF TypeInv, Busy
        <3>2. Looked(call[t]) \in Nat
            BY <3>1, RecordNumbers DEF Looked
        <3>3. Len(todo[t]) = 0
            BY <2>1
        <3> QED
            BY <2>2, <3>2, <3>3 DEF Underway
    <2> QED
        BY <2>1, <2>2, <2>3, <2>4, <2>5 DEF Underway, Honest, Counted, Looked, Unmapped
<1>2. CASE Aside(t) /\ ~Crash /\ ~Serve(t)
    <2>1. Serving(t) /\ pc[t] = "answer" /\ call'[t] = call[t]
        BY <1>2 DEF Aside, Serving
    <2>2. Honest(call[t])
        BY <2>1 DEF CountInv
    <2>3. /\ call[t] \in 1..Len(calls)
          /\ \A u \in Threads : Serve(u) => call[u] # call[t]
        BY <1>2, <2>1, AsideOwns
    <2>4. ASSUME NEW c, c = call[t] PROVE Honest(c)'
        BY <2>2, <2>3, <2>4, HonestKept
    <2> QED
        BY <2>1, <2>4 DEF Honest, Counted, Looked, RowsOf
<1>3. CASE \/ Crash \/ Arrive(t) \/ LookupExisting(t) \/ SkipDuplicate(t) \/ StageReading(t)
           \/ InsertRow(t) \/ InsertConflict(t) \/ DeadlockVictim(t) \/ Answer(t)
    <2>1. pc'[t] # "answer"
        BY <1>3, <1>a DEF Crash, Arrive, LookupExisting, SkipDuplicate, StageReading, InsertRow,
           InsertConflict, DeadlockVictim, RollBack, Answer
    <2> QED
        BY <2>1
<1> QED
    BY <1>1, <1>2, <1>3, ThreadSteps DEF Serve

LEMMA CountNext == TypeInv /\ KeyInv /\ OwnerInv /\ CountInv /\ [Next]_vars => CountInv'
<1> SUFFICES ASSUME TypeInv, KeyInv, OwnerInv, CountInv, [Next]_vars,
                    NEW c \in CallsEnding({"returned"})'
             PROVE  Honest(c)'
    BY UnderwayNext, AnswerNext DEF CountInv
<1>a. /\ DOMAIN calls = 1..Len(calls) /\ Len(calls) \in Nat
      /\ DOMAIN calls' = 1..Len(calls') /\ Len(calls') \in Nat
    BY TypeNext DEF TypeInv, TypeOK
<1>b. c \in 1..Len(calls') /\ calls'[c].outcome = "returned"
    BY <1>a DEF CallsEnding
<1>1. CASE c \notin 1..Len(calls)
    <2>1. DropMessage \/ \E t \in Threads : Arrive(t) \/ ArriveAlien(t)
        <3>1. Len(calls') # Len(calls)
            BY <1>1, <1>b
        <3>2. ASSUME NEW t \in Threads, Serve(t) PROVE FALSE
            BY <3>1, <3>2, ServedRecord DEF Serve, LookupExisting, InsertRow, CommitBatch
        <3>3. ~Crash
            BY <3>1, LostRecord
        <3> QED
            BY <3>1, <3>2, <3>3 DEF Next, InsertMapping, Backfill, CommitMapping, vars
    <2>2. /\ c = Len(calls) + 1 /\ calls'[c].accepted = 0 /\ calls'[c].unmapped = 0
          /\ calls'[c].duplicate = 0 /\ calls'[c].items = <<>>
        <3>1. /\ Len(calls') = Len(calls) + 1
              /\ LET new == calls'[Len(calls) + 1]
                 IN  /\ new.accepted = 0 /\ new.unmapped = 0 /\ new.duplicate = 0
                     /\ new.outcome = "returned" => new.items = <<>>
            BY <2>1, ArrivedRecord
        <3>2. c = Len(calls) + 1
            BY <1>a, <1>b, <1>1, <3>1
        <3> QED
            BY <1>b, <3>1, <3>2
    <2>3. readings' = readings
        BY <2>1 DEF DropMessage, Arrive, ArriveAlien, db
    <2>4. RowsOf(c)' = {}
        BY <1>a, <2>2, <2>3 DEF OwnerInv, RowsOf
    <2>5. Cardinality({}) = 0 /\ IsFiniteSet({}) /\ Unmapped({}) = {}
        BY FS_EmptySet DEF Unmapped
    <2>6. Unmapped(RowsOf(c))' = {}
        BY <2>4 DEF Unmapped
    <2>7. Len(calls'[c].items) = 0
        BY <2>2
    <2>8. Counted(c, RowsOf(c))'
        <3>1. /\ IsFiniteSet(RowsOf(c))' /\ calls'[c].accepted = Cardinality(RowsOf(c))'
              /\ Cardinality(Unmapped(RowsOf(c)))' = 0
            BY <2>2, <2>4, <2>5, <2>6
        <3>2. calls'[c].unmapped >= Cardinality(Unmapped(RowsOf(c)))'
            BY <2>2, <3>1
        <3> QED
            BY <3>1, <3>2 DEF Counted
    <2> QED
        BY <2>2, <2>7, <2>8 DEF Honest, Looked
<1>2. ASSUME c \in 1..Len(calls), NEW t \in Threads, Serve(t), call[t] = c PROVE Honest(c)'
    <2>1. Serving(t)
        BY <1>2 DEF Serving, Serve, LookupExisting, SkipDuplicate, StageReading, InsertRow,
           InsertConflict, DeadlockVictim, WaitsFor, CommitBatch, Answer
    <2>2. calls[c].outcome = "running"
        BY <1>2, <2>1 DEF OwnerInv, Owns
    <2>3. Answer(t)
        BY <1>b, <1>2, <2>2, ServedRecord DEF Serve, LookupExisting, InsertRow, CommitBatch
    <2>4. Honest(c) /\ readings' = readings
        BY <1>2, <2>3 DEF CountInv, Answer, db
    <2>5. /\ calls'[c].accepted = calls[c].accepted /\ calls'[c].unmapped = calls[c].unmapped
          /\ calls'[c].duplicate = calls[c].duplicate /\ calls'[c].items = calls[c].items
        BY <1>2, <2>3, ServedRecord
    <2> QED
        BY <2>4, <2>5 DEF Honest, Counted, Looked, RowsOf, Unmapped
<1>3. CASE c \in 1..Len(calls) /\ \A t \in Threads : Serve(t) => call[t] # c
    <2>1. c \in CallsEnding({"returned"})
        BY <1>a, <1>b, <1>3, OtherRecords DEF OwnerInv, CallsEnding
    <2> QED
        BY <1>3, <2>1, HonestKept DEF CountInv
<1> QED
    BY <1>1, <1>2, <1>3

\* What a response counts is what the call did to the database.
THEOREM CountsAreHonest == Spec => []CountsHonest
<1>1. Init => CountInv
    BY CountInit
<1>2. TypeInv /\ KeyInv /\ OwnerInv /\ CountInv /\ [Next]_vars => CountInv'
    BY CountNext
<1>3. CountInv => CountsHonest
    BY DEF CountInv, CountsHonest, Honest, Counted, Looked, Unmapped
<1> QED
    BY <1>1, <1>2, <1>3, OwnerCorrect, PTL DEF Spec
=============================================================================
