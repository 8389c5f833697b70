----------------------- MODULE FaultAttributionProofs -----------------------
(***************************************************************************)
(* Theorems about FaultAttribution, for any requests, models, scales and   *)
(* bounds: a process loads a model once, the model that scores a buffer is *)
(* the one whose metadata the buffer was fetched for, and a verdict is     *)
(* what the table of predictions says.                                     *)
(***************************************************************************)
EXTENDS FaultAttribution, TLAPS, WellFoundedInduction

\* A set of natural numbers that is not empty has a least element.
LEMMA LeastOf ==
    ASSUME NEW T \in SUBSET Nat, T # {}
    PROVE  \E x \in T : \A y \in T : x <= y
<1> DEFINE R == OpToRel(<, Nat)
<1>1. IsWellFoundedOn(R, Nat)
  BY NatLessThanWellFounded
<1>2. \E x \in T : \A y \in T : ~ (<<y, x>> \in R)
  <2> HIDE DEF R
  <2> QED  BY <1>1, WFMin
<1>3. \A x, y \in T : y < x => <<y, x>> \in R
  BY DEF OpToRel
<1>4. PICK x \in T : \A y \in T : ~ (y < x)
  BY <1>2, <1>3
<1>5. \A y \in T : x \in Nat /\ y \in Nat
  OBVIOUS
<1> QED  BY <1>4, <1>5
-----------------------------------------------------------------------------
(* The verdict.                                                            *)

\* max() finds one: some candidate is the first of the most probable.
LEMMA FirstGreatestExists ==
    ASSUME NEW rs, NEW C \in SUBSET Nat, C # {},
           \A i \in C : rs[i].prob \in Probabilities
    PROVE  LET w == FirstGreatest(rs, C)
           IN  w \in C /\ \A j \in C : rs[j].prob <= rs[w].prob
<1> USE ProbabilitiesAssumption DEF Probabilities
<1> DEFINE Gaps == {Certain - rs[i].prob : i \in C}
<1>1. Gaps \in SUBSET Nat /\ Gaps # {}
  <2>1. \A p \in 0..Certain : Certain - p \in Nat
    OBVIOUS
  <2> QED  BY <2>1
<1>2. PICK g \in Gaps : \A h \in Gaps : g <= h
  BY <1>1, LeastOf
<1>3. PICK k \in C : g = Certain - rs[k].prob
  BY <1>2
<1>4. \A j \in C : rs[j].prob <= rs[k].prob
  <2>1. SUFFICES ASSUME NEW j \in C PROVE rs[j].prob <= rs[k].prob
    OBVIOUS
  <2>2. Certain - rs[k].prob <= Certain - rs[j].prob
    BY <1>2, <1>3
  <2>3. rs[j].prob \in 0..Certain /\ rs[k].prob \in 0..Certain
    OBVIOUS
  <2> QED  BY <2>2, <2>3
<1> DEFINE Ties == {i \in C : rs[i].prob = rs[k].prob}
<1>5. Ties \in SUBSET Nat /\ Ties # {}
  OBVIOUS
<1>6. PICK i \in Ties : \A j \in Ties : i <= j
  BY <1>5, LeastOf
<1>7. i \in C /\ \A j \in C : /\ rs[j].prob <= rs[i].prob
                              /\ rs[j].prob = rs[i].prob => i <= j
  BY <1>4, <1>6
<1> QED
  BY <1>7 DEF FirstGreatest

\* What a request has found by the time of its verdict.
Result == [at: Nat, prob: Probabilities]

\* The verdict is none, or the index of a fault that no fault exceeds.
LEMMA WinnerIsRight ==
    ASSUME NEW rs \in Seq(Result)
    PROVE  LET w == Winner(rs)
           IN  IF FaultCandidates(rs) = {} THEN w = None
               ELSE /\ w \in FaultCandidates(rs)
                    /\ \A j \in FaultCandidates(rs) : rs[j].prob <= rs[w].prob
<1> DEFINE C == FaultCandidates(rs)
<1>1. C \in SUBSET Nat /\ \A i \in C : rs[i].prob \in Probabilities
  <2>1. \A i \in 1..Len(rs) : i \in Nat /\ rs[i] \in Result
    OBVIOUS
  <2>2. \A x \in Result : x.prob \in Probabilities
    BY DEF Result
  <2> QED  BY <2>1, <2>2 DEF FaultCandidates
<1>2. CASE C = {}
  BY <1>2 DEF Winner
<1>3. CASE C # {}
  <2>1. Winner(rs) = FirstGreatest(rs, C)
    BY <1>3 DEF Winner
  <2> HIDE DEF C
  <2>2. QED  BY <1>1, <1>3, <2>1, FirstGreatestExists DEF C
<1> QED  BY <1>2, <1>3
-----------------------------------------------------------------------------
(* Types.                                                                  *)

\* TypeOK made inductive: a loop is at one of its names, and a thread that
\* reads a metadata file has read the model.
TypeInv ==
    /\ TypeOK
    /\ \A r \in Requests : at[r] \in 1..Len(Names[r])
    /\ \A r \in Requests : pc[r] = "metadata" => pair[r].model \in Versions

LEMMA NamesTyped ==
    ASSUME NEW r \in Requests
    PROVE  /\ Names[r] \in Seq(Models)
           /\ Len(Names[r]) \in Nat \ {0}
           /\ 1 \in 1..Len(Names[r])
           /\ \A i \in 1..Len(Names[r]) : i \in Nat /\ Names[r][i] \in Models
<1>1. Names[r] \in Seq(Models) /\ Names[r] # <<>>
  BY RequestsAssumption
<1> QED  BY <1>1

LEMMA GotoTyped ==
    ASSUME NEW r \in Requests, NEW label, label \in Labels,
           pc \in [Requests -> Labels], Goto(r, label)
    PROVE  /\ pc' \in [Requests -> Labels]
           /\ pc'[r] = label
           /\ \A q \in Requests \ {r} : pc'[q] = pc[q]
BY DEF Goto

\* Where a loop goes on: what it does to the positions and the labels.
LEMMA NextNameTyped ==
    ASSUME NEW r \in Requests, TypeInv, NextName(r)
    PROVE  /\ pc' \in [Requests -> Labels]
           /\ \A q \in Requests \ {r} : pc'[q] = pc[q]
           /\ \A q \in Requests \ {r} : at'[q] = at[q]
           /\ at' \in [Requests -> Nat]
           /\ \A q \in Requests : at'[q] \in 1..Len(Names[q])
           /\ \/ /\ at[r] < Len(Names[r])
                 /\ at'[r] = at[r] + 1
                 /\ pc'[r] = "exists"
              \/ /\ at[r] = Len(Names[r])
                 /\ at'[r] = at[r]
                 /\ pc'[r] = "verdict"
<1> USE DEF TypeInv, TypeOK, Labels, Ended
<1>1. at \in [Requests -> Nat] /\ pc \in [Requests -> Labels]
  OBVIOUS
<1>2. at[r] \in 1..Len(Names[r]) /\ Len(Names[r]) \in Nat
  BY NamesTyped
<1>3. CASE at[r] < Len(Names[r])
  <2>1. at' = [at EXCEPT ![r] = @ + 1] /\ Goto(r, "exists")
    BY <1>3 DEF NextName
  <2>2. at[r] + 1 \in 1..Len(Names[r])
    BY <1>2, <1>3
  <2> QED  BY <1>1, <1>3, <2>1, <2>2 DEF Goto
<1>4. CASE ~(at[r] < Len(Names[r]))
  <2>1. at' = at /\ Goto(r, "verdict")
    BY <1>4 DEF NextName
  <2>2. at[r] = Len(Names[r])
    BY <1>2, <1>4
  <2> QED  BY <1>1, <2>1, <2>2 DEF Goto
<1> QED  BY <1>3, <1>4

LEMMA RefuseTyped ==
    ASSUME NEW r \in Requests, TypeInv, Refuse(r)
    PROVE  /\ pc' \in [Requests -> Labels]
           /\ \A q \in Requests \ {r} : pc'[q] = pc[q]
           /\ \A q \in Requests \ {r} : at'[q] = at[q]
           /\ \A q \in Requests \ {r} : skipped'[q] = skipped[q]
           /\ at' \in [Requests -> Nat]
           /\ skipped' \in [Requests -> SUBSET Nat]
           /\ \A q \in Requests : at'[q] \in 1..Len(Names[q])
           /\ \/ /\ Kind[r] = "attribute"
                 /\ NextName(r)
                 /\ skipped'[r] = skipped[r] \cup {at[r]}
                 /\ pc'[r] \in {"exists", "verdict"}
              \/ /\ Kind[r] # "attribute"
                 /\ pc'[r] = "refused"
                 /\ UNCHANGED <<at, skipped>>
<1>1. at \in [Requests -> Nat] /\ pc \in [Requests -> Labels]
      /\ skipped \in [Requests -> SUBSET Nat]
  BY DEF TypeInv, TypeOK
<1>2. CASE Kind[r] = "attribute"
  <2>1. NextName(r) /\ skipped' = [skipped EXCEPT ![r] = @ \cup {at[r]}]
    BY <1>2 DEF Refuse
  <2> QED  BY <1>1, <1>2, <2>1, NextNameTyped
<1>3. CASE Kind[r] # "attribute"
  <2>1. Goto(r, "refused") /\ UNCHANGED <<skipped, at>>
    BY <1>3 DEF Refuse
  <2> QED  BY <1>1, <1>3, <2>1, GotoTyped DEF TypeInv, Labels, Ended
<1> QED  BY <1>2, <1>3
LEMMA InitTyped == Init => TypeInv
<1> SUFFICES ASSUME Init PROVE TypeInv
  OBVIOUS
<1>1. \A r \in Requests : 1 \in 1..Len(Names[r])
  BY NamesTyped
<1> QED
  BY <1>1 DEF Init, TypeInv, TypeOK, Labels, Ended, NoPair, Pairs, Versions

\* Only a thread that loads changes the cache or takes the lock.
LEMMA LoadTyped ==
    ASSUME TypeInv, NEW r \in Requests,
           LookUp(r) \/ ReadModel(r) \/ ReadMetadata(r) \/ LoadFails(r)
    PROVE  TypeInv'
<1> USE DEF TypeInv, TypeOK, Labels, Ended, files, shared, progress, findings
<1> DEFINE m == Name(r)
<1>1. m \in Models
  BY NamesTyped DEF Name
<1>2. cache[m] \in Pairs \cup {NoPair} /\ disk[m] \in Pairs
  BY <1>1
<1>3. \A x \in Pairs \cup {NoPair} :
         x \in [model: Versions \cup {None}, metadata: Versions \cup {None}]
  BY DEF Pairs, NoPair
<1> HIDE DEF m
<1>4. CASE LookUp(r)
  <2>1. pair' \in [Requests -> [model: Versions \cup {None},
                                metadata: Versions \cup {None}]]
    BY <1>2, <1>3, <1>4 DEF LookUp, m
  <2>2. /\ pc' \in [Requests -> Labels]
        /\ \A q \in Requests : pc'[q] = "metadata" => /\ pc[q] = "metadata"
                                                      /\ pair'[q] = pair[q]
    BY <1>4 DEF LookUp, Loaded, Goto
  <2>3. lock' \in Requests \cup {None}
    BY <1>4 DEF LookUp
  <2> QED  BY <1>4, <2>1, <2>2, <2>3 DEF LookUp
<1>5. CASE ReadModel(r)
  <2>1. disk[m].model \in Versions
    BY <1>2 DEF Pairs
  <2>2. pair' = [pair EXCEPT ![r] = [model |-> disk[m].model, metadata |-> None]]
    BY <1>5 DEF ReadModel, m
  <2>3. pc' = [pc EXCEPT ![r] = "metadata"]
    BY <1>5 DEF ReadModel, Goto
  <2>4. [model |-> disk[m].model, metadata |-> None] \in
           [model: Versions \cup {None}, metadata: Versions \cup {None}]
    BY <2>1
  <2>5. pair' \in [Requests -> [model: Versions \cup {None},
                                metadata: Versions \cup {None}]]
    BY <2>2, <2>4
  <2>6. pc' \in [Requests -> Labels]
    BY <2>3
  <2>7. \A q \in Requests : pc'[q] = "metadata" => pair'[q].model \in Versions
    BY <2>1, <2>2, <2>3
  <2>8. overlapped' \in [Models -> BOOLEAN]
    BY <1>5 DEF ReadModel, BeingSaved
  <2> QED  BY <1>5, <2>5, <2>6, <2>7, <2>8 DEF ReadModel
<1>6. CASE ReadMetadata(r)
  <2> DEFINE read == [pair[r] EXCEPT !.metadata = disk[m].metadata]
  <2>1. pair[r].model \in Versions /\ disk[m].metadata \in Versions
    BY <1>2, <1>6 DEF ReadMetadata, Pairs
  <2>2. read \in Pairs
    BY <2>1 DEF Pairs
  <2>3. pair' = [pair EXCEPT ![r] = read] /\ cache' = [cache EXCEPT ![m] = read]
    BY <1>6 DEF ReadMetadata, m
  <2>4. pc' \in [Requests -> Labels] /\ (\A q \in Requests \ {r} : pc'[q] = pc[q])
        /\ pc'[r] # "metadata"
    BY <1>6 DEF ReadMetadata, Loaded, Goto
  <2> HIDE DEF read
  <2>5. pair' \in [Requests -> [model: Versions \cup {None},
                                metadata: Versions \cup {None}]]
    BY <1>3, <2>2, <2>3
  <2>6. \A q \in Requests : pc'[q] = "metadata" => pair'[q].model \in Versions
    BY <2>3, <2>4
  <2>7. cache' \in [Models -> Pairs \cup {NoPair}]
    BY <2>2, <2>3
  <2>8. loads' \in [Models -> Nat] /\ lock' = None
    <3>1. loads' = [loads EXCEPT ![m] = @ + 1] /\ lock' = None
      BY <1>6 DEF ReadMetadata, m
    <3> QED  BY <1>1, <3>1
  <2> QED  BY <1>6, <2>4, <2>5, <2>6, <2>7, <2>8 DEF ReadMetadata
<1>7. CASE LoadFails(r)
  BY <1>7 DEF LoadFails, Goto
<1> QED  BY <1>4, <1>5, <1>6, <1>7
LEMMA CheckTyped ==
    ASSUME TypeInv, NEW r \in Requests,
           FindMetadata(r) \/ CheckMetrics(r) \/ FetchFails(r)
    PROVE  TypeInv'
<1>1. CASE FindMetadata(r)
  <2>1. CASE Name(r) \in Saved
    BY <1>1, <2>1, GotoTyped DEF FindMetadata, Goto, TypeInv, TypeOK, Labels,
                                 Ended, files, shared
  <2>2. CASE Name(r) \notin Saved
    <3>1. Refuse(r) /\ UNCHANGED stage
      BY <1>1, <2>2 DEF FindMetadata
    <3>2. \A q \in Requests : pc'[q] = "metadata" => pc[q] = "metadata"
      BY <3>1, RefuseTyped
    <3> QED  BY <1>1, <3>1, <3>2, RefuseTyped DEF FindMetadata, TypeInv, TypeOK,
                                                  files, shared
  <2> QED  BY <2>1, <2>2
<1>2. CASE CheckMetrics(r)
  <2>1. CASE Name(r) \in Complete
    BY <1>2, <2>1 DEF CheckMetrics, Goto, TypeInv, TypeOK, Labels, Ended, files,
                      shared
  <2>2. CASE Name(r) \notin Complete
    <3>1. Refuse(r)
      BY <1>2, <2>2 DEF CheckMetrics
    <3>2. \A q \in Requests : pc'[q] = "metadata" => pc[q] = "metadata"
      BY <3>1, RefuseTyped
    <3> QED  BY <1>2, <3>1, <3>2, RefuseTyped DEF CheckMetrics, TypeInv, TypeOK,
                                                  files, shared
  <2> QED  BY <2>1, <2>2
<1>3. CASE FetchFails(r)
  <2>1. Refuse(r)
    BY <1>3 DEF FetchFails
  <2>2. \A q \in Requests : pc'[q] = "metadata" => pc[q] = "metadata"
    BY <2>1, RefuseTyped
  <2> QED  BY <1>3, <2>1, <2>2, RefuseTyped DEF FetchFails, TypeInv, TypeOK,
                                                files, shared
<1> QED  BY <1>1, <1>2, <1>3

\* What a score leaves behind: the row it records, and where it goes on.
LEMMA RowTyped ==
    ASSUME TypeInv, NEW r \in Requests, NEW prob \in Probabilities \cup {None}
    PROVE  /\ Row(r, prob) \in [request: Requests, at: Nat,
                                prob: Probabilities \cup {None}]
           /\ prob \in Probabilities => [at |-> at[r], prob |-> prob] \in Result
<1>1. at[r] \in Nat
  BY DEF TypeInv, TypeOK
<1> QED  BY <1>1 DEF Row, Result

LEMMA ScoreTyped ==
    ASSUME TypeInv, NEW r \in Requests,
           Classify(r) \/ Detect(r) \/ Explain(r) \/ ScoreFails(r)
    PROVE  TypeInv'
<1>1. CASE Classify(r)
  <2>1. PICK prob \in Probabilities :
           /\ predictions' = predictions \cup {Row(r, prob)}
           /\ results' = [results EXCEPT ![r] = Append(@, [at |-> at[r], prob |-> prob])]
    BY <1>1 DEF Classify
  <2>2. predictions' \subseteq
           [request: Requests, at: Nat, prob: Probabilities \cup {None}]
    <3>1. Row(r, prob) \in [request: Requests, at: Nat,
                            prob: Probabilities \cup {None}]
      BY RowTyped
    <3> QED  BY <2>1, <3>1 DEF TypeInv, TypeOK
  <2>3. results' \in [Requests -> Seq(Result)]
    <3>1. results \in [Requests -> Seq(Result)]
      BY DEF TypeInv, TypeOK, Result
    <3>2. [at |-> at[r], prob |-> prob] \in Result
      BY RowTyped
    <3> QED  BY <2>1, <3>1, <3>2
  <2>4. /\ pc' \in [Requests -> Labels]
        /\ at' \in [Requests -> Nat]
        /\ \A q \in Requests : at'[q] \in 1..Len(Names[q])
        /\ \A q \in Requests : pc'[q] = "metadata" => pc[q] = "metadata"
    <3>1. CASE Kind[r] = "attribute"
      BY <1>1, <3>1, NextNameTyped DEF Classify
    <3>2. CASE Kind[r] # "attribute"
      <4>1. Goto(r, "answered") /\ UNCHANGED at
        BY <1>1, <3>2 DEF Classify
      <4> QED  BY <4>1 DEF Goto, TypeInv, TypeOK, Labels, Ended
    <3> QED  BY <3>1, <3>2
  <2> QED  BY <1>1, <2>2, <2>3, <2>4 DEF Classify, TypeInv, TypeOK, Result, files,
                                         shared
<1>2. CASE Detect(r)
  <2>1. predictions' \subseteq
           [request: Requests, at: Nat, prob: Probabilities \cup {None}]
    <3>1. predictions' = predictions \cup {Row(r, None)}
      BY <1>2 DEF Detect
    <3>2. Row(r, None) \in [request: Requests, at: Nat,
                            prob: Probabilities \cup {None}]
      BY RowTyped
    <3> QED  BY <3>1, <3>2 DEF TypeInv, TypeOK
  <2>2. /\ pc' \in [Requests -> Labels]
        /\ at' \in [Requests -> Nat]
        /\ skipped' \in [Requests -> SUBSET Nat]
        /\ \A q \in Requests : at'[q] \in 1..Len(Names[q])
        /\ \A q \in Requests : pc'[q] = "metadata" => pc[q] = "metadata"
    <3>1. CASE Kind[r] = "attribute"
      BY <1>2, <3>1, RefuseTyped DEF Detect
    <3>2. CASE Kind[r] # "attribute"
      <4>1. Goto(r, "answered") /\ UNCHANGED <<at, skipped>>
        BY <1>2, <3>2 DEF Detect
      <4> QED  BY <4>1 DEF Goto, TypeInv, TypeOK, Labels, Ended
    <3> QED  BY <3>1, <3>2
  <2> QED  BY <1>2, <2>1, <2>2 DEF Detect, TypeInv, TypeOK, files, shared
<1>3. CASE Explain(r) \/ ScoreFails(r)
  BY <1>3 DEF Explain, ScoreFails, Goto, TypeInv, TypeOK, Labels, Ended, files,
              shared, progress, findings
<1> QED  BY <1>1, <1>2, <1>3

LEMMA OtherTyped ==
    ASSUME TypeInv, NEW r \in Requests, Begin(r) \/ Fetch(r) \/ Attribute(r)
    PROVE  TypeInv'
<1>1. CASE Begin(r)
  BY <1>1 DEF Begin, Goto, TypeInv, TypeOK, Labels, Ended, files, shared, progress,
              findings
<1>2. CASE Fetch(r)
  <2>1. pair[r] \in [model: Versions \cup {None}, metadata: Versions \cup {None}]
    BY DEF TypeInv, TypeOK
  <2> QED  BY <1>2, <2>1 DEF Fetch, Goto, TypeInv, TypeOK, Labels, Ended, files,
                             shared, findings
<1>3. CASE Attribute(r)
  <2>1. results[r] \in Seq(Result)
    BY DEF TypeInv, TypeOK, Result
  <2>2. Winner(results[r]) \in Nat \cup {None}
    BY <2>1, WinnerIsRight DEF FaultCandidates
  <2>3. winner' \in [Requests -> Nat \cup {None}]
    BY <1>3, <2>2 DEF Attribute, TypeInv, TypeOK
  <2> QED  BY <1>3, <2>3 DEF Attribute, Goto, TypeInv, TypeOK, Labels, Ended, files,
                             shared, progress
<1> QED  BY <1>1, <1>2, <1>3
LEMMA EnvironmentTyped ==
    ASSUME TypeInv,
           (\E m \in Retrained : SaveModel(m) \/ SaveMetadata(m)) \/ Restart
    PROVE  TypeInv'
<1>1. CASE \E m \in Retrained : SaveModel(m) \/ SaveMetadata(m)
  <2>1. PICK m \in Retrained : SaveModel(m) \/ SaveMetadata(m)
    BY <1>1
  <2>2. m \in Models /\ disk \in [Models -> Pairs] /\ disk[m] \in Pairs
    BY BoundsAssumption DEF TypeInv, TypeOK
  <2>3. disk' \in [Models -> Pairs]
    BY <2>1, <2>2 DEF SaveModel, SaveMetadata, Pairs, Versions
  <2>4. overlapped' \in [Models -> BOOLEAN]
    BY <2>1 DEF SaveModel, SaveMetadata, shared, TypeInv, TypeOK
  <2> QED  BY <2>1, <2>3, <2>4 DEF SaveModel, SaveMetadata, TypeInv, TypeOK, shared,
                             progress, findings
<1>2. CASE Restart
  <2>1. \A r \in Requests : 1 \in 1..Len(Names[r])
    BY NamesTyped
  <2>2. NoPair \in [model: Versions \cup {None}, metadata: Versions \cup {None}]
    BY DEF NoPair
  <2>3. /\ cache' = [m \in Models |-> NoPair]
        /\ loads' = [m \in Models |-> 0]
        /\ overlapped' = [m \in Models |-> FALSE]
        /\ pc' \in [Requests -> Labels]
        /\ \A r \in Requests : pc'[r] # "metadata"
    BY <1>2 DEF Restart, TypeInv, TypeOK, Labels, Ended
  <2>4. /\ at' \in [Requests -> Nat]
        /\ \A r \in Requests : at'[r] \in 1..Len(Names[r])
        /\ stage' \in [Requests -> {"metrics", "score"}]
    BY <1>2, <2>1 DEF Restart, TypeInv, TypeOK
  <2>5. /\ pair' \in [Requests -> [model: Versions \cup {None},
                                   metadata: Versions \cup {None}]]
        /\ buffer' \in [Requests -> [model: Versions \cup {None},
                                     metadata: Versions \cup {None}]]
    BY <1>2, <2>2 DEF Restart, TypeInv, TypeOK
  <2>6. /\ results' \in [Requests -> Seq([at: Nat, prob: Probabilities])]
        /\ skipped' \in [Requests -> SUBSET Nat]
        /\ winner' \in [Requests -> Nat \cup {None}]
    <3> DEFINE Found == Seq([at: Nat, prob: Probabilities])
    <3>1. <<>> \in Found
      OBVIOUS
    <3>2. results \in [Requests -> Found]
      BY DEF TypeInv, TypeOK
    <3> HIDE DEF Found
    <3>3. results' \in [Requests -> Found]
      BY <1>2, <3>1, <3>2 DEF Restart
    <3>4. skipped' \in [Requests -> SUBSET Nat] /\ winner' \in [Requests -> Nat \cup {None}]
      BY <1>2 DEF Restart, TypeInv, TypeOK
    <3> QED  BY <3>3, <3>4 DEF Found
  <2>7. restarts' \in Nat /\ lock' = None /\ UNCHANGED <<disk, predictions>>
    BY <1>2 DEF Restart, TypeInv, TypeOK, files
  <2> QED  BY <2>3, <2>4, <2>5, <2>6, <2>7 DEF TypeInv, TypeOK
<1> QED  BY <1>1, <1>2

LEMMA NextTyped == TypeInv /\ [Next]_vars => TypeInv'
<1> SUFFICES ASSUME TypeInv, [Next]_vars PROVE TypeInv'
  OBVIOUS
<1>1. CASE UNCHANGED vars
  BY <1>1 DEF vars, files, shared, progress, findings, TypeInv, TypeOK
<1>2. CASE Next
  BY <1>2, LoadTyped, CheckTyped, ScoreTyped, OtherTyped, EnvironmentTyped
     DEF Next, Serve
<1> QED  BY <1>1, <1>2

\* Every reachable state is well typed, and no loop runs past its names.
THEOREM TypesHold == Spec => []TypeOK
<1>1. Spec => []TypeInv
  BY InitTyped, NextTyped, PTL DEF Spec
<1>2. TypeInv => TypeOK
  BY DEF TypeInv
<1> QED  BY <1>1, <1>2, PTL
-----------------------------------------------------------------------------
(* Loading.                                                                *)

Loading == {"model", "metadata"}

\* A request that loads holds the lock, for its first use of the model, and the
\* model is not cached; no save is under way that has not been noted; one that
\* has the pair for the telemetry has what is cached; one that comes back from
\* the telemetry finds what it had.
RequestCached(r) ==
    /\ pc[r] \in Loading =>
         lock = r /\ stage[r] = "metrics" /\ cache[Name(r)] = NoPair
    /\ pc[r] = "metadata" /\ ~overlapped[Name(r)] =>
         /\ pair[r].model = disk[Name(r)].model
         /\ ~BeingSaved(Name(r))
    /\ pc[r] \in {"metrics", "fetch"} =>
         cache[Name(r)] # NoPair /\ pair[r] = cache[Name(r)]
    /\ pc[r] = "lock" /\ stage[r] = "score" =>
         /\ cache[Name(r)] # NoPair
         /\ buffer[r] = cache[Name(r)]
    /\ pc[r] = "score" =>
         /\ cache[Name(r)] # NoPair
         /\ pair[r] = cache[Name(r)]
         /\ buffer[r] = pair[r]

\* What is known of a model: it is loaded once, and is cached with its own
\* metadata unless it was being saved meanwhile.
ModelCached(m) ==
    /\ loads[m] <= 1
    /\ cache[m] = NoPair => loads[m] = 0
    /\ cache[m] # NoPair /\ ~overlapped[m] => cache[m].model = cache[m].metadata

\* LoadedOnce and BufferFitsModel made inductive: nothing but a restart, which
\* ends every request, removes a model from the cache.
CacheInv ==
    /\ \A m \in Models : ModelCached(m)
    /\ \A r \in Requests : RequestCached(r)

LEMMA InitCached == Init => CacheInv
BY DEF Init, CacheInv, RequestCached, ModelCached, Loading, NoPair

\* A request that changes neither the cache nor the lock, and goes nowhere that
\* CacheInv says something about, preserves it.
LEMMA QuietStepCached ==
    ASSUME TypeInv, CacheInv, NEW r \in Requests,
           UNCHANGED <<disk, cache, lock, loads, overlapped>>,
           UNCHANGED <<pair, buffer>>,
           \A q \in Requests \ {r} : /\ pc'[q] = pc[q]
                                     /\ at'[q] = at[q]
                                     /\ stage'[q] = stage[q],
           \/ pc'[r] \in Ended \cup {"exists", "verdict"}
           \/ pc'[r] = "lock" /\ stage'[r] = "metrics"
           \/ pc[r] = "metrics" /\ pc'[r] = "fetch" /\ UNCHANGED <<at, stage>>
    PROVE  CacheInv'
<1>1. \A q \in Requests \ {r} : Name(q)' = Name(q)
  BY DEF Name
<1>2. pc[r] = "metrics" /\ pc'[r] = "fetch" /\ UNCHANGED at => Name(r)' = Name(r)
  BY DEF Name
<1>3. ASSUME NEW q \in Requests \ {r} PROVE RequestCached(q)'
  BY <1>1, <1>3 DEF CacheInv, RequestCached, BeingSaved
<1>4. RequestCached(r)'
  BY <1>2 DEF Loading, Ended, CacheInv, RequestCached
<1>5. \A m \in Models : ModelCached(m)'
  BY DEF CacheInv, ModelCached
<1> QED  BY <1>3, <1>4, <1>5 DEF CacheInv

LEMMA HandlerCached ==
    ASSUME TypeInv, CacheInv, NEW r \in Requests,
           \/ Begin(r) \/ FindMetadata(r) \/ CheckMetrics(r) \/ FetchFails(r)
           \/ Classify(r) \/ Detect(r) \/ Explain(r) \/ ScoreFails(r) \/ Attribute(r)
    PROVE  CacheInv'
<1> USE DEF files, shared, progress, Ended
<1>1. /\ UNCHANGED <<disk, cache, lock, loads, overlapped>>
      /\ UNCHANGED <<pair, buffer>>
  BY DEF Begin, FindMetadata, CheckMetrics, FetchFails, Classify, Detect, Explain,
         ScoreFails, Attribute
<1>2. /\ pc \in [Requests -> Labels]
      /\ stage \in [Requests -> {"metrics", "score"}]
  BY DEF TypeInv, TypeOK
<1> DEFINE Elsewhere == \A q \in Requests \ {r} : /\ pc'[q] = pc[q]
                                                  /\ at'[q] = at[q]
                                                  /\ stage'[q] = stage[q]
           There == \/ pc'[r] \in Ended \cup {"exists", "verdict"}
                    \/ pc'[r] = "lock" /\ stage'[r] = "metrics"
                    \/ pc[r] = "metrics" /\ pc'[r] = "fetch" /\ UNCHANGED <<at, stage>>
<1>3. ASSUME Refuse(r), UNCHANGED stage PROVE Elsewhere /\ There
  BY <1>3, RefuseTyped
<1>4. CASE FindMetadata(r)
  <2>1. CASE Name(r) \in Saved
    BY <1>1, <1>2, <1>4, <2>1, QuietStepCached DEF FindMetadata, Goto
  <2>2. CASE Name(r) \notin Saved
    BY <1>1, <1>3, <1>4, <2>2, QuietStepCached DEF FindMetadata
  <2> QED  BY <2>1, <2>2
<1>5. CASE CheckMetrics(r)
  <2>1. CASE Name(r) \in Complete
    BY <1>1, <1>2, <1>5, <2>1, QuietStepCached DEF CheckMetrics, Goto
  <2>2. CASE Name(r) \notin Complete
    BY <1>1, <1>3, <1>5, <2>2, QuietStepCached DEF CheckMetrics
  <2> QED  BY <2>1, <2>2
<1>6. CASE FetchFails(r)
  BY <1>1, <1>3, <1>6, QuietStepCached DEF FetchFails
<1>7. CASE Classify(r)
  <2>1. CASE Kind[r] = "attribute"
    BY <1>1, <1>7, <2>1, NextNameTyped, QuietStepCached DEF Classify
  <2>2. CASE Kind[r] # "attribute"
    BY <1>1, <1>2, <1>7, <2>2, QuietStepCached DEF Classify, Goto
  <2> QED  BY <2>1, <2>2
<1>8. CASE Detect(r)
  <2>1. CASE Kind[r] = "attribute"
    BY <1>1, <1>3, <1>8, <2>1, QuietStepCached DEF Detect
  <2>2. CASE Kind[r] # "attribute"
    BY <1>1, <1>2, <1>8, <2>2, QuietStepCached DEF Detect, Goto
  <2> QED  BY <2>1, <2>2
<1>9. CASE Begin(r) \/ Explain(r) \/ ScoreFails(r) \/ Attribute(r)
  BY <1>1, <1>2, <1>9, QuietStepCached
     DEF Begin, Explain, ScoreFails, Attribute, Goto
<1> QED  BY <1>4, <1>5, <1>6, <1>7, <1>8, <1>9

\* The others are not disturbed by a request that loads what is not cached:
\* it holds the lock, and what they use is cached.
LEMMA OthersCached ==
    ASSUME TypeInv, CacheInv, NEW r \in Requests, NEW q \in Requests \ {r},
           UNCHANGED <<disk, at, stage, buffer>>,
           pc'[q] = pc[q], pair'[q] = pair[q],
           \/ UNCHANGED <<cache, lock, overlapped>>
           \/ lock = None /\ UNCHANGED <<cache, overlapped>>
           \/ lock = r /\ UNCHANGED cache
           \/ /\ lock = r /\ cache[Name(r)] = NoPair
              /\ \A m \in Models \ {Name(r)} : cache'[m] = cache[m]
    PROVE  RequestCached(q)'
<1>1. Name(q)' = Name(q) /\ Name(q) \in Models
  BY NamesTyped DEF Name, TypeInv
<1>2. RequestCached(q) /\ q # None
  BY NoneAssumption DEF CacheInv, RequestCached
<1>3. pc[q] \in Loading => UNCHANGED <<cache, lock, overlapped>>
  BY <1>2 DEF RequestCached
<1>4. cache[Name(q)] # NoPair => cache'[Name(q)] = cache[Name(q)]
  BY <1>1
<1> QED  BY <1>1, <1>2, <1>3, <1>4 DEF RequestCached, Loading, BeingSaved

LEMMA LoadCached ==
    ASSUME TypeInv, CacheInv, NEW r \in Requests,
           LookUp(r) \/ ReadModel(r) \/ ReadMetadata(r) \/ LoadFails(r)
    PROVE  CacheInv'
<1> DEFINE m == Name(r)
<1>1. m \in Models /\ (UNCHANGED at => Name(r)' = m)
  BY NamesTyped DEF Name, TypeInv
<1>2. /\ cache \in [Models -> Pairs \cup {NoPair}]
      /\ disk[m] \in Pairs /\ loads \in [Models -> Nat]
      /\ pc \in [Requests -> Labels] /\ stage[r] \in {"metrics", "score"}
      /\ pair \in [Requests -> [model: Versions \cup {None},
                                metadata: Versions \cup {None}]]
      /\ overlapped \in [Models -> BOOLEAN]
  BY <1>1 DEF TypeInv, TypeOK
<1>3. /\ UNCHANGED <<disk, at, stage, buffer>>
      /\ \A q \in Requests \ {r} : pc'[q] = pc[q]
  BY <1>2 DEF LookUp, ReadModel, ReadMetadata, LoadFails, Loaded, Goto, progress,
              files
<1>4. SUFFICES /\ \A n \in Models : ModelCached(n)'
               /\ RequestCached(r)'
               /\ \A q \in Requests \ {r} : RequestCached(q)'
  BY DEF CacheInv
<1>5. (\A n \in Models : ModelCached(n)) /\ RequestCached(r)
  BY DEF CacheInv
<1>10. ASSUME UNCHANGED <<cache, loads, overlapped>>
       PROVE  \A n \in Models : ModelCached(n)'
  BY <1>5, <1>10 DEF ModelCached
<1> HIDE DEF m
<1>6. CASE LookUp(r)
  <2>1. \A q \in Requests \ {r} : pair'[q] = pair[q]
    BY <1>2, <1>6 DEF LookUp
  <2>2. \A q \in Requests \ {r} : RequestCached(q)'
    BY <1>3, <1>6, <2>1, OthersCached DEF LookUp
  <2>3. CASE cache[m] # NoPair
    <3>1. /\ pair'[r] = cache[m] /\ UNCHANGED <<cache, buffer, stage>>
          /\ pc'[r] = IF stage[r] = "metrics" THEN "metrics" ELSE "score"
      BY <1>2, <1>3, <1>6, <2>3 DEF LookUp, Loaded, Goto, m
    <3>2. pc[r] = "lock"
      BY <1>6 DEF LookUp
    <3>3. RequestCached(r)'
      BY <1>1, <1>2, <1>3, <1>5, <2>3, <3>1, <3>2 DEF RequestCached, Loading, m
    <3> QED  BY <1>10, <1>6, <2>2, <3>3 DEF LookUp
  <2>4. CASE cache[m] = NoPair
    <3>1. lock' = r /\ pc'[r] = "model" /\ UNCHANGED <<cache, stage>>
      BY <1>2, <1>3, <1>6, <2>4 DEF LookUp, Goto, m
    <3>2. pc[r] = "lock"
      BY <1>6 DEF LookUp
    <3>3. RequestCached(r)'
      BY <1>1, <1>2, <1>3, <1>5, <2>4, <3>1, <3>2 DEF RequestCached, Loading, m
    <3> QED  BY <1>10, <1>6, <2>2, <3>3 DEF LookUp
  <2> QED  BY <2>3, <2>4
<1>7. CASE ReadModel(r)
  <2>1. /\ pc[r] = "model" /\ pc'[r] = "metadata" /\ UNCHANGED <<cache, lock, loads>>
        /\ \A q \in Requests \ {r} : pair'[q] = pair[q]
        /\ pair'[r].model = disk[m].model
        /\ overlapped' = [overlapped EXCEPT ![m] = BeingSaved(m)]
    BY <1>2, <1>7 DEF ReadModel, Goto, m
  <2>2. lock = r /\ stage[r] = "metrics" /\ cache[m] = NoPair
    BY <1>5, <2>1 DEF RequestCached, Loading, m
  <2>3. RequestCached(r)'
    <3>1. ~overlapped'[Name(r)'] => disk'[Name(r)'].model = disk'[Name(r)'].metadata
      BY <1>1, <1>2, <1>3, <2>1 DEF BeingSaved
    <3>2. /\ lock' = r /\ stage'[r] = "metrics" /\ cache'[Name(r)'] = NoPair
          /\ pair'[r].model = disk'[Name(r)'].model
      BY <1>1, <1>3, <2>1, <2>2
    <3> QED  BY <2>1, <3>1, <3>2 DEF RequestCached, Loading, BeingSaved
  <2>4. \A q \in Requests \ {r} : RequestCached(q)'
    BY <1>3, <2>1, <2>2, OthersCached
  <2>5. ASSUME NEW n \in Models PROVE ModelCached(n)'
    <3>1. ModelCached(n)
      BY <1>5
    <3>2. CASE n = m
      BY <2>1, <2>2, <3>1, <3>2 DEF ModelCached
    <3>3. CASE n # m
      BY <1>2, <2>1, <3>1, <3>3 DEF ModelCached
    <3> QED  BY <3>2, <3>3
  <2> QED  BY <2>3, <2>4, <2>5
<1>8. CASE ReadMetadata(r)
  <2> DEFINE read == [pair[r] EXCEPT !.metadata = disk[m].metadata]
  <2>1. pc[r] = "metadata" /\ lock = r /\ stage[r] = "metrics" /\ cache[m] = NoPair
    BY <1>5, <1>8 DEF ReadMetadata, RequestCached, Loading, m
  <2>2. /\ pair' = [pair EXCEPT ![r] = read] /\ cache' = [cache EXCEPT ![m] = read]
        /\ loads' = [loads EXCEPT ![m] = @ + 1]
        /\ pc'[r] = "metrics"
    BY <1>2, <1>8, <2>1 DEF ReadMetadata, Loaded, Goto, m
  <2>3. read # NoPair
    <3>1. read.metadata = disk[m].metadata /\ disk[m].metadata \in Nat
      BY <1>2 DEF Pairs, Versions
    <3> QED  BY <3>1, NoneAssumption DEF NoPair
  <2>4. UNCHANGED overlapped /\ (~overlapped[m] => read.model = read.metadata)
    <3>1. UNCHANGED overlapped
      BY <1>8 DEF ReadMetadata
    <3>2. ~overlapped[m] => pair[r].model = disk[m].model /\ ~BeingSaved(m)
      BY <1>5, <2>1 DEF RequestCached, m
    <3>3. read.model = pair[r].model /\ read.metadata = disk[m].metadata
      BY <1>2
    <3> QED  BY <3>1, <3>2, <3>3 DEF BeingSaved
  <2> HIDE DEF read
  <2>5. RequestCached(r)'
    BY <1>1, <1>2, <1>3, <2>2, <2>3 DEF RequestCached, Loading
  <2>6. \A q \in Requests \ {r} : RequestCached(q)'
    <3>1. /\ \A q \in Requests \ {r} : pair'[q] = pair[q]
          /\ \A n \in Models \ {m} : cache'[n] = cache[n]
      BY <1>2, <2>2
    <3> QED  BY <1>3, <2>1, <3>1, OthersCached DEF m
  <2>7. ASSUME NEW n \in Models PROVE ModelCached(n)'
    <3>1. ModelCached(n)
      BY <1>5
    <3>2. CASE n = m
      <4>1. loads[m] = 0 /\ loads'[m] = 1 /\ cache'[m] = read
        BY <1>1, <1>2, <2>1, <2>2, <3>1, <3>2 DEF ModelCached
      <4> QED  BY <2>3, <2>4, <3>2, <4>1 DEF ModelCached
    <3>3. CASE n # m
      <4>1. loads'[n] = loads[n] /\ cache'[n] = cache[n]
        BY <1>2, <2>2, <3>3
      <4> QED  BY <2>4, <3>1, <4>1 DEF ModelCached
    <3> QED  BY <3>2, <3>3
  <2> QED  BY <2>5, <2>6, <2>7
<1>9. CASE LoadFails(r)
  <2>1. /\ pc[r] \in Loading /\ pc'[r] = "raised"
        /\ UNCHANGED <<cache, loads, overlapped, pair>>
    BY <1>2, <1>9 DEF LoadFails, Goto, Loading, progress
  <2>2. lock = r
    BY <1>5, <2>1 DEF RequestCached
  <2>3. RequestCached(r)'
    BY <2>1 DEF RequestCached, Loading
  <2>4. \A q \in Requests \ {r} : RequestCached(q)'
    BY <1>3, <2>1, <2>2, OthersCached
  <2> QED  BY <1>10, <2>1, <2>3, <2>4
<1> QED  BY <1>6, <1>7, <1>8, <1>9

LEMMA FetchCached ==
    ASSUME TypeInv, CacheInv, NEW r \in Requests, Fetch(r)
    PROVE  CacheInv'
<1>1. /\ pc \in [Requests -> Labels] /\ stage \in [Requests -> {"metrics", "score"}]
      /\ buffer \in [Requests -> [model: Versions \cup {None},
                                  metadata: Versions \cup {None}]]
  BY DEF TypeInv, TypeOK
<1>2. \A q \in Requests : Name(q)' = Name(q)
  BY DEF Fetch, Name
<1>3. /\ UNCHANGED <<disk, cache, lock, loads, overlapped, pair>> /\ pc[r] = "fetch"
      /\ pc'[r] = "lock" /\ stage'[r] = "score" /\ buffer'[r] = pair[r]
      /\ \A q \in Requests \ {r} : /\ pc'[q] = pc[q] /\ stage'[q] = stage[q]
                                   /\ buffer'[q] = buffer[q]
  BY <1>1 DEF Fetch, Goto, files, shared
<1>4. \A q \in Requests : RequestCached(q)
  BY DEF CacheInv
<1>5. \A q \in Requests : RequestCached(q)'
  BY <1>2, <1>3, <1>4 DEF RequestCached, Loading, BeingSaved
<1>6. \A m \in Models : ModelCached(m)'
  BY <1>3 DEF CacheInv, ModelCached
<1> QED  BY <1>5, <1>6 DEF CacheInv

LEMMA EnvironmentCached ==
    ASSUME TypeInv, CacheInv,
           (\E m \in Retrained : SaveModel(m) \/ SaveMetadata(m)) \/ Restart
    PROVE  CacheInv'
<1>1. CASE \E m \in Retrained : SaveModel(m) \/ SaveMetadata(m)
  <2>1. PICK m \in Retrained : SaveModel(m) \/ SaveMetadata(m)
    BY <1>1
  <2>2. /\ m \in Models /\ overlapped \in [Models -> BOOLEAN]
        /\ disk \in [Models -> Pairs]
    BY BoundsAssumption DEF TypeInv, TypeOK
  <2>3. /\ UNCHANGED <<cache, lock, loads, pc, at, stage, pair, buffer>>
        /\ \A n \in Models \ {m} : disk'[n] = disk[n] /\ overlapped'[n] = overlapped[n]
        /\ \A n \in Models : overlapped[n] => overlapped'[n]
    BY <2>1, <2>2 DEF SaveModel, SaveMetadata, shared, progress
  <2>4. ASSUME NEW n \in Models PROVE ModelCached(n)'
    BY <2>3, <2>4 DEF CacheInv, ModelCached
  <2>5. ASSUME NEW q \in Requests, pc[q] = "metadata", Name(q) = m
        PROVE  overlapped'[m]
    <3>1. CASE SaveModel(m)
      BY <2>2, <2>5, <3>1 DEF SaveModel
    <3>2. CASE SaveMetadata(m)
      BY <2>2, <2>3, <2>5, <3>2 DEF SaveMetadata, CacheInv, RequestCached
    <3> QED  BY <2>1, <3>1, <3>2
  <2>6. ASSUME NEW q \in Requests PROVE RequestCached(q)'
    <3>1. Name(q)' = Name(q) /\ Name(q) \in Models /\ RequestCached(q)
      BY <2>3, NamesTyped DEF Name, TypeInv, CacheInv
    <3>2. pc[q] = "metadata" /\ ~overlapped'[Name(q)] =>
             disk'[Name(q)] = disk[Name(q)] /\ ~overlapped[Name(q)]
      BY <2>3, <2>5, <3>1
    <3> QED  BY <2>3, <3>1, <3>2 DEF RequestCached, Loading, BeingSaved
  <2> QED  BY <2>4, <2>6 DEF CacheInv
<1>2. CASE Restart
  <2>1. /\ \A m \in Models : loads'[m] = 0 /\ cache'[m] = NoPair
        /\ \A r \in Requests : pc'[r] \in Ended \cup {"idle"}
    BY <1>2 DEF Restart, TypeInv, TypeOK, Labels, Ended
  <2> QED  BY <2>1 DEF CacheInv, RequestCached, ModelCached, Loading, Ended
<1> QED  BY <1>1, <1>2

LEMMA NextCached == TypeInv /\ CacheInv /\ [Next]_vars => CacheInv'
<1> SUFFICES ASSUME TypeInv, CacheInv, [Next]_vars PROVE CacheInv'
  OBVIOUS
<1>1. CASE UNCHANGED vars
  BY <1>1 DEF vars, files, shared, progress, CacheInv, RequestCached, ModelCached,
              BeingSaved, Name
<1>2. CASE Next
  BY <1>2, HandlerCached, LoadCached, FetchCached, EnvironmentCached DEF Next, Serve
<1> QED  BY <1>1, <1>2

LEMMA CacheHolds == Spec => []CacheInv
<1>1. Spec => []TypeInv
  BY InitTyped, NextTyped, PTL DEF Spec
<1> QED  BY <1>1, InitCached, NextCached, PTL DEF Spec

\* However many requests miss the cache at once, and however often a load
\* fails, a process loads a model at most once.
THEOREM ModelsAreLoadedOnce == Spec => []LoadedOnce
<1>1. CacheInv => LoadedOnce
  BY DEF CacheInv, ModelCached, LoadedOnce
<1> QED  BY <1>1, CacheHolds, PTL

\* A model scores a buffer with the pair whose metadata the buffer was fetched
\* for, and, unless it was being saved while this process loaded it, the model
\* of that pair is of the metadata's own version, whenever it is saved anew.
THEOREM ScoredByTheModelFetchedFor == Spec => []BufferFitsModel
<1>1. TypeInv /\ CacheInv => BufferFitsModel
  <2> SUFFICES ASSUME TypeInv, CacheInv, NEW r \in Requests, pc[r] = "score"
               PROVE  /\ pair[r] = buffer[r]
                      /\ ~overlapped[Name(r)] => pair[r].model = buffer[r].metadata
    BY DEF BufferFitsModel
  <2>1. Name(r) \in Models
    BY NamesTyped DEF Name, TypeInv
  <2>2. RequestCached(r) /\ ModelCached(Name(r))
    BY <2>1 DEF CacheInv
  <2> QED  BY <2>2 DEF RequestCached, ModelCached
<1>2. Spec => []TypeInv
  BY InitTyped, NextTyped, PTL DEF Spec
<1> QED  BY <1>1, <1>2, CacheHolds, PTL

-----------------------------------------------------------------------------
(* What an attribution has found.                                          *)

ScoredRows(r) == {row \in Recorded(r) : row.prob # None}

ResultRows(r) == {[request |-> r, at |-> results[r][i].at, prob |-> results[r][i].prob] :
                     i \in 1..Len(results[r])}

Positions(r) == {results[r][i].at : i \in 1..Len(results[r])} \cup skipped[r]

Looping == Labels \ (Ended \cup {"idle", "verdict"})

\* While a loop runs, the results are the scored rows, and every name before the
\* one it is at is a result or skipped.
Told(r) ==
    /\ pc[r] = "idle" => /\ Recorded(r) = {}
                         /\ results[r] = <<>> /\ skipped[r] = {} /\ at[r] = 1
    /\ pc[r] # "lost" => ScoredRows(r) = ResultRows(r)
    /\ Kind[r] = "attribute" =>
         /\ pc[r] \in Looping => Positions(r) = 1..(at[r] - 1)
         /\ pc[r] \in {"verdict", "answered"} => Positions(r) = 1..Len(Names[r])
         /\ pc[r] = "answered" => winner[r] = Winner(results[r])

\* VerdictIsRecorded made inductive.
VerdictInv == \A r \in Requests : Told(r)

LEMMA InitTold == Init => VerdictInv
<1> SUFFICES ASSUME Init, NEW r \in Requests PROVE Told(r)
  BY DEF VerdictInv
<1>1. Recorded(r) = {} /\ results[r] = <<>> /\ pc[r] = "idle"
  BY DEF Init, Recorded
<1>2. ScoredRows(r) = {} /\ ResultRows(r) = {}
  BY <1>1 DEF ScoredRows, ResultRows
<1> QED  BY <1>1, <1>2 DEF Init, Told, Looping

\* A step that finds nothing out about a request, unless it begins or ends it.
LEMMA NothingToTell ==
    ASSUME TypeInv, NEW r \in Requests, Told(r),
           Recorded(r)' = Recorded(r), at'[r] = at[r], results'[r] = results[r],
           skipped'[r] = skipped[r], winner'[r] = winner[r],
           \/ pc'[r] = pc[r]
           \/ pc[r] \in Looping \cup {"idle"} /\ pc'[r] \in Looping
           \/ pc[r] \in Looping /\ pc'[r] = "raised"
           \/ /\ pc[r] \in Looping /\ Kind[r] # "attribute"
              /\ pc'[r] \in {"answered", "refused"}
    PROVE  Told(r)'
<1>1. ScoredRows(r)' = ScoredRows(r)
  BY DEF ScoredRows
<1>2. ResultRows(r)' = ResultRows(r) /\ Positions(r)' = Positions(r)
  BY DEF ResultRows, Positions
<1>3. pc[r] = "idle" => Positions(r) = 1..(at[r] - 1)
  <2>1. ASSUME pc[r] = "idle" PROVE Positions(r) = {} /\ at[r] = 1
    <3>1. results[r] = <<>> /\ skipped[r] = {} /\ at[r] = 1
      BY <2>1 DEF Told
    <3>2. 1..Len(results[r]) = {}
      BY <3>1
    <3> QED  BY <3>1, <3>2 DEF Positions
  <2>2. 1..(1 - 1) = {}
    OBVIOUS
  <2> QED  BY <2>1, <2>2
<1> QED  BY <1>1, <1>2, <1>3 DEF Told, Looping, Ended

\* The rows of one request are nobody else's.
LEMMA OthersUntold ==
    ASSUME TypeInv, VerdictInv, NEW r \in Requests, NEW q \in Requests \ {r},
           pc'[q] = pc[q], at'[q] = at[q], results'[q] = results[q],
           skipped'[q] = skipped[q], winner'[q] = winner[q],
           \/ UNCHANGED predictions
           \/ \E prob : predictions' = predictions \cup {Row(r, prob)}
    PROVE  Told(q)'
<1>1. Recorded(q)' = Recorded(q)
  BY DEF Recorded, Row
<1> QED  BY <1>1, NothingToTell DEF VerdictInv

\* The loop leaves a name that is now a result or skipped.
LEMMA NameIsDone ==
    ASSUME TypeInv, NEW r \in Requests, Told(r), Kind[r] = "attribute",
           pc[r] \in Looping, NextName(r),
           Positions(r)' = Positions(r) \cup {at[r]},
           ScoredRows(r)' = ResultRows(r)'
    PROVE  Told(r)'
<1>1. at[r] \in Nat /\ at[r] >= 1 /\ Len(Names[r]) \in Nat
  BY NamesTyped DEF TypeInv
<1>2. Positions(r)' = 1..at[r]
  <2>1. Positions(r) = 1..(at[r] - 1)
    BY DEF Told
  <2> QED  BY <1>1, <2>1
<1>3. CASE at'[r] = at[r] + 1 /\ pc'[r] = "exists"
  <2>1. at'[r] - 1 = at[r]
    BY <1>1, <1>3
  <2> QED  BY <1>2, <1>3, <2>1 DEF Told, Looping, Ended
<1>4. CASE at[r] = Len(Names[r]) /\ pc'[r] = "verdict"
  BY <1>2, <1>4 DEF Told, Looping, Ended
<1> QED  BY <1>3, <1>4, NextNameTyped

LEMMA SkipTold ==
    ASSUME TypeInv, NEW r \in Requests, Told(r), pc[r] \in Looping, Refuse(r),
           ScoredRows(r)' = ScoredRows(r), UNCHANGED <<results, winner>>
    PROVE  Told(r)'
<1>1. ScoredRows(r)' = ResultRows(r)'
  BY DEF Told, ResultRows, Looping, Ended
<1>2. CASE Kind[r] = "attribute"
  <2>1. NextName(r) /\ skipped'[r] = skipped[r] \cup {at[r]}
    BY <1>2, RefuseTyped
  <2>2. Positions(r)' = Positions(r) \cup {at[r]}
    BY <2>1 DEF Positions
  <2> QED  BY <1>1, <1>2, <2>1, <2>2, NameIsDone
<1>3. CASE Kind[r] # "attribute"
  <2>1. pc'[r] = "refused"
    BY <1>3, RefuseTyped
  <2> QED  BY <1>1, <1>3, <2>1 DEF Told
<1> QED  BY <1>2, <1>3

LEMMA CheckTold ==
    ASSUME TypeInv, VerdictInv, NEW r \in Requests,
           FindMetadata(r) \/ CheckMetrics(r) \/ FetchFails(r) \/ Detect(r)
    PROVE  VerdictInv'
<1>1. Told(r) /\ pc[r] \in Looping /\ pc \in [Requests -> Labels]
  BY DEF VerdictInv, TypeInv, TypeOK, FindMetadata, CheckMetrics, FetchFails, Detect,
         Looping, Labels, Ended
<1>2. /\ UNCHANGED <<results, winner>>
      /\ \/ UNCHANGED predictions
         \/ predictions' = predictions \cup {Row(r, None)}
  BY DEF FindMetadata, CheckMetrics, FetchFails, Detect
<1>3. ScoredRows(r)' = ScoredRows(r)
  BY <1>2 DEF ScoredRows, Recorded, Row
<1>4. CASE Refuse(r)
  <2>1. Told(r)'
    BY <1>1, <1>2, <1>3, <1>4, SkipTold
  <2>2. \A q \in Requests \ {r} : Told(q)'
    BY <1>2, <1>4, RefuseTyped, OthersUntold
  <2> QED  BY <2>1, <2>2 DEF VerdictInv
<1>5. CASE /\ UNCHANGED <<at, skipped, predictions>>
           /\ Goto(r, "lock") \/ Goto(r, "fetch")
  <2>1. Told(r)'
    BY <1>1, <1>2, <1>5, NothingToTell DEF Goto, Looping, Labels, Ended, Recorded
  <2>2. \A q \in Requests \ {r} : Told(q)'
    BY <1>1, <1>2, <1>5, OthersUntold DEF Goto
  <2> QED  BY <2>1, <2>2 DEF VerdictInv
<1>6. CASE /\ Detect(r) /\ Kind[r] # "attribute"
           /\ Goto(r, "answered") /\ UNCHANGED <<at, skipped>>
  <2>1. pc'[r] = "answered" /\ \A q \in Requests \ {r} : pc'[q] = pc[q]
    BY <1>1, <1>6 DEF Goto
  <2>2. Told(r)'
    BY <1>1, <1>2, <1>3, <1>6, <2>1 DEF Told, ResultRows, Looping, Ended
  <2>3. \A q \in Requests \ {r} : Told(q)'
    BY <1>2, <1>6, <2>1, OthersUntold
  <2> QED  BY <2>2, <2>3 DEF VerdictInv
<1> QED
  BY <1>4, <1>5, <1>6 DEF FindMetadata, CheckMetrics, FetchFails, Detect, files, shared

\* One score more: what it adds to the rows, to the results and to the positions.
LEMMA ScoreAdds ==
    ASSUME TypeInv, NEW r \in Requests, NEW prob \in Probabilities,
           predictions' = predictions \cup {Row(r, prob)},
           results' = [results EXCEPT ![r] = Append(@, [at |-> at[r], prob |-> prob])],
           UNCHANGED skipped
    PROVE  /\ ScoredRows(r)' = ScoredRows(r) \cup {Row(r, prob)}
           /\ ResultRows(r)' = ResultRows(r) \cup {Row(r, prob)}
           /\ Positions(r)' = Positions(r) \cup {at[r]}
<1> DEFINE new == [at |-> at[r], prob |-> prob]
           rs == results[r]
<1>1. ScoredRows(r)' = ScoredRows(r) \cup {Row(r, prob)}
  <2>1. prob # None
    BY NoneAssumption, ProbabilitiesAssumption DEF Probabilities
  <2> QED  BY <2>1 DEF ScoredRows, Recorded, Row
<1>2. rs \in Seq([at: Nat, prob: Probabilities]) /\ results'[r] = Append(rs, new)
  BY DEF TypeInv, TypeOK
<1> HIDE DEF rs
<1>3. /\ Len(Append(rs, new)) = Len(rs) + 1 /\ Len(rs) \in Nat
      /\ \A i \in 1..Len(rs) : Append(rs, new)[i] = rs[i]
      /\ Append(rs, new)[Len(rs) + 1] = new
  BY <1>2
<1>4. 1..(Len(rs) + 1) = 1..Len(rs) \cup {Len(rs) + 1}
  BY <1>3
<1>6. ResultRows(r)' = ResultRows(r) \cup {Row(r, prob)}
  <2>1. {[request |-> r, at |-> Append(rs, new)[i].at, prob |-> Append(rs, new)[i].prob] :
             i \in 1..Len(Append(rs, new))}
          = {[request |-> r, at |-> rs[i].at, prob |-> rs[i].prob] : i \in 1..Len(rs)}
              \cup {[request |-> r, at |-> new.at, prob |-> new.prob]}
    BY <1>3, <1>4
  <2> QED  BY <1>2, <2>1 DEF ResultRows, Row, rs
<1>7. Positions(r)' = Positions(r) \cup {at[r]}
  <2>1. {Append(rs, new)[i].at : i \in 1..Len(Append(rs, new))}
          = {rs[i].at : i \in 1..Len(rs)} \cup {new.at}
    BY <1>3, <1>4
  <2> QED  BY <1>2, <2>1 DEF Positions, rs
<1> QED  BY <1>1, <1>6, <1>7

LEMMA ClassifyTold ==
    ASSUME TypeInv, VerdictInv, NEW r \in Requests, Classify(r)
    PROVE  VerdictInv'
<1>1. Told(r) /\ pc[r] \in Looping /\ pc \in [Requests -> Labels]
  BY DEF VerdictInv, TypeInv, TypeOK, Classify, Looping, Labels, Ended
<1>2. PICK prob \in Probabilities :
         /\ predictions' = predictions \cup {Row(r, prob)}
         /\ results' = [results EXCEPT ![r] = Append(@, [at |-> at[r], prob |-> prob])]
  BY DEF Classify
<1>3. /\ ScoredRows(r)' = ResultRows(r)'
      /\ Positions(r)' = Positions(r) \cup {at[r]}
  <2>1. UNCHANGED skipped
    BY DEF Classify
  <2>2. /\ ScoredRows(r)' = ScoredRows(r) \cup {Row(r, prob)}
        /\ ResultRows(r)' = ResultRows(r) \cup {Row(r, prob)}
        /\ Positions(r)' = Positions(r) \cup {at[r]}
    BY <1>2, <2>1, ScoreAdds
  <2>3. ScoredRows(r) = ResultRows(r)
    BY <1>1 DEF Told, Looping, Ended
  <2> QED  BY <2>2, <2>3
<1>4. \A q \in Requests \ {r} : pc'[q] = pc[q] /\ at'[q] = at[q]
  <2>1. CASE Kind[r] = "attribute"
    BY <2>1, NextNameTyped DEF Classify
  <2>2. CASE Kind[r] # "attribute"
    BY <1>1, <2>2 DEF Classify, Goto
  <2> QED  BY <2>1, <2>2
<1>5. \A q \in Requests \ {r} : Told(q)'
  <2>1. \A q \in Requests \ {r} : /\ results'[q] = results[q]
                                  /\ skipped'[q] = skipped[q]
                                  /\ winner'[q] = winner[q]
    BY <1>2 DEF Classify, TypeInv, TypeOK
  <2> QED  BY <1>2, <1>4, <2>1, OthersUntold
<1>6. Told(r)'
  <2>1. CASE Kind[r] = "attribute"
    BY <1>1, <1>3, <2>1, NameIsDone DEF Classify
  <2>2. CASE Kind[r] # "attribute"
    <3>1. pc'[r] = "answered"
      BY <1>1, <2>2 DEF Classify, Goto
    <3> QED  BY <1>3, <2>2, <3>1 DEF Told
  <2> QED  BY <2>1, <2>2
<1> QED  BY <1>5, <1>6 DEF VerdictInv

LEMMA AttributeTold ==
    ASSUME TypeInv, VerdictInv, NEW r \in Requests, Attribute(r)
    PROVE  VerdictInv'
<1>1. /\ Told(r) /\ pc[r] = "verdict" /\ pc'[r] = "answered"
      /\ winner'[r] = Winner(results[r])
      /\ UNCHANGED <<at, results, skipped, predictions>>
      /\ \A q \in Requests \ {r} : pc'[q] = pc[q] /\ winner'[q] = winner[q]
  BY DEF VerdictInv, TypeInv, TypeOK, Attribute, Goto, progress
<1>2. ScoredRows(r)' = ResultRows(r)'
  BY <1>1 DEF Told, ScoredRows, Recorded, ResultRows
<1>3. Positions(r)' = Positions(r)
  BY <1>1 DEF Positions
<1>4. Told(r)'
  BY <1>1, <1>2, <1>3 DEF Told, Looping, Ended
<1>5. \A q \in Requests \ {r} : Told(q)'
  BY <1>1, OthersUntold
<1> QED  BY <1>4, <1>5 DEF VerdictInv

LEMMA QuietTold ==
    ASSUME TypeInv, VerdictInv, NEW r \in Requests,
           \/ Begin(r) \/ LookUp(r) \/ ReadModel(r) \/ ReadMetadata(r)
           \/ LoadFails(r) \/ Fetch(r) \/ Explain(r) \/ ScoreFails(r)
    PROVE  VerdictInv'
<1>1. UNCHANGED <<at, results, skipped, winner, predictions>>
  BY DEF Begin, LookUp, ReadModel, ReadMetadata, LoadFails, Fetch, Explain,
         ScoreFails, progress, findings
<1>2. \A q \in Requests \ {r} : pc'[q] = pc[q]
  BY DEF Begin, LookUp, ReadModel, ReadMetadata, LoadFails, Fetch, Explain,
         ScoreFails, Loaded, Goto, TypeInv, TypeOK
<1>3. pc \in [Requests -> Labels]
  BY DEF TypeInv, TypeOK
<1>4. \/ pc[r] \in Looping \cup {"idle"} /\ pc'[r] \in Looping
      \/ pc[r] \in Looping /\ pc'[r] = "raised"
      \/ pc[r] \in Looping /\ Kind[r] # "attribute" /\ pc'[r] = "answered"
  BY <1>3 DEF Begin, LookUp, ReadModel, ReadMetadata, LoadFails, Fetch, Explain,
         ScoreFails, Loaded, Goto, Looping, Labels, Ended
<1>5. Told(r)'
  BY <1>1, <1>4, NothingToTell DEF VerdictInv, Recorded
<1>6. \A q \in Requests \ {r} : Told(q)'
  BY <1>1, <1>2, OthersUntold
<1> QED  BY <1>5, <1>6 DEF VerdictInv

LEMMA EnvironmentTold ==
    ASSUME TypeInv, VerdictInv,
           (\E m \in Retrained : SaveModel(m) \/ SaveMetadata(m)) \/ Restart
    PROVE  VerdictInv'
<1>1. CASE \E m \in Retrained : SaveModel(m) \/ SaveMetadata(m)
  <2>1. UNCHANGED <<pc, at, results, skipped, winner, predictions>>
    BY <1>1 DEF SaveModel, SaveMetadata, progress, findings
  <2> QED  BY <2>1, NothingToTell DEF VerdictInv, Recorded
<1>2. CASE Restart
  <2>1. SUFFICES ASSUME NEW r \in Requests PROVE Told(r)'
    BY DEF VerdictInv
  <2>2. UNCHANGED predictions /\ Recorded(r)' = Recorded(r) /\ Told(r)
    BY <1>2 DEF Restart, Recorded, VerdictInv
  <2>3. CASE pc[r] \in Ended
    <3>1. /\ pc'[r] = pc[r] /\ at'[r] = at[r] /\ results'[r] = results[r]
          /\ skipped'[r] = skipped[r] /\ winner'[r] = winner[r]
      BY <1>2, <2>3 DEF Restart
    <3> QED  BY <2>2, <3>1, NothingToTell
  <2>4. CASE pc[r] = "idle"
    <3>1. /\ pc'[r] = "idle" /\ at'[r] = 1 /\ results'[r] = <<>> /\ skipped'[r] = {}
      BY <1>2, <2>4 DEF Restart, Ended
    <3>2. Recorded(r)' = {}
      BY <2>2, <2>4 DEF Told
    <3>3. ScoredRows(r)' = {} /\ ResultRows(r)' = {}
      BY <3>1, <3>2 DEF ScoredRows, ResultRows
    <3> QED  BY <3>1, <3>2, <3>3 DEF Told, Looping, Ended
  <2>5. CASE pc[r] \notin Ended \cup {"idle"}
    <3>1. pc'[r] = "lost"
      BY <1>2, <2>5 DEF Restart
    <3> QED  BY <3>1 DEF Told, Looping, Ended
  <2> QED  BY <2>3, <2>4, <2>5
<1> QED  BY <1>1, <1>2

LEMMA NextTold == TypeInv /\ VerdictInv /\ [Next]_vars => VerdictInv'
<1> SUFFICES ASSUME TypeInv, VerdictInv, [Next]_vars PROVE VerdictInv'
  OBVIOUS
<1>1. CASE UNCHANGED vars
  BY <1>1, NothingToTell DEF vars, progress, findings, VerdictInv, Recorded
<1>2. CASE Next
  BY <1>2, CheckTold, ClassifyTold, AttributeTold, QuietTold, EnvironmentTold
     DEF Next, Serve
<1> QED  BY <1>1, <1>2

LEMMA VerdictInvSuffices == TypeInv /\ VerdictInv => VerdictIsRecorded
<1> SUFFICES ASSUME TypeInv, VerdictInv, NEW r \in Requests,
                    Kind[r] = "attribute", pc[r] = "answered"
             PROVE  LET rs == results[r]
                        scored == {row \in Recorded(r) : row.prob # None}
                        faults == {row \in scored : PredictedLabel(row.prob) = 1}
                    IN  /\ scored =
                             {[request |-> r, at |-> rs[i].at, prob |-> rs[i].prob] :
                                 i \in 1..Len(rs)}
                        /\ {rs[i].at : i \in 1..Len(rs)} \cup skipped[r]
                             = 1..Len(Names[r])
                        /\ IF winner[r] = None THEN faults = {}
                           ELSE \E row \in faults :
                                  /\ rs[winner[r]] = [at |-> row.at, prob |-> row.prob]
                                  /\ \A other \in faults : other.prob <= row.prob
  BY DEF VerdictIsRecorded
<1> DEFINE rs == results[r]
           w == winner[r]
           Faults == {row \in ScoredRows(r) : PredictedLabel(row.prob) = 1}
           RowOf(i) == [request |-> r, at |-> rs[i].at, prob |-> rs[i].prob]
<1>1. /\ ScoredRows(r) = ResultRows(r) /\ Positions(r) = 1..Len(Names[r])
      /\ w = Winner(rs)
  BY DEF VerdictInv, Told
<1>2. rs \in Seq(Result) /\ \A i \in 1..Len(rs) : rs[i] \in Result
  <2>1. rs \in Seq(Result)
    BY DEF TypeInv, TypeOK, Result
  <2> HIDE DEF rs
  <2> QED  BY <2>1
<1>3. IF FaultCandidates(rs) = {} THEN w = None
      ELSE /\ w \in FaultCandidates(rs)
           /\ \A j \in FaultCandidates(rs) : rs[j].prob <= rs[w].prob
  BY <1>1, <1>2, WinnerIsRight
<1>4. Faults = {RowOf(i) : i \in FaultCandidates(rs)}
  BY <1>1 DEF ResultRows, FaultCandidates
<1>5. CASE FaultCandidates(rs) = {}
  BY <1>1, <1>3, <1>4, <1>5 DEF ScoredRows, ResultRows, Positions
<1>6. CASE FaultCandidates(rs) # {}
  <2>1. w \in FaultCandidates(rs) /\ w \in 1..Len(rs) /\ w # None
    BY <1>3, <1>6, NoneAssumption DEF FaultCandidates
  <2>2. RowOf(w) \in Faults
    BY <1>4, <2>1
  <2>3. rs[w] = [at |-> RowOf(w).at, prob |-> RowOf(w).prob]
    BY <1>2, <2>1 DEF Result
  <2>4. \A other \in Faults : other.prob <= RowOf(w).prob
    BY <1>3, <1>4, <1>6
  <2> QED  BY <1>1, <2>1, <2>2, <2>3, <2>4 DEF ScoredRows, ResultRows, Positions
<1> QED  BY <1>5, <1>6

\* What an answered attribution says is what the table of predictions says, and
\* the fault it names is recorded, with none more probable.
THEOREM VerdictsAreRecorded == Spec => []VerdictIsRecorded
<1>1. Spec => []TypeInv
  BY InitTyped, NextTyped, PTL DEF Spec
<1>2. Spec => []VerdictInv
  BY <1>1, InitTold, NextTold, PTL DEF Spec
<1> QED  BY <1>1, <1>2, VerdictInvSuffices, PTL
=============================================================================
