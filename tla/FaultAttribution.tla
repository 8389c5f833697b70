-------------------------- MODULE FaultAttribution --------------------------
(***************************************************************************)
(* ml-service's predictions.  A request scores an asset with one saved     *)
(* model, explains one score, or attributes a fault by comparing several   *)
(* classifiers.  The handlers share the event loop and give it up at each  *)
(* await; models are loaded and run on threads of a pool, which share a    *)
(* cache of loaded models under one lock.  Meanwhile the training script   *)
(* may save a model anew, its two files one after the other.               *)
(***************************************************************************)
EXTENDS Naturals, Sequences

CONSTANTS
    Requests,
    Models,         \* names that match MODEL_NAME_PATTERN
    Kind,           \* per request: "predict", "explain" or "attribute"
    Names,          \* per request: the model names it asks for
    Saved,          \* models with a metadata file
    Complete,       \* models whose metadata holds required_raw_metrics
    Classifiers,    \* models with predict_proba; the others detect anomalies
    Certain,        \* 1.0 on a scale of probabilities that starts with 0
    EvenOdds,       \* 0.5 on that scale: predict() reports a fault above it
    None,           \* no request, no version, no winner
    Retrained,      \* bound: the models that are saved anew
    MaxRetrains,    \* bound: how often
    MaxRestarts     \* bound: restarts of ml-service

ASSUME RequestsAssumption ==
    /\ Kind \in [Requests -> {"predict", "explain", "attribute"}]
    /\ Names \in [Requests -> Seq(Models)]
    /\ \A r \in Requests : /\ Names[r] # <<>>
                           /\ Kind[r] # "attribute" => Len(Names[r]) = 1
ASSUME NoneAssumption == None \notin Requests \cup Nat
ASSUME BoundsAssumption == /\ Retrained \subseteq Models
                          /\ {MaxRetrains, MaxRestarts} \subseteq Nat
ASSUME ProbabilitiesAssumption == {Certain, EvenOdds} \subseteq Nat

\* What predict_proba may return.
Probabilities == 0..Certain

\* predicted_label of a score: the forests and the boosted trees that
\* train_final_models saves predict the class they find more probable.
PredictedLabel(prob) == IF prob > EvenOdds THEN 1 ELSE 0

Versions == Nat

\* What load_model returns: a model and the metadata read beside it.
Pairs == [model: Versions, metadata: Versions]

NoPair == [model |-> None, metadata |-> None]

VARIABLES
    disk,         \* per model: the version of each of its two files
    cache,        \* _model_cache: per model the loaded pair, or NoPair
    lock,         \* who holds _model_cache_lock, or None
    loads,        \* history: loads that this process completed, per model
    overlapped,   \* history: a save overlapped this process's last load, per model
    restarts,     \* history: restarts so far
    predictions,  \* rows of the predictions table
    pc,           \* per request: the statement its handler or thread is at
    at,           \* per request: the name its loop is at
    stage,        \* per request: what the pair being loaded is for
    pair,         \* per request: the pair load_model returned last
    buffer,       \* per request: the pair its buffer was built for, or NoPair
    results,      \* per request: all_results
    skipped,      \* per request: the positions of the names skipped
    winner        \* per request: the index of the result attributed, or None

files == <<disk>>
shared == <<cache, lock, loads, overlapped>>
progress == <<at, stage, pair, buffer>>
findings == <<results, skipped, winner>>
vars == <<files, shared, restarts, predictions, pc, progress, findings>>

Name(r) == Names[r][at[r]]

Ended == {"answered", "refused", "raised", "lost"}

Labels == Ended \cup {"idle", "exists", "lock", "model", "metadata", "metrics",
                      "fetch", "score", "verdict"}

Init ==
    /\ disk = [m \in Models |-> [model |-> 0, metadata |-> 0]]
    /\ cache = [m \in Models |-> NoPair]
    /\ lock = None
    /\ loads = [m \in Models |-> 0]
    /\ overlapped = [m \in Models |-> FALSE]
    /\ restarts = 0
    /\ predictions = {}
    /\ pc = [r \in Requests |-> "idle"]
    /\ at = [r \in Requests |-> 1]
    /\ stage = [r \in Requests |-> "metrics"]
    /\ pair = [r \in Requests |-> NoPair]
    /\ buffer = [r \in Requests |-> NoPair]
    /\ results = [r \in Requests |-> <<>>]
    /\ skipped = [r \in Requests |-> {}]
    /\ winner = [r \in Requests |-> None]

Goto(r, label) == pc' = [pc EXCEPT ![r] = label]

\* The loop of attribute_fault goes on to the next name, or is done.
NextName(r) ==
    IF at[r] < Len(Names[r])
    THEN /\ at' = [at EXCEPT ![r] = @ + 1]
         /\ Goto(r, "exists")
    ELSE /\ Goto(r, "verdict")
         /\ UNCHANGED at

\* An HTTPException of _run_and_persist_prediction: attribute_fault catches it
\* and skips the model, the other two endpoints answer with it.
Refuse(r) ==
    IF Kind[r] = "attribute"
    THEN /\ skipped' = [skipped EXCEPT ![r] = @ \cup {at[r]}]
         /\ NextName(r)
    ELSE /\ Goto(r, "refused")
         /\ UNCHANGED <<skipped, at>>

Begin(r) ==
    /\ pc[r] = "idle"
    /\ Goto(r, "exists")
    /\ UNCHANGED <<files, shared, restarts, predictions, progress, findings>>

\* metadata_path.exists().
FindMetadata(r) ==
    /\ pc[r] = "exists"
    /\ IF Name(r) \in Saved
       THEN /\ Goto(r, "lock")
            /\ stage' = [stage EXCEPT ![r] = "metrics"]
            /\ UNCHANGED <<at, skipped>>
       ELSE Refuse(r) /\ UNCHANGED stage
    /\ UNCHANGED <<files, shared, restarts, predictions, pair, buffer, results,
                   winner>>

-----------------------------------------------------------------------------
(* load_model, on a thread of the pool.                                    *)

\* Where the thread that asked for the pair goes on.
Loaded(r) == Goto(r, IF stage[r] = "metrics" THEN "metrics" ELSE "score")

\* Slip: the cache is looked up, and the files are read, without the lock.
SlipNoLock(r) ==
    /\ pc[r] = "lock"
    /\ IF cache[Name(r)] # NoPair
       THEN /\ pair' = [pair EXCEPT ![r] = cache[Name(r)]]
            /\ Loaded(r)
       ELSE /\ Goto(r, "model")
            /\ UNCHANGED pair
    /\ UNCHANGED <<files, shared, restarts, predictions, at, stage, buffer,
                   findings>>

\* The lock is taken; on a hit it is released at once.
LookUp(r) ==
    /\ pc[r] = "lock"
    /\ lock = None
    /\ IF cache[Name(r)] # NoPair
       THEN /\ pair' = [pair EXCEPT ![r] = cache[Name(r)]]
            /\ Loaded(r)
            /\ UNCHANGED lock
       ELSE /\ lock' = r
            /\ Goto(r, "model")
            /\ UNCHANGED pair
    /\ UNCHANGED <<files, cache, loads, overlapped, restarts, predictions, at,
                   stage, buffer, findings>>

\* Slip: the model is cached before its metadata is there.
SlipCacheEarly(r) ==
    /\ pc[r] = "model"
    /\ LET read == [model |-> disk[Name(r)].model, metadata |-> None]
       IN  /\ pair' = [pair EXCEPT ![r] = read]
           /\ cache' = [cache EXCEPT ![Name(r)] = read]
    /\ Goto(r, "metadata")
    /\ UNCHANGED <<files, lock, loads, overlapped, restarts, predictions, at,
                   stage, buffer, findings>>

\* A save of the model has written one of its files.
BeingSaved(m) == disk[m].model # disk[m].metadata

\* joblib.load.
ReadModel(r) ==
    /\ pc[r] = "model"
    /\ pair' = [pair EXCEPT ![r] = [model |-> disk[Name(r)].model, metadata |-> None]]
    /\ overlapped' = [overlapped EXCEPT ![Name(r)] = BeingSaved(Name(r))]
    /\ Goto(r, "metadata")
    /\ UNCHANGED <<files, cache, lock, loads, restarts, predictions, at, stage,
                   buffer, findings>>

\* json.load; the pair is cached and the lock released.
ReadMetadata(r) ==
    /\ pc[r] = "metadata"
    /\ LET read == [pair[r] EXCEPT !.metadata = disk[Name(r)].metadata]
       IN  /\ pair' = [pair EXCEPT ![r] = read]
           /\ cache' = [cache EXCEPT ![Name(r)] = read]
    /\ loads' = [loads EXCEPT ![Name(r)] = @ + 1]
    /\ lock' = None
    /\ Loaded(r)
    /\ UNCHANGED <<files, overlapped, restarts, predictions, at, stage, buffer,
                   findings>>

\* Slip: the lock is not released when a load fails.
SlipKeepLock(r) ==
    /\ pc[r] \in {"model", "metadata"}
    /\ Goto(r, "raised")
    /\ UNCHANGED <<files, shared, restarts, predictions, progress, findings>>

\* A file is missing, damaged or half written: the with statement releases the
\* lock, and the exception, no HTTPException, ends the request with a 500.
LoadFails(r) ==
    /\ pc[r] \in {"model", "metadata"}
    /\ lock' = None
    /\ Goto(r, "raised")
    /\ UNCHANGED <<files, cache, loads, overlapped, restarts, predictions,
                   progress, findings>>

-----------------------------------------------------------------------------
(* The rest of _run_and_persist_prediction.                                *)

CheckMetrics(r) ==
    /\ pc[r] = "metrics"
    /\ IF Name(r) \in Complete
       THEN Goto(r, "fetch") /\ UNCHANGED <<skipped, at>>
       ELSE Refuse(r)
    /\ UNCHANGED <<files, shared, restarts, predictions, stage, pair, buffer,
                   results, winner>>

\* build_buffer: the telemetry of the metrics that this metadata requires.
Fetch(r) ==
    /\ pc[r] = "fetch"
    /\ buffer' = [buffer EXCEPT ![r] = pair[r]]
    /\ stage' = [stage EXCEPT ![r] = "score"]
    /\ Goto(r, "lock")
    /\ UNCHANGED <<files, shared, restarts, predictions, at, pair, findings>>

\* A sibling service is away, a metric is not defined or has no readings, or
\* no time stamp is common to all.
FetchFails(r) ==
    /\ pc[r] = "fetch"
    /\ Refuse(r)
    /\ UNCHANGED <<files, shared, restarts, predictions, stage, pair, buffer,
                   results, winner>>

Row(r, prob) == [request |-> r, at |-> at[r], prob |-> prob]

\* A classifier scores the buffer; the row is committed before anything else
\* is awaited.
Classify(r) ==
    /\ pc[r] = "score" /\ Kind[r] # "explain" /\ Name(r) \in Classifiers
    /\ \E prob \in Probabilities :
         /\ predictions' = predictions \cup {Row(r, prob)}
         /\ results' = [results EXCEPT ![r] = Append(@, [at |-> at[r], prob |-> prob])]
    /\ IF Kind[r] = "attribute" THEN NextName(r)
       ELSE Goto(r, "answered") /\ UNCHANGED at
    /\ UNCHANGED <<files, shared, restarts, stage, pair, buffer, skipped, winner>>

\* An anomaly detector has no probability: it is recorded, and skipped by an
\* attribution.
Detect(r) ==
    /\ pc[r] = "score" /\ Kind[r] # "explain" /\ Name(r) \notin Classifiers
    /\ predictions' = predictions \cup {Row(r, None)}
    /\ IF Kind[r] = "attribute" THEN Refuse(r)
       ELSE Goto(r, "answered") /\ UNCHANGED <<at, skipped>>
    /\ UNCHANGED <<files, shared, restarts, stage, pair, buffer, results, winner>>

\* explain() records nothing.
Explain(r) ==
    /\ pc[r] = "score" /\ Kind[r] = "explain"
    /\ Goto(r, "answered")
    /\ UNCHANGED <<files, shared, restarts, predictions, progress, findings>>

\* The plant is not in the mode the model was trained for, or the features do
\* not fit the model: a ValueError or KeyError that nothing catches.
ScoreFails(r) ==
    /\ pc[r] = "score"
    /\ Goto(r, "raised")
    /\ UNCHANGED <<files, shared, restarts, predictions, progress, findings>>

-----------------------------------------------------------------------------
(* The verdict of attribute_fault.                                         *)

\* max() returns the first of the greatest.
FirstGreatest(rs, candidates) ==
    CHOOSE i \in candidates :
        \A j \in candidates :
            /\ rs[j].prob <= rs[i].prob
            /\ rs[j].prob = rs[i].prob => i <= j

FaultCandidates(rs) == {i \in 1..Len(rs) : PredictedLabel(rs[i].prob) = 1}

\* Slip: the greatest probability of all, be it of a fault or not.
SlipGlobalMax(rs) ==
    IF rs = <<>> THEN None ELSE FirstGreatest(rs, 1..Len(rs))

Winner(rs) ==
    IF FaultCandidates(rs) = {} THEN None
    ELSE FirstGreatest(rs, FaultCandidates(rs))

Attribute(r) ==
    /\ pc[r] = "verdict"
    /\ winner' = [winner EXCEPT ![r] = Winner(results[r])]
    /\ Goto(r, "answered")
    /\ UNCHANGED <<files, shared, restarts, predictions, progress, results, skipped>>

-----------------------------------------------------------------------------
(* The environment.                                                        *)

\* _save_model writes the model, then its metadata.
SaveModel(m) ==
    /\ ~BeingSaved(m)
    /\ disk[m].model < MaxRetrains
    /\ disk' = [disk EXCEPT ![m].model = @ + 1]
    /\ overlapped' = [overlapped EXCEPT ![m] =
           @ \/ \E r \in Requests : pc[r] = "metadata" /\ Name(r) = m]
    /\ UNCHANGED <<cache, lock, loads, restarts, predictions, pc, progress, findings>>

SaveMetadata(m) ==
    /\ BeingSaved(m)
    /\ disk' = [disk EXCEPT ![m].metadata = disk[m].model]
    /\ UNCHANGED <<shared, restarts, predictions, pc, progress, findings>>

\* ml-service dies and is started again: the cache and the requests that had
\* not ended are lost, what was committed stays.
Restart ==
    LET Fresh(local, initial) ==
            [r \in Requests |-> IF pc[r] \in Ended THEN local[r] ELSE initial]
    IN  /\ restarts < MaxRestarts
        /\ restarts' = restarts + 1
        /\ cache' = [m \in Models |-> NoPair]
        /\ lock' = None
        /\ loads' = [m \in Models |-> 0]
        /\ overlapped' = [m \in Models |-> FALSE]
        /\ pc' = [r \in Requests |->
                     IF pc[r] \in Ended \cup {"idle"} THEN pc[r] ELSE "lost"]
        /\ at' = Fresh(at, 1)
        /\ stage' = Fresh(stage, "metrics")
        /\ pair' = Fresh(pair, NoPair)
        /\ buffer' = Fresh(buffer, NoPair)
        /\ results' = Fresh(results, <<>>)
        /\ skipped' = Fresh(skipped, {})
        /\ winner' = Fresh(winner, None)
        /\ UNCHANGED <<files, predictions>>

Serve(r) ==
    \/ FindMetadata(r)
    \/ LookUp(r)
    \/ ReadModel(r)
    \/ ReadMetadata(r)
    \/ LoadFails(r)
    \/ CheckMetrics(r)
    \/ Fetch(r)
    \/ FetchFails(r)
    \/ Classify(r)
    \/ Detect(r)
    \/ Explain(r)
    \/ ScoreFails(r)
    \/ Attribute(r)

Next ==
    \/ \E r \in Requests : Begin(r) \/ Serve(r)
    \/ \E m \in Retrained : SaveModel(m) \/ SaveMetadata(m)
    \/ Restart

Spec == Init /\ [][Next]_vars

\* The event loop and the threads of the pool are scheduled; that requests
\* arrive or models are saved is not promised.
FairSpec == Spec /\ \A r \in Requests : WF_vars(Serve(r))

-----------------------------------------------------------------------------
(* Properties.                                                             *)

TypeOK ==
    /\ disk \in [Models -> Pairs]
    /\ cache \in [Models -> Pairs \cup {NoPair}]
    /\ lock \in Requests \cup {None}
    /\ loads \in [Models -> Nat]
    /\ overlapped \in [Models -> BOOLEAN]
    /\ restarts \in Nat
    /\ predictions \subseteq
          [request: Requests, at: Nat, prob: Probabilities \cup {None}]
    /\ pc \in [Requests -> Labels]
    /\ at \in [Requests -> Nat]
    /\ stage \in [Requests -> {"metrics", "score"}]
    /\ pair \in [Requests -> [model: Versions \cup {None},
                              metadata: Versions \cup {None}]]
    /\ buffer \in [Requests -> [model: Versions \cup {None},
                                metadata: Versions \cup {None}]]
    /\ results \in [Requests -> Seq([at: Nat, prob: Probabilities])]
    /\ skipped \in [Requests -> SUBSET Nat]
    /\ winner \in [Requests -> Nat \cup {None}]

\* _model_cache_lock does what it is for: however many requests miss the cache
\* at once, a process loads a model at most once.
LoadedOnce == \A m \in Models : loads[m] <= 1

\* The handler loads the model twice, before and after it awaits the telemetry:
\* both loads return the same model and metadata, even if the model is saved
\* anew in between.  So a model scores the metrics that its own version's
\* metadata names, unless the model was being saved while this process loaded
\* it: a load between the two saves caches a new model beside old metadata, and
\* that pair is what is used until the process ends.
BufferFitsModel ==
    \A r \in Requests : pc[r] = "score" =>
        /\ pair[r] = buffer[r]
        /\ ~overlapped[Name(r)] => pair[r].model = buffer[r].metadata

Recorded(r) == {row \in predictions : row.request = r}

\* What an answered attribution says is what the predictions table says: its
\* results are the rows of classifiers the request wrote, every name is either
\* evaluated or skipped, and the fault it names was recorded as one, with no
\* recorded fault more probable; if it names none, none was recorded.
VerdictIsRecorded ==
    \A r \in Requests :
        (Kind[r] = "attribute" /\ pc[r] = "answered") =>
            LET rs == results[r]
                scored == {row \in Recorded(r) : row.prob # None}
                faults == {row \in scored : PredictedLabel(row.prob) = 1}
            IN  /\ scored = {[request |-> r, at |-> rs[i].at, prob |-> rs[i].prob] :
                                 i \in 1..Len(rs)}
                /\ {rs[i].at : i \in 1..Len(rs)} \cup skipped[r] = 1..Len(Names[r])
                /\ IF winner[r] = None THEN faults = {}
                   ELSE \E row \in faults :
                          /\ rs[winner[r]] = [at |-> row.at, prob |-> row.prob]
                          /\ \A other \in faults : other.prob <= row.prob

\* Every request ends: a load that fails leaves the lock to the next thread.
RequestsEnd == \A r \in Requests : pc[r] = "exists" ~> pc[r] \in Ended
=============================================================================
