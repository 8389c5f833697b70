----------------------------- MODULE CopilotChat -----------------------------
(***************************************************************************)
(* A conversation with the copilot: the panel of the web front end         *)
(* (frontend/components/copilot), the chat handler with its tool loop      *)
(* (copilot-service/app/routers/chat.py), the memory it keeps of earlier   *)
(* turns (services/history.py) and its tools (tools/executors.py).         *)
(*                                                                         *)
(* The handler runs on one event loop and calls the language model without *)
(* await: everything between two awaits, replies of the model included, is *)
(* one action.  It awaits the access check and every tool that asks        *)
(* another service; searching the knowledge base awaits nothing, so a      *)
(* reply that only searches is followed by the next one in the same step.  *)
(***************************************************************************)
EXTENDS Naturals, FiniteSets, SequencesExt

CONSTANTS
    Users,              \* who may ask
    Assets,             \* what they ask about
    Clients,            \* chat panels, and scripts that call the service
    Scripts,            \* the clients that send any conversation id
    UserOf,             \* whose client it is
    AssetOf,            \* the asset it asks about
    MaxTurns,           \* bound: how many questions are sent
    QuestionSizes,      \* lengths of a question, in tokens
    AnswerSizes,        \* lengths of an answer
    HistoryTokenBudget, \* HISTORY_TOKEN_BUDGET
    MaxToolIterations,  \* MAX_TOOL_ITERATIONS
    MaxToolCalls        \* bound: calls of awaited tools in one reply

ASSUME ChatAssumption ==
    /\ Scripts \subseteq Clients
    /\ UserOf \in [Clients -> Users] /\ AssetOf \in [Clients -> Assets]
    /\ MaxTurns \in Nat /\ HistoryTokenBudget \in Nat /\ QuestionSizes \cup AnswerSizes \subseteq Nat
    /\ MaxToolIterations \in Nat \ {0} /\ MaxToolCalls \in Nat \ {0}

VARIABLES
    conversations, \* table conversations, in the order they were created
    messages,      \* table messages: of every conversation, oldest first
    turn,          \* the chat requests
    client         \* ChatPanel's state

vars == <<conversations, messages, turn, client>>

Turns == 1 .. MaxTurns
Ids == 1 .. MaxTurns             \* a turn creates at most one conversation
Message == [role: {"user", "assistant"}, turn: Turns, size: QuestionSizes \cup AnswerSizes]
Tools == {"metric", "diagnose"}  \* get_alert_history ends like diagnose_fault

(* step: where the handler is; known: what the client knows of the answer. *)
(* The handler's locals, from iteration on, are gone when it ends, and a   *)
(* turn that failed keeps nothing.                                         *)
TurnRecord == [by: Clients, size: QuestionSizes, conv: 0 .. MaxTurns + 1,
               step: {"checking", "tool", "answered", "failed"},
               known: {"waiting", "shown", "error", "gone"},
               history: Seq(Message), iteration: 0 .. MaxToolIterations,
               calls: 0 .. MaxToolCalls, tool: Tools \cup {"none"}]
ClientRecord == [conv: {0} \cup Ids, shown: Seq(Turns), pending: {0} \cup Turns]

TypeOK ==
    /\ conversations \in Seq([user: Users, asset: Assets]) /\ Len(conversations) <= MaxTurns
    /\ messages \in [Ids -> Seq(Message)]
    /\ turn \in Seq(TurnRecord) /\ Len(turn) <= MaxTurns
    /\ client \in [Clients -> ClientRecord]

Asked == DOMAIN turn
Running == {"checking", "tool"}

-----------------------------------------------------------------------------
(* services/history.py *)

(* Mutant: a message that does not fit is skipped, older ones are tried. *)
SlipSkipLarge(log) ==
    LET Walk(m, acc) == IF acc.tokens + m.size > HistoryTokenBudget THEN acc
                        ELSE [acc EXCEPT !.kept = <<m>> \o @, !.tokens = @ + m.size]
    IN  FoldRight(Walk, log, [kept |-> <<>>, tokens |-> 0]).kept

(* load_history_within_budget: from the newest message backward, up to the *)
(* first that does not fit; oldest first again.                            *)
LoadHistory(log) ==
    LET Walk(m, acc) ==
            IF acc.full \/ acc.tokens + m.size > HistoryTokenBudget
            THEN [acc EXCEPT !.full = TRUE]
            ELSE [acc EXCEPT !.kept = <<m>> \o @, !.tokens = @ + m.size]
    IN  FoldRight(Walk, log, [kept |-> <<>>, tokens |-> 0, full |-> FALSE]).kept

-----------------------------------------------------------------------------
(* tools/executors.py *)

(* asset-service's GET /asset-types for a member: 422 when its required    *)
(* query parameter is missing.                                             *)
ListAssetTypes(query) == IF "organization_id" \in query THEN 200 ELSE 422

(* _get_metric_id: the status of GET /assets/{asset_id}, then the types;   *)
(* a value other than 200 is raised and ends the turn.                     *)
GetMetricId(assetStatus) ==
    IF assetStatus # 200 THEN 503
    ELSE IF ListAssetTypes({}) # 200 THEN 503 ELSE 200

-----------------------------------------------------------------------------
(* frontend/components/copilot *)

Ask(c, size, id) ==
    /\ client[c].pending = 0 /\ Len(turn) < MaxTurns
    /\ turn' = Append(turn, [by |-> c, size |-> size, conv |-> id,
                             step |-> "checking", known |-> "waiting",
                             history |-> <<>>, iteration |-> 0,
                             calls |-> 0, tool |-> "none"])
    /\ client' = [client EXCEPT ![c].pending = Len(turn) + 1]
    /\ UNCHANGED <<conversations, messages>>

(* Mutant: the panel never passes the conversation on. *)
SlipForget(c, size) == c \in Clients \ Scripts /\ Ask(c, size, 0)

(* onSubmit: not while an answer is pending.                               *)
Submit(c, size) == c \in Clients \ Scripts /\ Ask(c, size, client[c].conv)

(* The retry button under a question that failed sends it again, as a new  *)
(* turn of the conversation the panel is in by then.                       *)
Retry(c, n) ==
    /\ n \in Asked /\ turn[n].by = c /\ turn[n].known = "error"
    /\ c \in Clients \ Scripts /\ Ask(c, turn[n].size, client[c].conv)

(* A script sends any conversation id, one that does not exist included.   *)
Call(c, size, id) == c \in Scripts /\ Ask(c, size, id)

(* The page is left or another asset is selected: the panel is mounted     *)
(* anew and empty, the request goes on at the service.                     *)
Remount(c) ==
    /\ client[c].pending # 0 \/ client[c].shown # <<>>
    /\ client' = [client EXCEPT ![c] = [conv |-> 0, shown |-> <<>>, pending |-> 0]]
    /\ turn' = [n \in Asked |-> IF turn[n].by = c
                                THEN [turn[n] EXCEPT !.known = "gone"] ELSE turn[n]]
    /\ UNCHANGED <<conversations, messages>>

(* onSuccess: the answer is shown and its conversation becomes the panel's.*)
AnswerArrives(n) ==
    LET c == turn[n].by
    IN  /\ turn[n].step = "answered" /\ turn[n].known = "waiting"
        /\ turn' = [turn EXCEPT ![n].known = "shown"]
        /\ client' = [client EXCEPT ![c] = [conv |-> turn[n].conv,
                                            shown |-> Append(@.shown, n), pending |-> 0]]
        /\ UNCHANGED <<conversations, messages>>

(* onError: an error status arrives, or the connection breaks at any time  *)
(* and the handler, if it still runs, does not notice.                     *)
ErrorArrives(n) ==
    /\ turn[n].known = "waiting"
    /\ turn' = [turn EXCEPT ![n].known = "error"]
    /\ client' = [client EXCEPT ![turn[n].by].pending = 0]
    /\ UNCHANGED <<conversations, messages>>

-----------------------------------------------------------------------------
(* routers/chat.py *)

Ended(r, step) ==
    [r EXCEPT !.step = step, !.iteration = 0, !.calls = 0, !.tool = "none"]
Answered(r) == Ended(r, "answered")
Failed(r) == [Ended(r, "failed") EXCEPT !.conv = 0, !.history = <<>>]

(* The turn fails with an error status: nothing of it is stored.           *)
Fail(n, r) ==
    /\ turn' = [turn EXCEPT ![n] = Failed(r)]
    /\ UNCHANGED messages

(* Mutant: the replies are not counted. *)
SlipNoCap(n, r) ==
    \/ Fail(n, r)
    \/ \E size \in AnswerSizes :
          /\ messages' = [messages EXCEPT ![r.conv] = @ \o
                <<[role |-> "user", turn |-> n, size |-> r.size],
                  [role |-> "assistant", turn |-> n, size |-> size]>>]
          /\ turn' = [turn EXCEPT ![n] = Answered(r)]
    \/ \E t \in Tools, k \in 1 .. MaxToolCalls :
          /\ turn' = [turn EXCEPT ![n] = [r EXCEPT !.step = "tool", !.calls = k, !.tool = t,
                                      !.iteration = (r.iteration % MaxToolIterations) + 1]]
          /\ UNCHANGED messages

(* Mutant: the question is committed before the model is asked. *)
SlipQuestionFirst(n, r) ==
    LET asked == IF r.step = "checking"
                 THEN [messages EXCEPT ![r.conv] = Append(@,
                          [role |-> "user", turn |-> n, size |-> r.size])]
                 ELSE messages
    IN  \/ /\ turn' = [turn EXCEPT ![n] = Failed(r)]
           /\ messages' = asked
        \/ \E i \in r.iteration + 1 .. MaxToolIterations :
              \/ \E size \in AnswerSizes :
                    /\ messages' = [asked EXCEPT ![r.conv] = Append(@,
                          [role |-> "assistant", turn |-> n, size |-> size])]
                    /\ turn' = [turn EXCEPT ![n] = Answered(r)]
              \/ \E t \in Tools, k \in 1 .. MaxToolCalls :
                    /\ turn' = [turn EXCEPT ![n] = [r EXCEPT !.step = "tool",
                                   !.iteration = i, !.calls = k, !.tool = t]]
                    /\ messages' = asked

(* The model is asked, and again after replies that only search, until it  *)
(* answers (question and answer are then stored together), calls a tool    *)
(* that is awaited, or the turn fails: the model's service, the arguments  *)
(* of a call, or no answer in MAX_TOOL_ITERATIONS replies.                 *)
AskModel(n, r) ==
    \/ Fail(n, r)
    \/ \E i \in r.iteration + 1 .. MaxToolIterations :
          \/ \E size \in AnswerSizes :
                /\ messages' = [messages EXCEPT ![r.conv] = @ \o
                      <<[role |-> "user", turn |-> n, size |-> r.size],
                        [role |-> "assistant", turn |-> n, size |-> size]>>]
                /\ turn' = [turn EXCEPT ![n] = Answered(r)]
          \/ \E t \in Tools, k \in 1 .. MaxToolCalls :
                /\ turn' = [turn EXCEPT ![n] = [r EXCEPT !.step = "tool",
                               !.iteration = i, !.calls = k, !.tool = t]]
                /\ UNCHANGED messages

(* _get_or_create_conversation: it exists, and is the caller's about the   *)
(* asset.                                                                  *)
MayContinue(c, id) ==
    /\ id \in DOMAIN conversations
    /\ conversations[id] = [user |-> UserOf[c], asset |-> AssetOf[c]]

(* verify_asset_access has returned: a conversation is created and         *)
(* committed, or found, its history loaded and the model asked.            *)
Begin(n) ==
    LET c == turn[n].by
        id == IF turn[n].conv = 0 THEN Len(conversations) + 1 ELSE turn[n].conv
        begun == [turn[n] EXCEPT !.conv = id, !.history = LoadHistory(messages[id])]
    IN  /\ turn[n].step = "checking"
        /\ \/ /\ turn[n].conv = 0
              /\ conversations' = Append(conversations,
                                    [user |-> UserOf[c], asset |-> AssetOf[c]])
              /\ AskModel(n, begun)
           \/ /\ turn[n].conv # 0 /\ MayContinue(c, turn[n].conv)
              /\ AskModel(n, begun)
              /\ UNCHANGED conversations
           \/ /\ turn[n].conv # 0 /\ ~MayContinue(c, turn[n].conv)
              /\ Fail(n, turn[n])
              /\ UNCHANGED conversations
        /\ UNCHANGED client

(* The access check refuses (401, 403, 404) or asset-service is down (503).*)
Refuse(n) ==
    /\ turn[n].step = "checking"
    /\ Fail(n, turn[n])
    /\ UNCHANGED <<conversations, client>>

(* A tool returns: the next call of the same reply, or the model again.    *)
ToolReturns(n) ==
    /\ turn[n].step = "tool"
    /\ turn[n].tool = "metric" => GetMetricId(200) = 200
    /\ \/ /\ turn[n].calls > 1
          /\ \E t \in Tools :
                turn' = [turn EXCEPT ![n].calls = @ - 1, ![n].tool = t]
          /\ UNCHANGED messages
       \/ /\ turn[n].calls = 1
          /\ AskModel(n, [turn[n] EXCEPT !.calls = 0, !.tool = "none"])
    /\ UNCHANGED <<conversations, client>>

(* A tool raises: its service cannot be reached, or a metric is not found. *)
ToolRaises(n) ==
    /\ turn[n].step = "tool"
    /\ Fail(n, turn[n])
    /\ UNCHANGED <<conversations, client>>

(* The service restarts: what its requests held in memory is gone.         *)
Crash ==
    /\ \E n \in Asked : turn[n].step \in Running
    /\ turn' = [n \in Asked |-> IF turn[n].step \in Running
                                THEN Failed(turn[n]) ELSE turn[n]]
    /\ UNCHANGED <<conversations, messages, client>>

-----------------------------------------------------------------------------
Init ==
    /\ conversations = <<>>
    /\ messages = [id \in Ids |-> <<>>]
    /\ turn = <<>>
    /\ client = [c \in Clients |-> [conv |-> 0, shown |-> <<>>, pending |-> 0]]

Next ==
    \/ \E c \in Clients, size \in QuestionSizes :
          \/ Submit(c, size)
          \/ \E id \in {0, MaxTurns + 1} \cup DOMAIN conversations : Call(c, size, id)
    \/ \E c \in Clients : Remount(c) \/ \E n \in Asked : Retry(c, n)
    \/ \E n \in Asked :
          \/ AnswerArrives(n) \/ ErrorArrives(n)
          \/ Begin(n) \/ Refuse(n) \/ ToolReturns(n) \/ ToolRaises(n)
    \/ Crash

Spec == Init /\ [][Next]_vars

(* Every wait of the handler ends: its HTTP clients have timeouts.  A      *)
(* response, or the end of the connection, reaches a client that waits.    *)
Works(n) == n \in Asked /\ (Begin(n) \/ Refuse(n) \/ ToolReturns(n) \/ ToolRaises(n))
Hears(n) ==
    /\ n \in Asked /\ turn[n].step \notin Running
    /\ AnswerArrives(n) \/ ErrorArrives(n)
FairSpec ==
    /\ Spec
    /\ \A n \in Turns : WF_vars(Works(n)) /\ WF_vars(Hears(n))

-----------------------------------------------------------------------------
(* Properties *)

Stored(id) == messages[id]

(* What is stored are whole turns: a question directly followed by its own *)
(* answer, each turn at most once, and exactly the turns that were         *)
(* answered, whatever overlaps, fails, is retried or crashes.              *)
StoredInPairs ==
    /\ \A id \in Ids : \A i \in DOMAIN Stored(id) :
          LET m == Stored(id)[i]
          IN  IF i % 2 = 1
              THEN /\ m.role = "user" /\ i + 1 \in DOMAIN Stored(id)
                   /\ Stored(id)[i + 1].role = "assistant"
                   /\ Stored(id)[i + 1].turn = m.turn
              ELSE m.role = "assistant"
    /\ \A n \in Asked : \A id \in Ids :
          Cardinality({i \in DOMAIN Stored(id) : Stored(id)[i].turn = n}) =
              IF turn[n].step = "answered" /\ turn[n].conv = id THEN 2 ELSE 0

(* What the model is given of the past is the end of the conversation, cut *)
(* nowhere but at its start, and as much of it as the budget allows.       *)
TotalSize(log) == FoldLeft(LAMBDA sum, m : sum + m.size, 0, log)
HistoryIsWindow ==
    [][\A n \in Asked :
          turn[n].step = "checking" /\ turn'[n].step \in {"tool", "answered"} =>
             LET log == messages[turn'[n].conv]
                 kept == Len(turn'[n].history)
                 last(k) == SubSeq(log, Len(log) - k + 1, Len(log))
             IN  /\ kept <= Len(log) /\ turn'[n].history = last(kept)
                 /\ TotalSize(last(kept)) <= HistoryTokenBudget
                 /\ kept < Len(log) => TotalSize(last(kept + 1)) > HistoryTokenBudget]_vars

(* The answers a panel shows are stored in the conversation it continues,  *)
(* in the order it shows them: the next question is asked in the context   *)
(* its user sees, also after lost answers and retries that overlap.        *)
ShownIsContinued ==
    \A c \in Clients \ Scripts :
        LET shown == client[c].shown
            stored == Stored(client[c].conv)
            answers(k, i) == stored[k].role = "assistant" /\ stored[k].turn = shown[i]
        IN  shown # <<>> =>
              /\ client[c].conv # 0
              /\ \A i \in DOMAIN shown : \E k \in DOMAIN stored : answers(k, i)
              /\ \A i, j \in DOMAIN shown, k, l \in DOMAIN stored :
                    answers(k, i) /\ answers(l, j) /\ i < j => k < l

(* A question is answered or fails: the panel does not wait for ever, also *)
(* when the model never stops to call tools or the service restarts.       *)
TurnsEnd ==
    \A c \in Clients : client[c].pending # 0 ~> client[c].pending = 0

(* A metric is looked up as ml-service does (executors.py): when the asset *)
(* can be read, so can its type, and the turn goes on.  Every lookup       *)
(* violates it.                                                            *)
MetricsAreFound ==
    \A n \in Asked : turn[n].tool = "metric" => GetMetricId(200) = 200
=============================================================================
