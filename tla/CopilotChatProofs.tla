-------------------------- MODULE CopilotChatProofs --------------------------
(***************************************************************************)
(* Theorems about CopilotChat, for every set of users, assets and clients, *)
(* every number of questions and of replies, and every budget.             *)
(***************************************************************************)
EXTENDS CopilotChat, FiniteSetTheorems, TLAPS

Panels == Clients \ Scripts

-----------------------------------------------------------------------------
(* Types.  What a turn was given of the past is whatever LoadHistory        *)
(* returned: its histories are of some set H, and nothing depends on it.    *)

TurnIn(H) ==
    [by: Clients, size: QuestionSizes, conv: 0 .. MaxTurns + 1,
     step: {"checking", "tool", "answered", "failed"},
     known: {"waiting", "shown", "error", "gone"},
     history: H, iteration: 0 .. MaxToolIterations,
     calls: 0 .. MaxToolCalls, tool: Tools \cup {"none"}]

TurnsTyped == \E H : turn \in Seq(TurnIn(H))

TypeInv ==
    /\ conversations \in Seq([user: Users, asset: Assets])
    /\ messages \in [Ids -> Seq(Message)]
    /\ TurnsTyped /\ Len(turn) <= MaxTurns
    /\ client \in [Clients -> ClientRecord]

\* A conversation is created by a turn that begins, so there is an id for it.
Begun == {n \in Asked : turn[n].step # "checking"}
ConvInv ==
    /\ Len(conversations) <= Cardinality(Begun)
    /\ \A n \in Asked : turn[n].step \in {"tool", "answered"} =>
          turn[n].conv \in DOMAIN conversations

\* Messages come in pairs, and are those of the turns that were answered.
Paired(log) ==
    \A i \in DOMAIN log :
        IF i % 2 = 1
        THEN /\ log[i].role = "user" /\ i + 1 \in DOMAIN log
             /\ log[i + 1].role = "assistant"
             /\ log[i + 1].turn = log[i].turn
        ELSE log[i].role = "assistant"

Of(n, log) == {i \in DOMAIN log : log[i].turn = n}

OfAnswered(n, id) == n \in Asked /\ turn[n].step = "answered" /\ turn[n].conv = id

PairInv ==
    /\ \A id \in Ids : Paired(messages[id])
    /\ \A id \in Ids : \A i \in DOMAIN messages[id] : OfAnswered(messages[id][i].turn, id)
    /\ \A n \in Asked : turn[n].step = "answered" => Cardinality(Of(n, messages[turn[n].conv])) = 2

\* A panel waits for one turn, of the conversation it is in, and what that
\* turn stores comes after all the panel shows.
Waits(c, n) == n \in Asked /\ turn[n].by = c /\ turn[n].known = "waiting"

InItsConversation(c, n) ==
    IF turn[n].step = "checking" THEN turn[n].conv = client[c].conv
    ELSE turn[n].step \in {"tool", "answered"} /\ client[c].conv # 0 =>
            turn[n].conv = client[c].conv

ShownInv(c) ==
    /\ client[c].conv = 0 => client[c].shown = <<>>
    /\ \A i \in DOMAIN client[c].shown : OfAnswered(client[c].shown[i], client[c].conv)

WaitInv(c) ==
    \A n \in Asked : Waits(c, n) => client[c].pending = n /\ InItsConversation(c, n)

OrderInv(c) ==
    client[c].conv # 0 =>
        LET stored == messages[client[c].conv]
            shown == client[c].shown
        IN  /\ \A i, j \in DOMAIN shown, k, l \in DOMAIN stored :
                  stored[k].turn = shown[i] /\ stored[l].turn = shown[j] /\ i < j => k < l
            /\ \A i \in DOMAIN shown, n \in Asked, k, l \in DOMAIN stored :
                  Waits(c, n) /\ stored[k].turn = shown[i] /\ stored[l].turn = n => k < l

PanelInv == \A c \in Panels : ShownInv(c) /\ WaitInv(c) /\ OrderInv(c)

IInv == TypeInv /\ ConvInv /\ PairInv /\ PanelInv

-----------------------------------------------------------------------------
(* Records and sequences *)

LEMMA TurnsWiden ==
    ASSUME NEW H, NEW G, H \subseteq G
    PROVE  TurnIn(H) \subseteq TurnIn(G) /\ Seq(TurnIn(H)) \subseteq Seq(TurnIn(G))
<1>1. TurnIn(H) \subseteq TurnIn(G)
    BY DEF TurnIn
<1> HIDE DEF TurnIn
<1>2. \A s \in Seq(TurnIn(H)) : s \in Seq(TurnIn(G))
    BY <1>1
<1> QED
    BY <1>1, <1>2

LEMMA IndexSet ==
    ASSUME NEW T, NEW s \in Seq(T)
    PROVE  /\ DOMAIN s = 1 .. Len(s) /\ Len(s) \in Nat
           /\ IsFiniteSet(DOMAIN s) /\ Cardinality(DOMAIN s) = Len(s)
<1>1. DOMAIN s = 1 .. Len(s) /\ Len(s) \in Nat
    OBVIOUS
<1>2. \A k \in Nat : IsFiniteSet(1 .. k) /\ Cardinality(1 .. k) = k
    <2> SUFFICES ASSUME NEW k \in Nat
                 PROVE  IsFiniteSet(1 .. k) /\ Cardinality(1 .. k) = k
        OBVIOUS
    <2>1. /\ IsFiniteSet(1 .. k)
          /\ Cardinality(1 .. k) = IF 1 > k THEN 0 ELSE k - 1 + 1
        BY FS_Interval
    <2> QED
        BY <2>1
<1> QED
    BY <1>1, <1>2

LEMMA AskedIs ==
    ASSUME TypeInv
    PROVE  /\ Asked = 1 .. Len(turn) /\ Len(turn) \in 0 .. MaxTurns
           /\ Asked \subseteq Turns /\ IsFiniteSet(Asked) /\ Cardinality(Asked) = Len(turn)
<1>1. PICK H : turn \in Seq(TurnIn(H))
    BY DEF TypeInv, TurnsTyped
<1>2. /\ Asked = 1 .. Len(turn) /\ Len(turn) \in Nat
      /\ IsFiniteSet(Asked) /\ Cardinality(Asked) = Len(turn)
    BY <1>1, IndexSet DEF Asked
<1> QED
    BY <1>2, ChatAssumption DEF TypeInv, Turns

\* Another state of one turn.
LEMMA TurnChanges ==
    ASSUME TypeInv, NEW n \in Asked, NEW G, NEW r \in TurnIn(G),
           turn' = [turn EXCEPT ![n] = r]
    PROVE  /\ TurnsTyped' /\ Len(turn') = Len(turn) /\ Asked' = Asked
           /\ turn'[n] = r
           /\ \A m \in Asked : m # n => turn'[m] = turn[m]
<1>1. PICK H : turn \in Seq(TurnIn(H))
    BY DEF TypeInv, TurnsTyped
<1>2. turn \in Seq(TurnIn(H \cup G)) /\ r \in TurnIn(H \cup G)
    BY <1>1, TurnsWiden, Zenon
<1>3. /\ turn' \in Seq(TurnIn(H \cup G)) /\ Len(turn') = Len(turn)
      /\ DOMAIN turn' = DOMAIN turn
    BY <1>2 DEF Asked
<1>4. turn'[n] = r /\ \A m \in Asked : m # n => turn'[m] = turn[m]
    BY DEF Asked
<1> QED
    BY <1>3, <1>4 DEF TurnsTyped, Asked

LEMMA TurnOf ==
    ASSUME TypeInv, NEW n \in Asked
    PROVE  \E H : turn[n] \in TurnIn(H)
<1>1. PICK H : turn \in Seq(TurnIn(H))
    BY DEF TypeInv, TurnsTyped
<1>2. turn[n] \in TurnIn(H)
    BY <1>1 DEF Asked
<1> QED
    BY <1>2

LEMMA EndTypes ==
    ASSUME NEW H, NEW r \in TurnIn(H)
    PROVE  /\ Answered(r) \in TurnIn(H) /\ Answered(r).step = "answered"
           /\ Answered(r).by = r.by /\ Answered(r).known = r.known
           /\ Answered(r).conv = r.conv
           /\ Failed(r) \in TurnIn({<<>>}) /\ Failed(r).step = "failed"
           /\ Failed(r).by = r.by /\ Failed(r).known = r.known
<1>1. 0 \in 0 .. MaxTurns + 1 /\ 0 \in 0 .. MaxToolIterations /\ 0 \in 0 .. MaxToolCalls
    BY ChatAssumption
<1>2. ASSUME NEW step \in {"answered", "failed"}
      PROVE  /\ Ended(r, step) \in TurnIn(H) /\ Ended(r, step).step = step
             /\ Ended(r, step).by = r.by /\ Ended(r, step).known = r.known
             /\ Ended(r, step).conv = r.conv
    BY <1>1 DEF Ended, TurnIn
<1>3. ASSUME NEW e \in TurnIn(H)
      PROVE  /\ [e EXCEPT !.conv = 0, !.history = <<>>] \in TurnIn({<<>>})
             /\ [e EXCEPT !.conv = 0, !.history = <<>>].step = e.step
             /\ [e EXCEPT !.conv = 0, !.history = <<>>].by = e.by
             /\ [e EXCEPT !.conv = 0, !.history = <<>>].known = e.known
    BY <1>1, <1>3 DEF TurnIn
<1> QED
    BY <1>2, <1>3 DEF Answered, Failed

\* A turn's question and answer at the end of a conversation.
LEMMA PairAtEnd ==
    ASSUME NEW log \in Seq(Message), NEW q \in Message, NEW a \in Message
    PROVE  LET longer == log \o <<q, a>>
           IN  /\ longer \in Seq(Message) /\ Len(longer) = Len(log) + 2
               /\ DOMAIN longer = 1 .. Len(log) + 2 /\ DOMAIN log = 1 .. Len(log)
               /\ Len(log) \in Nat
               /\ \A k \in DOMAIN log : longer[k] = log[k]
               /\ longer[Len(log) + 1] = q /\ longer[Len(log) + 2] = a
OBVIOUS

-----------------------------------------------------------------------------
(* What a step must leave alone *)

AnswersStay ==
    \A m \in Asked : turn[m].step = "answered" =>
        m \in Asked' /\ turn'[m].step = "answered" /\ turn'[m].conv = turn[m].conv

NoneAnswers ==
    \A m \in Asked' : turn'[m].step = "answered" =>
        m \in Asked /\ turn[m].step = "answered"

\* Messages are kept, and new ones at the end of a conversation are of n.
GrowBy(n) ==
    \A id \in Ids : \A k \in DOMAIN messages'[id] :
        \/ k \in DOMAIN messages[id] /\ messages'[id][k] = messages[id][k]
        \/ messages'[id][k].turn = n /\ \A j \in DOMAIN messages[id] : j < k

\* Who waits after the step for m waited before, or asks m just now.
WaitsAsBefore(c, n) ==
    \A m \in Asked' : Waits(c, m)' =>
        /\ client'[c].pending = m /\ InItsConversation(c, m)'
        /\ Waits(c, m) \/ (m \notin Asked /\ m # n)

LEMMA ConvKeep ==
    ASSUME IInv, Begun \subseteq Begun', TypeInv', UNCHANGED conversations,
           \A m \in Asked' : turn'[m].step \in {"tool", "answered"} =>
              turn'[m].conv \in DOMAIN conversations
    PROVE  ConvInv'
<1>1. Begun' \in SUBSET Asked' /\ Begun \in SUBSET Begun'
    BY DEF Begun
<1>2. IsFiniteSet(Asked')
    <2>1. PICK H : turn' \in Seq(TurnIn(H))
        BY DEF TypeInv, TurnsTyped
    <2> QED
        BY <2>1, IndexSet DEF Asked
<1>3. IsFiniteSet(Begun') /\ Cardinality(Begun) <= Cardinality(Begun') /\ IsFiniteSet(Begun)
    BY <1>1, <1>2, FS_Subset
<1>4. Cardinality(Begun) \in Nat /\ Cardinality(Begun') \in Nat
    BY <1>3, FS_CardinalityType
<1>5. Len(conversations) \in Nat
    BY DEF IInv, TypeInv
<1>6. Len(conversations') <= Cardinality(Begun')
    BY <1>3, <1>4, <1>5 DEF IInv, ConvInv
<1> QED
    BY <1>6 DEF ConvInv

LEMMA PairKeep ==
    ASSUME IInv, UNCHANGED messages, AnswersStay, NoneAnswers
    PROVE  PairInv'
<1>1. (\A id \in Ids : Paired(messages[id]))'
    BY DEF IInv, PairInv
<1>2. \A m, id : OfAnswered(m, id) => OfAnswered(m, id)'
    BY DEF OfAnswered, AnswersStay
<1>3. (\A id \in Ids : \A i \in DOMAIN messages[id] : OfAnswered(messages[id][i].turn, id))'
    <2>1. \A id \in Ids : \A i \in DOMAIN messages[id] : OfAnswered(messages[id][i].turn, id)
        BY DEF IInv, PairInv
    <2>2. \A id \in Ids : \A i \in DOMAIN messages[id] : OfAnswered(messages[id][i].turn, id)'
        BY <1>2, <2>1
    <2> QED
        BY <2>2
<1>4. (\A m \in Asked : turn[m].step = "answered" => Cardinality(Of(m, messages[turn[m].conv])) = 2)'
    <2>1. \A m \in Asked' : turn'[m].step = "answered" =>
             Cardinality(Of(m, messages[turn'[m].conv])) = 2
        BY DEF IInv, PairInv, AnswersStay, NoneAnswers
    <2> QED
        BY <2>1 DEF Of
<1> QED
    BY <1>1, <1>3, <1>4 DEF PairInv

LEMMA PanelKeep ==
    ASSUME IInv, NEW c \in Panels, NEW n, n \notin Asked \/ turn[n].step # "answered",
           messages' \in [Ids -> Seq(Message)], GrowBy(n), AnswersStay,
           client'[c].conv = client[c].conv, client'[c].shown = client[c].shown,
           WaitsAsBefore(c, n)
    PROVE  ShownInv(c)' /\ WaitInv(c)' /\ OrderInv(c)'
<1>1. ShownInv(c) /\ OrderInv(c)
    BY DEF IInv, PanelInv
<1>2. ShownInv(c)'
    BY <1>1 DEF ShownInv, OfAnswered, AnswersStay
<1>3. WaitInv(c)'
    BY DEF WaitInv, WaitsAsBefore
<1>4. OrderInv(c)'
    <2> DEFINE id == client[c].conv
               shown == client[c].shown
    <2>1. SUFFICES ASSUME id # 0
                   PROVE  /\ \A i, j \in DOMAIN shown, k, l \in DOMAIN messages'[id] :
                                messages'[id][k].turn = shown[i]
                                  /\ messages'[id][l].turn = shown[j] /\ i < j => k < l
                          /\ \A i \in DOMAIN shown, m \in Asked', k, l \in DOMAIN messages'[id] :
                                Waits(c, m)' /\ messages'[id][k].turn = shown[i]
                                  /\ messages'[id][l].turn = m => k < l
        BY DEF OrderInv
    <2>2. id \in Ids
        BY <2>1, ChatAssumption DEF IInv, TypeInv, ClientRecord, Panels
    <2> HIDE DEF id, shown
    <2>3. \A k \in DOMAIN messages'[id] :
             \/ k \in DOMAIN messages[id] /\ messages'[id][k] = messages[id][k]
             \/ messages'[id][k].turn = n /\ \A j \in DOMAIN messages[id] : j < k
        BY <2>2 DEF GrowBy
    <2>4. \A i \in DOMAIN shown : shown[i] # n /\ OfAnswered(shown[i], id)
        BY <1>1 DEF ShownInv, OfAnswered, id, shown
    <2>5. \A k \in DOMAIN messages'[id], i \in DOMAIN shown : messages'[id][k].turn = shown[i] =>
             k \in DOMAIN messages[id] /\ messages[id][k].turn = shown[i]
        BY <2>3, <2>4
    <2>6. \A i, j \in DOMAIN shown, k, l \in DOMAIN messages[id] :
             messages[id][k].turn = shown[i] /\ messages[id][l].turn = shown[j] /\ i < j => k < l
        BY <1>1, <2>1 DEF OrderInv, id, shown
    <2>7. ASSUME NEW i \in DOMAIN shown, NEW m \in Asked',
                 NEW k \in DOMAIN messages'[id], NEW l \in DOMAIN messages'[id],
                 Waits(c, m)', messages'[id][k].turn = shown[i], messages'[id][l].turn = m
          PROVE  k < l
        <3>1. k \in DOMAIN messages[id] /\ messages[id][k].turn = shown[i]
            BY <2>5, <2>7
        <3>2. CASE messages'[id][l].turn = n /\ \A j \in DOMAIN messages[id] : j < l
            BY <3>1, <3>2
        <3>3. CASE l \in DOMAIN messages[id] /\ messages'[id][l] = messages[id][l]
            <4>1. m \in Asked
                BY <2>2, <2>7, <3>3 DEF IInv, PairInv, OfAnswered
            <4>2. Waits(c, m)
                BY <2>7, <4>1 DEF WaitsAsBefore
            <4>3. \A p \in DOMAIN shown, q \in Asked, u, v \in DOMAIN messages[id] :
                     Waits(c, q) /\ messages[id][u].turn = shown[p] /\ messages[id][v].turn = q
                        => u < v
                BY <1>1, <2>1 DEF OrderInv, id, shown
            <4> QED
                BY <2>7, <3>1, <3>3, <4>1, <4>2, <4>3
        <3> QED
            BY <2>3, <3>2, <3>3
    <2>8. \A i, j \in DOMAIN shown, k, l \in DOMAIN messages'[id] :
             messages'[id][k].turn = shown[i]
               /\ messages'[id][l].turn = shown[j] /\ i < j => k < l
        BY <2>5, <2>6
    <2> QED
        BY <2>7, <2>8
<1> QED
    BY <1>2, <1>3, <1>4

-----------------------------------------------------------------------------
(* The clients *)

LEMMA PanelsKeep ==
    ASSUME IInv, NEW n, n \notin Asked \/ turn[n].step # "answered",
           messages' \in [Ids -> Seq(Message)], GrowBy(n), AnswersStay,
           \A c \in Panels :
              /\ client'[c].conv = client[c].conv /\ client'[c].shown = client[c].shown
              /\ WaitsAsBefore(c, n)
    PROVE  PanelInv'
BY PanelKeep DEF PanelInv

LEMMA NothingGrows ==
    ASSUME UNCHANGED messages
    PROVE  GrowBy(0)
BY DEF GrowBy

LEMMA ZeroIsNotAsked ==
    ASSUME TypeInv
    PROVE  0 \notin Asked
BY AskedIs

LEMMA ClientFields ==
    ASSUME TypeInv, NEW c \in Clients
    PROVE  /\ client[c] \in ClientRecord
           /\ client[c].conv \in {0} \cup Ids /\ client[c].shown \in Seq(Turns)
           /\ client[c].pending \in {0} \cup Turns
BY DEF TypeInv, ClientRecord

LEMMA AskInv ==
    ASSUME IInv, NEW c \in Clients, NEW size \in QuestionSizes, NEW id \in 0 .. MaxTurns + 1,
           c \in Panels => id = client[c].conv,
           Ask(c, size, id)
    PROVE  IInv'
<1> DEFINE new == [by |-> c, size |-> size, conv |-> id,
                   step |-> "checking", known |-> "waiting",
                   history |-> <<>>, iteration |-> 0, calls |-> 0, tool |-> "none"]
           N == Len(turn) + 1
<1>1. /\ client[c].pending = 0 /\ Len(turn) < MaxTurns
      /\ turn' = Append(turn, new)
      /\ client' = [client EXCEPT ![c].pending = N]
      /\ UNCHANGED <<conversations, messages>>
    BY DEF Ask
<1>2. new \in TurnIn({<<>>}) /\ new.by = c /\ new.conv = id /\ new.step = "checking"
    BY ChatAssumption DEF TurnIn
<1> HIDE DEF new
<1>3. /\ Asked = 1 .. Len(turn) /\ Len(turn) \in Nat /\ N \in Turns
      /\ Len(turn') = N /\ Asked' = Asked \cup {N} /\ N \notin Asked /\ N # 0
      /\ turn'[N] = new /\ TurnsTyped'
      /\ \A m \in Asked : turn'[m] = turn[m]
    <2>1. PICK H : turn \in Seq(TurnIn(H))
        BY DEF IInv, TypeInv, TurnsTyped
    <2>2. turn \in Seq(TurnIn(H \cup {<<>>})) /\ new \in TurnIn(H \cup {<<>>})
        BY <1>2, <2>1, TurnsWiden, Zenon
    <2>3. turn' \in Seq(TurnIn(H \cup {<<>>})) /\ Len(turn') = Len(turn) + 1
        BY <1>1, <2>2
    <2>4. Asked = 1 .. Len(turn) /\ Asked' = 1 .. Len(turn) + 1
        BY <2>2, <2>3, IndexSet DEF Asked
    <2>5. turn'[N] = new /\ \A m \in Asked : turn'[m] = turn[m]
        BY <1>1, <2>2, <2>4
    <2> QED
        BY <1>1, <2>2, <2>3, <2>4, <2>5, ChatAssumption DEF TurnsTyped, Turns
<1>4. /\ client' \in [Clients -> ClientRecord]
      /\ client'[c].pending = N
      /\ \A d \in Clients : /\ client'[d].conv = client[d].conv
                            /\ client'[d].shown = client[d].shown
                            /\ d # c => client'[d] = client[d]
    BY <1>1, <1>3 DEF IInv, TypeInv, ClientRecord
<1>5. TypeInv'
    <2>1. Len(turn') <= MaxTurns
        BY <1>1, <1>3, ChatAssumption
    <2> QED
        BY <1>1, <1>3, <1>4, <2>1 DEF IInv, TypeInv
<1>6. ConvInv'
    <2>1. Begun \subseteq Begun'
        BY <1>3 DEF Begun
    <2>2. \A m \in Asked' : turn'[m].step \in {"tool", "answered"} =>
             turn'[m].conv \in DOMAIN conversations
        BY <1>2, <1>3 DEF IInv, ConvInv
    <2> QED
        BY <1>1, <1>5, <2>1, <2>2, ConvKeep
<1>7. AnswersStay /\ NoneAnswers
    BY <1>2, <1>3 DEF AnswersStay, NoneAnswers
<1>8. PairInv'
    BY <1>1, <1>7, PairKeep
<1>9. PanelInv'
    <2>1. ASSUME NEW d \in Panels PROVE WaitsAsBefore(d, 0)
        <3>1. SUFFICES ASSUME NEW m \in Asked', Waits(d, m)'
                       PROVE  /\ client'[d].pending = m /\ InItsConversation(d, m)'
                              /\ Waits(d, m) \/ (m \notin Asked /\ m # 0)
            BY DEF WaitsAsBefore
        <3>2. d \in Clients
            BY DEF Panels
        <3>3. CASE m = N
            <4>1. d = c
                BY <1>2, <1>3, <3>1, <3>3 DEF Waits
            <4> QED
                BY <1>2, <1>3, <1>4, <3>3, <4>1 DEF InItsConversation
        <3>4. CASE m # N
            <4>1. m \in Asked /\ Waits(d, m) /\ turn'[m] = turn[m]
                BY <1>3, <3>1, <3>4 DEF Waits
            <4>2. client[d].pending = m /\ InItsConversation(d, m)
                BY <4>1 DEF IInv, PanelInv, WaitInv
            <4>3. d # c
                BY <1>1, <1>3, <4>1, <4>2
            <4>4. InItsConversation(d, m)'
                BY <1>4, <3>2, <4>1, <4>2, <4>3 DEF InItsConversation
            <4> QED
                BY <1>4, <3>2, <4>1, <4>2, <4>3, <4>4
        <3> QED
            BY <3>3, <3>4
    <2>2. messages' \in [Ids -> Seq(Message)] /\ GrowBy(0) /\ 0 \notin Asked
        BY <1>1, NothingGrows, ZeroIsNotAsked DEF IInv, TypeInv
    <2>3. \A d \in Panels : d \in Clients
        BY DEF Panels
    <2> QED
        BY <1>4, <1>7, <2>1, <2>2, <2>3, PanelsKeep
<1> QED
    BY <1>5, <1>6, <1>8, <1>9 DEF IInv

\* Answers stay answers when only what the clients know changes.
LEMMA KnownChanges ==
    ASSUME IInv, TypeInv', Asked' = Asked, UNCHANGED <<conversations, messages>>,
           \A m \in Asked : turn'[m].step = turn[m].step /\ turn'[m].conv = turn[m].conv
    PROVE  AnswersStay /\ NoneAnswers /\ ConvInv' /\ PairInv'
<1>1. AnswersStay /\ NoneAnswers
    BY DEF AnswersStay, NoneAnswers
<1>2. Begun \subseteq Begun'
    BY DEF Begun
<1>3. \A m \in Asked' : turn'[m].step \in {"tool", "answered"} =>
         turn'[m].conv \in DOMAIN conversations
    BY DEF IInv, ConvInv
<1> QED
    BY <1>1, <1>2, <1>3, ConvKeep, PairKeep


\* A panel is mounted anew: nothing is shown and nobody waits.
LEMMA RemountInv ==
    ASSUME IInv, NEW c \in Clients, Remount(c)
    PROVE  IInv'
<1>1. /\ client' = [client EXCEPT ![c] = [conv |-> 0, shown |-> <<>>, pending |-> 0]]
      /\ turn' = [n \in Asked |-> IF turn[n].by = c
                                  THEN [turn[n] EXCEPT !.known = "gone"] ELSE turn[n]]
      /\ UNCHANGED <<conversations, messages>>
    BY DEF Remount
<1>2. /\ Asked' = Asked /\ TurnsTyped' /\ Len(turn') = Len(turn)
      /\ \A m \in Asked :
            /\ turn'[m].step = turn[m].step /\ turn'[m].conv = turn[m].conv
            /\ turn'[m].by = turn[m].by
            /\ turn[m].by = c => turn'[m].known = "gone"
            /\ turn[m].by # c => turn'[m] = turn[m]
    <2>1. PICK H : turn \in Seq(TurnIn(H))
        BY DEF IInv, TypeInv, TurnsTyped
    <2>2. Asked = 1 .. Len(turn) /\ Len(turn) \in Nat /\ \A m \in Asked : turn[m] \in TurnIn(H)
        BY <2>1, IndexSet DEF Asked
    <2>3. ASSUME NEW m \in Asked
          PROVE  /\ turn'[m] \in TurnIn(H)
                 /\ turn'[m].step = turn[m].step /\ turn'[m].conv = turn[m].conv
                 /\ turn'[m].by = turn[m].by
                 /\ turn[m].by = c => turn'[m].known = "gone"
                 /\ turn[m].by # c => turn'[m] = turn[m]
        BY <1>1, <2>2 DEF TurnIn
    <2>4. DOMAIN turn' = 1 .. Len(turn)
        BY <1>1, <2>2
    <2> HIDE DEF TurnIn
    <2>5. turn' \in Seq(TurnIn(H)) /\ Len(turn') = Len(turn)
        <3> DEFINE f(m) == turn'[m]
        <3>1. turn' = [m \in 1 .. Len(turn) |-> f(m)]
            BY <1>1, <2>2
        <3>2. \A m \in 1 .. Len(turn) : f(m) \in TurnIn(H)
            BY <2>2, <2>3
        <3> HIDE DEF f
        <3> QED
            BY <2>2, <3>1, <3>2
    <2> QED
        BY <2>2, <2>3, <2>4, <2>5 DEF TurnsTyped, Asked
<1>3. /\ client' \in [Clients -> ClientRecord]
      /\ client'[c].conv = 0 /\ client'[c].shown = <<>>
      /\ \A d \in Clients : d # c => client'[d] = client[d]
    BY <1>1 DEF IInv, TypeInv, ClientRecord
<1>4. TypeInv'
    BY <1>1, <1>2, <1>3 DEF IInv, TypeInv
<1>5. AnswersStay /\ NoneAnswers /\ ConvInv' /\ PairInv'
    BY <1>1, <1>2, <1>4, KnownChanges
<1>6. ASSUME NEW d \in Panels PROVE (ShownInv(d) /\ WaitInv(d) /\ OrderInv(d))'
    <2>1. d \in Clients
        BY DEF Panels
    <2>2. CASE d = c
        <3>1. \A m \in Asked' : ~Waits(d, m)'
            BY <1>2, <2>2 DEF Waits
        <3> QED
            BY <1>3, <2>2, <3>1 DEF ShownInv, WaitInv, OrderInv
    <2>3. CASE d # c
        <3>1. client'[d] = client[d]
            BY <1>3, <2>1, <2>3
        <3>2. ASSUME NEW m \in Asked', Waits(d, m)'
              PROVE  m \in Asked /\ Waits(d, m) /\ turn'[m] = turn[m]
            BY <1>2, <2>3, <3>2 DEF Waits
        <3>3. WaitsAsBefore(d, 0)
            BY <3>1, <3>2 DEF WaitsAsBefore, IInv, PanelInv, WaitInv, InItsConversation
        <3>4. messages' \in [Ids -> Seq(Message)] /\ GrowBy(0) /\ 0 \notin Asked
            BY <1>1, NothingGrows, ZeroIsNotAsked DEF IInv, TypeInv
        <3> QED
            BY <1>5, <3>1, <3>3, <3>4, PanelKeep
    <2> QED
        BY <2>2, <2>3
<1> QED
    BY <1>4, <1>5, <1>6 DEF IInv, PanelInv

\* The panel of an answered or failed turn gets to know of it.
LEMMA KnownTypes ==
    ASSUME IInv, NEW n \in Asked, NEW known \in {"shown", "error"},
           turn' = [turn EXCEPT ![n].known = known]
    PROVE  /\ TurnsTyped' /\ Len(turn') = Len(turn) /\ Asked' = Asked
           /\ turn'[n].known = known
           /\ \A m \in Asked : turn'[m].step = turn[m].step /\ turn'[m].conv = turn[m].conv
                               /\ turn'[m].by = turn[m].by
           /\ \A m \in Asked : m # n => turn'[m] = turn[m]
<1> DEFINE q == [turn[n] EXCEPT !.known = known]
<1>1. PICK H : turn[n] \in TurnIn(H)
    BY TurnOf DEF IInv
<1>2. q \in TurnIn(H) /\ q.step = turn[n].step /\ q.conv = turn[n].conv
      /\ q.by = turn[n].by /\ q.known = known
    BY <1>1 DEF TurnIn
<1>3. turn' = [turn EXCEPT ![n] = q]
    OBVIOUS
<1> HIDE DEF q
<1>4. /\ TurnsTyped' /\ Len(turn') = Len(turn) /\ Asked' = Asked
      /\ turn'[n] = q
      /\ \A m \in Asked : m # n => turn'[m] = turn[m]
    BY <1>2, <1>3, TurnChanges DEF IInv
<1> QED
    BY <1>2, <1>4

LEMMA ErrorInv ==
    ASSUME IInv, NEW n \in Asked, ErrorArrives(n)
    PROVE  IInv'
<1> DEFINE c == turn[n].by
<1>1. /\ turn[n].known = "waiting"
      /\ turn' = [turn EXCEPT ![n].known = "error"]
      /\ client' = [client EXCEPT ![c].pending = 0]
      /\ UNCHANGED <<conversations, messages>>
    BY DEF ErrorArrives
<1>2. c \in Clients
    BY TurnOf DEF TurnIn, IInv
<1> HIDE DEF c
<1>3. /\ TurnsTyped' /\ Len(turn') = Len(turn) /\ Asked' = Asked
      /\ turn'[n].known = "error"
      /\ \A m \in Asked : turn'[m].step = turn[m].step /\ turn'[m].conv = turn[m].conv
                          /\ turn'[m].by = turn[m].by
      /\ \A m \in Asked : m # n => turn'[m] = turn[m]
    BY <1>1, KnownTypes
<1>4. /\ client' \in [Clients -> ClientRecord]
      /\ \A d \in Clients : /\ client'[d].conv = client[d].conv
                            /\ client'[d].shown = client[d].shown
                            /\ d # c => client'[d] = client[d]
    BY <1>1, <1>2 DEF IInv, TypeInv, ClientRecord
<1>5. TypeInv'
    BY <1>1, <1>3, <1>4 DEF IInv, TypeInv
<1>6. AnswersStay /\ NoneAnswers /\ ConvInv' /\ PairInv'
    BY <1>1, <1>3, <1>5, KnownChanges
<1>7. ASSUME NEW d \in Panels PROVE WaitsAsBefore(d, 0)
    <2>1. d \in Clients
        BY DEF Panels
    <2>2. ASSUME NEW m \in Asked', Waits(d, m)'
          PROVE  /\ client'[d].pending = m /\ InItsConversation(d, m)'
                 /\ Waits(d, m)
        <3>1. m # n /\ m \in Asked /\ turn'[m] = turn[m] /\ Waits(d, m)
            BY <1>3, <2>2 DEF Waits
        <3>2. client[d].pending = m /\ InItsConversation(d, m)
            BY <3>1 DEF IInv, PanelInv, WaitInv
        <3>3. d # c
            <4>1. d = c => Waits(d, n)
                BY <1>1 DEF Waits, c
            <4> QED
                BY <3>1, <3>2, <4>1 DEF IInv, PanelInv, WaitInv
        <3> QED
            BY <1>4, <2>1, <3>1, <3>2, <3>3 DEF InItsConversation
    <2> QED
        BY <2>2 DEF WaitsAsBefore
<1>8. messages' \in [Ids -> Seq(Message)] /\ GrowBy(0) /\ 0 \notin Asked
    BY <1>1, NothingGrows, ZeroIsNotAsked DEF IInv, TypeInv
<1>9. \A d \in Panels : d \in Clients
    BY DEF Panels
<1> QED
    BY <1>4, <1>5, <1>6, <1>7, <1>8, <1>9, PanelsKeep DEF IInv

\* A turn that has not begun has created no conversation: there are ids for
\* those there are, and for one more.
LEMMA ConversationIds ==
    ASSUME IInv
    PROVE  /\ Len(conversations) \in Nat /\ DOMAIN conversations = 1 .. Len(conversations)
           /\ DOMAIN conversations \subseteq Ids /\ 0 \notin Ids
           /\ \A n \in Asked : turn[n].step = "checking" =>
                 /\ Len(conversations) + 1 \in Ids
                 /\ Len(conversations) + 1 <= Cardinality(Begun \cup {n})
<1>1. /\ Len(conversations) \in Nat /\ DOMAIN conversations = 1 .. Len(conversations)
    BY DEF IInv, TypeInv
<1>2. /\ IsFiniteSet(Asked) /\ Cardinality(Asked) = Len(turn) /\ Len(turn) \in 0 .. MaxTurns
    BY AskedIs DEF IInv
<1>3. Begun \in SUBSET Asked
    BY DEF Begun
<1>4. IsFiniteSet(Begun) /\ Cardinality(Begun) <= Len(turn)
    BY <1>2, <1>3, FS_Subset
<1>5. Cardinality(Begun) \in Nat
    BY <1>4, FS_CardinalityType
<1>6. Len(conversations) <= MaxTurns
    BY <1>1, <1>2, <1>4, <1>5, ChatAssumption DEF IInv, ConvInv
<1>7. ASSUME NEW n \in Asked, turn[n].step = "checking"
      PROVE  /\ Len(conversations) + 1 <= MaxTurns
             /\ Len(conversations) + 1 <= Cardinality(Begun \cup {n})
    <2>1. n \notin Begun
        BY <1>7 DEF Begun
    <2>2. Cardinality(Begun \cup {n}) = Cardinality(Begun) + 1
        BY <1>4, <2>1, FS_AddElement
    <2>3. Begun \cup {n} \in SUBSET Asked
        BY <1>3
    <2>4. Cardinality(Begun \cup {n}) <= Len(turn)
        BY <1>2, <2>3, FS_Subset
    <2>5. Len(conversations) <= Cardinality(Begun)
        BY DEF IInv, ConvInv
    <2> QED
        BY <1>1, <1>2, <1>5, <2>2, <2>4, <2>5, ChatAssumption
<1>8. DOMAIN conversations \subseteq Ids /\ 0 \notin Ids
    <2>1. PICK len : len = Len(conversations)
        OBVIOUS
    <2>2. len \in Nat /\ len <= MaxTurns /\ MaxTurns \in Nat
        BY <1>1, <1>6, <2>1, ChatAssumption
    <2>3. 1 .. len \subseteq 1 .. MaxTurns /\ 0 \notin 1 .. MaxTurns
        BY ONLY <2>2
    <2> QED
        BY <1>1, <2>1, <2>3 DEF Ids
<1>9. ASSUME NEW n \in Asked, turn[n].step = "checking"
      PROVE  Len(conversations) + 1 \in Ids
    <2>1. Len(conversations) + 1 <= MaxTurns
        BY <1>7, <1>9
    <2> QED
        BY <1>1, <2>1, ChatAssumption DEF Ids
<1> QED
    BY <1>1, <1>7, <1>8, <1>9

\* The answer a panel waited for is shown, and becomes the last it shows; it
\* is stored after all the others.
LEMMA AnswerInv ==
    ASSUME IInv, NEW n \in Asked, AnswerArrives(n)
    PROVE  IInv'
<1>0. PICK c, id, old, shown :
         /\ c = turn[n].by /\ id = turn[n].conv
         /\ old = client[c].shown /\ shown = Append(old, n)
    OBVIOUS
<1>1. /\ turn[n].step = "answered" /\ turn[n].known = "waiting"
      /\ turn' = [turn EXCEPT ![n].known = "shown"]
      /\ client' = [client EXCEPT ![c] = [conv |-> id, shown |-> shown, pending |-> 0]]
      /\ UNCHANGED <<conversations, messages>>
    BY <1>0 DEF AnswerArrives
<1>2. c \in Clients /\ n \in Turns
    BY <1>0, TurnOf, AskedIs DEF TurnIn, IInv
<1>3. id \in Ids /\ id # 0
    <2>1. id \in DOMAIN conversations
        BY <1>0, <1>1 DEF IInv, ConvInv
    <2> QED
        BY <2>1, ConversationIds
<1>4. /\ old \in Seq(Turns) /\ Len(old) \in Nat /\ DOMAIN old = 1 .. Len(old)
      /\ shown \in Seq(Turns) /\ DOMAIN shown = 1 .. Len(old) + 1
      /\ shown[Len(old) + 1] = n
      /\ \A i \in DOMAIN old : shown[i] = old[i]
    BY <1>0, <1>2, ClientFields DEF IInv
<1>5. Waits(c, n) /\ OfAnswered(n, id)
    BY <1>0, <1>1 DEF Waits, OfAnswered
<1>6. /\ TurnsTyped' /\ Len(turn') = Len(turn) /\ Asked' = Asked
      /\ turn'[n].known = "shown"
      /\ \A m \in Asked : turn'[m].step = turn[m].step /\ turn'[m].conv = turn[m].conv
                          /\ turn'[m].by = turn[m].by
      /\ \A m \in Asked : m # n => turn'[m] = turn[m]
    BY <1>1, KnownTypes
<1>7. /\ client' \in [Clients -> ClientRecord]
      /\ client'[c].conv = id /\ client'[c].shown = shown
      /\ \A d \in Clients : d # c => client'[d] = client[d]
    BY <1>1, <1>2, <1>3, <1>4 DEF IInv, TypeInv, ClientRecord
<1>8. TypeInv'
    BY <1>1, <1>6, <1>7 DEF IInv, TypeInv
<1>9. AnswersStay /\ NoneAnswers /\ ConvInv' /\ PairInv'
    BY <1>1, <1>6, <1>8, KnownChanges
<1>10. ASSUME NEW d \in Panels PROVE (ShownInv(d) /\ WaitInv(d) /\ OrderInv(d))'
    <2>1. d \in Clients
        BY DEF Panels
    <2>2. ASSUME NEW m \in Asked', Waits(d, m)'
          PROVE  m \in Asked /\ m # n /\ turn'[m] = turn[m] /\ Waits(d, m)
        BY <1>6, <2>2 DEF Waits
    <2>3. CASE d # c
        <3>1. client'[d] = client[d]
            BY <1>7, <2>1, <2>3
        <3>2. WaitsAsBefore(d, 0)
            BY <2>2, <3>1 DEF WaitsAsBefore, IInv, PanelInv, WaitInv, InItsConversation
        <3>3. messages' \in [Ids -> Seq(Message)] /\ GrowBy(0) /\ 0 \notin Asked
            BY <1>1, NothingGrows, ZeroIsNotAsked DEF IInv, TypeInv
        <3> QED
            BY <1>9, <3>1, <3>2, <3>3, PanelKeep
    <2>4. CASE d = c
        <3>1. c \in Panels
            BY <2>4
        <3>2. client[c].pending = n /\ InItsConversation(c, n)
            BY <1>5, <3>1 DEF IInv, PanelInv, WaitInv
        <3>3. \A m \in Asked' : ~Waits(c, m)'
            <4>1. ASSUME NEW m \in Asked', Waits(c, m)' PROVE FALSE
                <5>1. m \in Asked /\ m # n /\ Waits(c, m)
                    BY <2>2, <2>4, <4>1
                <5>2. client[c].pending = m
                    BY <3>1, <5>1 DEF IInv, PanelInv, WaitInv
                <5> QED
                    BY <3>2, <5>1, <5>2
            <4> QED
                BY <4>1
        <3>4. client[c].conv # 0 => client[c].conv = id
            BY <1>0, <1>1, <3>2 DEF InItsConversation
        <3>5. client[c].conv = 0 => old = <<>>
            BY <1>0, <3>1 DEF IInv, PanelInv, ShownInv
        <3>6. \A i \in DOMAIN old : OfAnswered(old[i], id)
            BY <1>0, <3>1, <3>4, <3>5 DEF IInv, PanelInv, ShownInv
        <3>7. \A m : OfAnswered(m, id) => OfAnswered(m, id)'
            BY <1>6 DEF OfAnswered
        <3>8. \A i \in DOMAIN shown : OfAnswered(shown[i], id)'
            <4>1. \A i \in DOMAIN shown : i \in DOMAIN old \/ i = Len(old) + 1
                BY <1>4
            <4> QED
                BY <1>4, <1>5, <3>6, <3>7, <4>1
        <3>9. ShownInv(c)'
            BY <1>3, <1>7, <3>8 DEF ShownInv
        <3>10. WaitInv(c)'
            BY <3>3 DEF WaitInv
        <3>11. \A i, j \in DOMAIN shown, k, l \in DOMAIN messages[id] :
                  messages[id][k].turn = shown[i] /\ messages[id][l].turn = shown[j] /\ i < j => k < l
            <4>1. SUFFICES ASSUME NEW i \in DOMAIN shown, NEW j \in DOMAIN shown,
                                  NEW k \in DOMAIN messages[id], NEW l \in DOMAIN messages[id],
                                  messages[id][k].turn = shown[i],
                                  messages[id][l].turn = shown[j], i < j
                           PROVE  k < l
                OBVIOUS
            <4>2. i \in DOMAIN old /\ (j \in DOMAIN old \/ j = Len(old) + 1)
                BY <1>4, <4>1
            <4>3. client[c].conv = id /\ client[c].conv # 0
                <5>1. old # <<>>
                    BY <4>2
                <5> QED
                    BY <3>4, <3>5, <5>1
            <4>4. OrderInv(c)
                BY <3>1 DEF IInv, PanelInv
            <4>5. \A p, q \in DOMAIN old, u, v \in DOMAIN messages[id] :
                     messages[id][u].turn = old[p] /\ messages[id][v].turn = old[q] /\ p < q
                        => u < v
                BY <1>0, <4>3, <4>4 DEF OrderInv
            <4>6. \A p \in DOMAIN old, u, v \in DOMAIN messages[id] :
                     messages[id][u].turn = old[p] /\ messages[id][v].turn = n => u < v
                BY <1>0, <1>5, <4>3, <4>4 DEF OrderInv
            <4>7. CASE j \in DOMAIN old
                BY <1>4, <4>1, <4>2, <4>5, <4>7
            <4>8. CASE j = Len(old) + 1
                BY <1>4, <4>1, <4>2, <4>6, <4>8
            <4> QED
                BY <4>2, <4>7, <4>8
        <3>12. OrderInv(c)'
            <4>1. client'[c].conv = id /\ client'[c].shown = shown /\ messages' = messages
                BY <1>1, <1>7
            <4>2. \A i \in DOMAIN shown, m \in Asked', k, l \in DOMAIN messages[id] :
                     Waits(c, m)' /\ messages[id][k].turn = shown[i]
                       /\ messages[id][l].turn = m => k < l
                BY <3>3
            <4> QED
                BY <3>11, <4>1, <4>2 DEF OrderInv
        <3> QED
            BY <2>4, <3>9, <3>10, <3>12
    <2> QED
        BY <2>3, <2>4
<1> QED
    BY <1>8, <1>9, <1>10 DEF IInv, PanelInv
-----------------------------------------------------------------------------
(* The handler *)

\* What a step of the handler of n does that all of its steps have in common:
\* n is tool, answered or failed, in the conversation it was asked in, and
\* only it writes messages.
LEMMA HandlerKeeps ==
    ASSUME IInv, NEW n \in Asked, turn[n].step \in Running,
           NEW G, NEW q \in TurnIn(G), turn' = [turn EXCEPT ![n] = q],
           q.by = turn[n].by, q.known = turn[n].known,
           q.step \in {"tool", "answered", "failed"},
           q.step # "failed" => /\ q.conv \in DOMAIN conversations'
                                /\ turn[n].conv # 0 => q.conv = turn[n].conv,
           conversations' \in Seq([user: Users, asset: Assets]),
           DOMAIN conversations \subseteq DOMAIN conversations',
           Len(conversations') <= Cardinality(Begun \cup {n}),
           messages' \in [Ids -> Seq(Message)], GrowBy(n), UNCHANGED client
    PROVE  /\ TypeInv' /\ ConvInv' /\ PanelInv' /\ AnswersStay
           /\ Asked' = Asked /\ turn'[n] = q /\ \A m \in Asked : m # n => turn'[m] = turn[m]
<1>1. /\ TurnsTyped' /\ Len(turn') = Len(turn) /\ Asked' = Asked
      /\ turn'[n] = q
      /\ \A m \in Asked : m # n => turn'[m] = turn[m]
    BY TurnChanges DEF IInv
<1>2. TypeInv'
    BY <1>1 DEF IInv, TypeInv
<1>3. Begun' = Begun \cup {n}
    BY <1>1 DEF Begun
<1>4. ConvInv'
    <2>1. Len(conversations') <= Cardinality(Begun')
        BY <1>3
    <2>2. \A m \in Asked : turn'[m].step \in {"tool", "answered"} =>
             turn'[m].conv \in DOMAIN conversations'
        BY <1>1 DEF IInv, ConvInv
    <2> QED
        BY <1>1, <2>1, <2>2 DEF ConvInv
<1>5. AnswersStay
    BY <1>1 DEF AnswersStay, Running
<1>6. ASSUME NEW c \in Panels PROVE WaitsAsBefore(c, n)
    <2>1. SUFFICES ASSUME NEW m \in Asked, Waits(c, m)'
                   PROVE  /\ client'[c].pending = m /\ InItsConversation(c, m)'
                          /\ Waits(c, m)
        BY <1>1 DEF WaitsAsBefore
    <2>2. Waits(c, m)
        BY <1>1, <2>1 DEF Waits
    <2>3. client[c].pending = m /\ InItsConversation(c, m)
        BY <2>2 DEF IInv, PanelInv, WaitInv
    <2>4. CASE m # n
        BY <1>1, <2>2, <2>3, <2>4 DEF InItsConversation
    <2>5. CASE m = n
        <3>1. client[c].conv # 0 => turn[n].conv = client[c].conv
            BY <2>3, <2>5 DEF InItsConversation, Running
        <3> QED
            BY <1>1, <2>2, <2>3, <2>5, <3>1 DEF InItsConversation
    <2> QED
        BY <2>4, <2>5
<1>7. n \notin Asked \/ turn[n].step # "answered"
    BY DEF Running
<1>8. PanelInv'
    BY <1>5, <1>6, <1>7, PanelsKeep
<1> QED
    BY <1>1, <1>2, <1>4, <1>5, <1>8

\* The turn fails, or a tool is awaited: no message is written.
LEMMA QuietInv ==
    ASSUME IInv, NEW n \in Asked, turn[n].step \in Running,
           NEW G, NEW q \in TurnIn(G), turn' = [turn EXCEPT ![n] = q],
           q.by = turn[n].by, q.known = turn[n].known,
           q.step \in {"tool", "failed"},
           q.step # "failed" => /\ q.conv \in DOMAIN conversations'
                                /\ turn[n].conv # 0 => q.conv = turn[n].conv,
           conversations' \in Seq([user: Users, asset: Assets]),
           DOMAIN conversations \subseteq DOMAIN conversations',
           Len(conversations') <= Cardinality(Begun \cup {n}),
           UNCHANGED <<messages, client>>
    PROVE  IInv'
<1>1. messages' \in [Ids -> Seq(Message)] /\ GrowBy(n)
    BY DEF IInv, TypeInv, GrowBy
<1>2. /\ TypeInv' /\ ConvInv' /\ PanelInv' /\ AnswersStay
      /\ Asked' = Asked /\ turn'[n] = q /\ \A m \in Asked : m # n => turn'[m] = turn[m]
    BY <1>1, HandlerKeeps
<1>3. NoneAnswers
    BY <1>2 DEF NoneAnswers
<1> QED
    BY <1>2, <1>3, PairKeep DEF IInv

\* longer is log with the question and the answer of turn n, which had none.
PairAdded(log, longer, n) ==
    /\ Paired(longer) /\ longer \in Seq(Message)
    /\ \A k \in DOMAIN longer :
          \/ k \in DOMAIN log /\ longer[k] = log[k]
          \/ longer[k].turn = n /\ \A j \in DOMAIN log : j < k
    /\ \A m : m # n => Of(m, longer) = Of(m, log)
    /\ Cardinality(Of(n, longer)) = 2

IsPairOf(u, a, n) ==
    /\ u \in Message /\ u.role = "user" /\ u.turn = n
    /\ a \in Message /\ a.role = "assistant" /\ a.turn = n

LEMMA PairsGrow ==
    ASSUME NEW log \in Seq(Message), Paired(log), NEW u, NEW a, NEW n, IsPairOf(u, a, n),
           Of(n, log) = {}
    PROVE  PairAdded(log, log \o <<u, a>>, n)
<1>0. PICK longer : longer = log \o <<u, a>>
    OBVIOUS
<1>1. PICK L : L = Len(log)
    OBVIOUS
<1>2. /\ longer \in Seq(Message) /\ L \in Nat
      /\ DOMAIN longer = 1 .. L + 2 /\ DOMAIN log = 1 .. L
      /\ \A k \in DOMAIN log : longer[k] = log[k]
      /\ longer[L + 1] = u /\ longer[L + 2] = a
    BY <1>0, <1>1, PairAtEnd DEF IsPairOf
<1>3. /\ \A i \in DOMAIN longer : i \in DOMAIN log \/ i = L + 1 \/ i = L + 2
      /\ \A i \in DOMAIN log : i \in DOMAIN longer /\ i < L + 1 /\ i < L + 2
      /\ L + 1 \in DOMAIN longer /\ L + 2 \in DOMAIN longer /\ L + 1 + 1 = L + 2
      /\ L + 1 # L + 2
    BY ONLY <1>2
<1>4. L % 2 = 0
    <2>1. CASE L = 0
        BY ONLY <2>1
    <2>2. CASE L # 0
        <3>1. L \in DOMAIN log /\ L + 1 \notin DOMAIN log
            BY ONLY <1>2, <2>2
        <3>2. L % 2 # 1
            BY <3>1 DEF Paired
        <3>3. L % 2 = 0 \/ L % 2 = 1
            BY ONLY <1>2
        <3> QED
            BY ONLY <3>2, <3>3
    <2> QED
        BY <2>1, <2>2
<1>5. (L + 1) % 2 = 1 /\ (L + 2) % 2 = 0
    BY ONLY <1>2, <1>4
<1>6. Paired(longer)
    <2> SUFFICES ASSUME NEW i \in DOMAIN longer
                 PROVE  IF i % 2 = 1
                        THEN /\ longer[i].role = "user" /\ i + 1 \in DOMAIN longer
                             /\ longer[i + 1].role = "assistant"
                             /\ longer[i + 1].turn = longer[i].turn
                        ELSE longer[i].role = "assistant"
        BY DEF Paired
    <2>1. CASE i \in DOMAIN log
        <3>1. IF i % 2 = 1
              THEN /\ log[i].role = "user" /\ i + 1 \in DOMAIN log
                   /\ log[i + 1].role = "assistant"
                   /\ log[i + 1].turn = log[i].turn
              ELSE log[i].role = "assistant"
            BY <2>1 DEF Paired
        <3> QED
            BY <1>2, <1>3, <2>1, <3>1
    <2>2. CASE i = L + 1
        BY <1>2, <1>3, <1>5, <2>2 DEF IsPairOf
    <2>3. CASE i = L + 2
        BY <1>2, <1>3, <1>5, <2>3 DEF IsPairOf
    <2> QED
        BY <1>3, <2>1, <2>2, <2>3
<1>7. Cardinality({L + 1, L + 2}) = 2
    <2>1. IsFiniteSet({L + 1}) /\ Cardinality({L + 1}) = 1
        BY FS_Singleton
    <2>2. L + 2 \notin {L + 1} /\ {L + 1, L + 2} = {L + 1} \cup {L + 2}
        BY <1>3
    <2>3. Cardinality({L + 1} \cup {L + 2}) = Cardinality({L + 1}) + 1
        BY <2>1, <2>2, FS_AddElement
    <2> QED
        BY <2>1, <2>2, <2>3
<1>8. Of(n, longer) = {L + 1, L + 2}
    BY <1>2, <1>3 DEF Of, IsPairOf
<1>9. \A m : m # n => Of(m, longer) = Of(m, log)
    BY <1>2, <1>3 DEF Of, IsPairOf
<1>10. \A k \in DOMAIN longer :
          \/ k \in DOMAIN log /\ longer[k] = log[k]
          \/ longer[k].turn = n /\ \A j \in DOMAIN log : j < k
    BY <1>2, <1>3 DEF IsPairOf
<1> QED
    BY <1>0, <1>2, <1>6, <1>7, <1>8, <1>9, <1>10 DEF PairAdded

\* The model answers: the question and its answer are the end of the
\* conversation.
LEMMA AnsweredInv ==
    ASSUME IInv, NEW n \in Asked, turn[n].step \in Running,
           NEW G, NEW q \in TurnIn(G), turn' = [turn EXCEPT ![n] = q],
           q.by = turn[n].by, q.known = turn[n].known, q.step = "answered",
           q.conv \in DOMAIN conversations', q.conv \in Ids,
           turn[n].conv # 0 => q.conv = turn[n].conv,
           conversations' \in Seq([user: Users, asset: Assets]),
           DOMAIN conversations \subseteq DOMAIN conversations',
           Len(conversations') <= Cardinality(Begun \cup {n}),
           NEW u, NEW a, IsPairOf(u, a, n),
           messages' = [messages EXCEPT ![q.conv] = @ \o <<u, a>>],
           UNCHANGED client
    PROVE  IInv'
<1>1. PICK log : log = messages[q.conv]
    OBVIOUS
<1>2. PICK longer : longer = log \o <<u, a>>
    OBVIOUS
<1>3. messages \in [Ids -> Seq(Message)] /\ log \in Seq(Message)
    BY <1>1 DEF IInv, TypeInv
<1>4. /\ \A id \in Ids : Paired(messages[id])
      /\ \A id \in Ids : \A i \in DOMAIN messages[id] : OfAnswered(messages[id][i].turn, id)
      /\ \A m \in Asked : turn[m].step = "answered" => Cardinality(Of(m, messages[turn[m].conv])) = 2
    BY DEF IInv, PairInv
<1>5. Of(n, log) = {}
    BY <1>1, <1>4 DEF OfAnswered, Running, Of
<1>6. PairAdded(log, longer, n)
    <2>1. Paired(log)
        BY <1>1, <1>4
    <2> QED
        BY <1>2, <1>3, <1>5, <2>1, PairsGrow, Zenon
<1>7. /\ messages' \in [Ids -> Seq(Message)] /\ messages'[q.conv] = longer
      /\ \A id \in Ids : id # q.conv => messages'[id] = messages[id]
    <2>1. messages' = [messages EXCEPT ![q.conv] = longer]
        BY ONLY <1>1, <1>2, messages' = [messages EXCEPT ![q.conv] = @ \o <<u, a>>]
    <2> QED
        BY ONLY <1>3, <1>6, <2>1, q.conv \in Ids DEF PairAdded
<1>8. GrowBy(n)
    BY <1>1, <1>6, <1>7 DEF GrowBy, PairAdded
<1>9. /\ TypeInv' /\ ConvInv' /\ PanelInv' /\ AnswersStay
      /\ Asked' = Asked /\ turn'[n] = q /\ \A m \in Asked : m # n => turn'[m] = turn[m]
    BY <1>7, <1>8, HandlerKeeps
<1>10. \A id \in Ids : \A i \in DOMAIN messages'[id] :
          /\ messages'[id][i].turn \in Asked'
          /\ turn'[messages'[id][i].turn].step = "answered"
          /\ turn'[messages'[id][i].turn].conv = id
    <2> SUFFICES ASSUME NEW id \in Ids, NEW i \in DOMAIN messages'[id]
                 PROVE  /\ messages'[id][i].turn \in Asked'
                        /\ turn'[messages'[id][i].turn].step = "answered"
                        /\ turn'[messages'[id][i].turn].conv = id
        OBVIOUS
    <2>1. PICK m : m = messages'[id][i].turn
        OBVIOUS
    <2>2. CASE i \in DOMAIN messages[id] /\ messages'[id][i] = messages[id][i]
        <3>1. OfAnswered(m, id)
            BY <1>4, <2>1, <2>2
        <3> QED
            BY <1>9, <2>1, <3>1 DEF OfAnswered, AnswersStay
    <2>3. CASE ~(i \in DOMAIN messages[id] /\ messages'[id][i] = messages[id][i])
        <3>1. m = n /\ id = q.conv
            BY <1>7, <1>8, <2>1, <2>3 DEF GrowBy
        <3> QED
            BY <1>9, <2>1, <3>1
    <2> QED
        BY <2>2, <2>3
<1>11. ASSUME NEW m \in Asked, turn'[m].step = "answered"
       PROVE  Cardinality(Of(m, messages'[turn'[m].conv])) = 2
    <2>1. CASE m = n
        BY <1>6, <1>7, <1>9, <2>1 DEF PairAdded
    <2>2. CASE m # n
        <3>1. turn'[m] = turn[m] /\ turn[m].step = "answered"
            BY <1>9, <1>11, <2>2
        <3>2. PICK id : id = turn[m].conv
            OBVIOUS
        <3>3. id \in Ids
            <4>1. id \in DOMAIN conversations
                BY <3>1, <3>2 DEF IInv, ConvInv
            <4> QED
                BY <4>1, ConversationIds
        <3>4. Of(m, messages'[id]) = Of(m, messages[id])
            <4>1. CASE id # q.conv
                BY <1>7, <3>3, <4>1
            <4>2. CASE id = q.conv
                BY <1>1, <1>6, <1>7, <2>2, <4>2 DEF PairAdded
            <4> QED
                BY <4>1, <4>2
        <3>5. Cardinality(Of(m, messages[id])) = 2
            BY <1>4, <3>1, <3>2
        <3> QED
            BY <3>1, <3>2, <3>4, <3>5
    <2> QED
        BY <2>1, <2>2
<1>12. PairInv'
    <2>1. \A id \in Ids : Paired(messages'[id])
        BY <1>4, <1>6, <1>7 DEF PairAdded
    <2>2. (\A id \in Ids : Paired(messages[id]))'
        BY <2>1 DEF Paired
    <2>3. (\A id \in Ids : \A i \in DOMAIN messages[id] : OfAnswered(messages[id][i].turn, id))'
        BY ONLY <1>10 DEF OfAnswered
    <2>4. (\A m \in Asked : turn[m].step = "answered" => Cardinality(Of(m, messages[turn[m].conv])) = 2)'
        BY <1>9, <1>11 DEF Of
    <2> QED
        BY <2>2, <2>3, <2>4 DEF PairInv
<1> QED
    BY <1>9, <1>12 DEF IInv
\* A turn that runs may fail at any of its steps.
LEMMA FailInv ==
    ASSUME IInv, NEW n \in Asked, turn[n].step \in Running,
           NEW G, NEW r \in TurnIn(G), r.by = turn[n].by, r.known = turn[n].known,
           conversations' \in Seq([user: Users, asset: Assets]),
           DOMAIN conversations \subseteq DOMAIN conversations',
           Len(conversations') <= Cardinality(Begun \cup {n}),
           UNCHANGED client, Fail(n, r)
    PROVE  IInv'
<1>1. PICK q : q = Failed(r)
    OBVIOUS
<1>2. q \in TurnIn({<<>>}) /\ q.step = "failed" /\ q.by = turn[n].by /\ q.known = turn[n].known
    BY <1>1, EndTypes
<1>3. turn' = [turn EXCEPT ![n] = q] /\ UNCHANGED <<messages, client>>
    BY <1>1 DEF Fail
<1> QED
    BY <1>2, <1>3, QuietInv

\* The number of conversations, once none or one was created.
LEMMA NoneCreated ==
    ASSUME IInv, NEW n \in Asked, UNCHANGED conversations
    PROVE  /\ conversations' \in Seq([user: Users, asset: Assets])
           /\ DOMAIN conversations \subseteq DOMAIN conversations'
           /\ Len(conversations') <= Cardinality(Begun \cup {n})
<1>1. IsFiniteSet(Asked) /\ Begun \in SUBSET Asked
    BY AskedIs DEF IInv, Begun
<1>2. IsFiniteSet(Begun \cup {n}) /\ IsFiniteSet(Begun)
    <2>1. Begun \cup {n} \in SUBSET Asked
        BY <1>1
    <2> QED
        BY <1>1, <2>1, FS_Subset
<1>3. Cardinality(Begun) <= Cardinality(Begun \cup {n})
    <2>1. Begun \in SUBSET (Begun \cup {n})
        OBVIOUS
    <2> QED
        BY <1>2, <2>1, FS_Subset
<1>4. Cardinality(Begun) \in Nat /\ Cardinality(Begun \cup {n}) \in Nat
    BY <1>2, FS_CardinalityType
<1>5. Len(conversations) \in Nat /\ Len(conversations) <= Cardinality(Begun)
    BY ConversationIds DEF IInv, ConvInv
<1>6. Len(conversations) <= Cardinality(Begun \cup {n})
    BY ONLY <1>3, <1>4, <1>5
<1> QED
    BY <1>6 DEF IInv, TypeInv

LEMMA OneCreated ==
    ASSUME IInv, NEW n \in Asked, turn[n].step = "checking",
           NEW v \in [user: Users, asset: Assets],
           conversations' = Append(conversations, v)
    PROVE  /\ conversations' \in Seq([user: Users, asset: Assets])
           /\ DOMAIN conversations \subseteq DOMAIN conversations'
           /\ Len(conversations) + 1 \in DOMAIN conversations'
           /\ Len(conversations) + 1 \in Ids
           /\ Len(conversations') <= Cardinality(Begun \cup {n})
<1>1. /\ conversations' \in Seq([user: Users, asset: Assets])
      /\ Len(conversations') = Len(conversations) + 1
      /\ DOMAIN conversations' = 1 .. Len(conversations) + 1
    BY DEF IInv, TypeInv
<1>2. /\ Len(conversations) \in Nat /\ DOMAIN conversations = 1 .. Len(conversations)
      /\ Len(conversations) + 1 \in Ids
      /\ Len(conversations) + 1 <= Cardinality(Begun \cup {n})
    BY ConversationIds
<1> QED
    BY <1>1, <1>2

\* However the model replies.
LEMMA AskModelInv ==
    ASSUME IInv, NEW n \in Asked, turn[n].step \in Running,
           NEW G, NEW r \in TurnIn(G), r.by = turn[n].by, r.known = turn[n].known,
           r.conv \in DOMAIN conversations', r.conv \in Ids,
           turn[n].conv # 0 => r.conv = turn[n].conv,
           conversations' \in Seq([user: Users, asset: Assets]),
           DOMAIN conversations \subseteq DOMAIN conversations',
           Len(conversations') <= Cardinality(Begun \cup {n}),
           UNCHANGED client, AskModel(n, r)
    PROVE  IInv'
<1>1. CASE Fail(n, r)
    BY <1>1, FailInv
<1>2. ASSUME NEW size \in AnswerSizes,
             messages' = [messages EXCEPT ![r.conv] = @ \o
                <<[role |-> "user", turn |-> n, size |-> r.size],
                  [role |-> "assistant", turn |-> n, size |-> size]>>],
             turn' = [turn EXCEPT ![n] = Answered(r)]
      PROVE  IInv'
    <2>1. PICK q : q = Answered(r)
        OBVIOUS
    <2>2. /\ q \in TurnIn(G) /\ q.step = "answered" /\ q.conv = r.conv
          /\ q.by = turn[n].by /\ q.known = turn[n].known
        BY <2>1, EndTypes
    <2>3. PICK u, a : /\ u = [role |-> "user", turn |-> n, size |-> r.size]
                      /\ a = [role |-> "assistant", turn |-> n, size |-> size]
        OBVIOUS
    <2>4. n \in Turns /\ r.size \in QuestionSizes
        BY AskedIs DEF IInv, TurnIn
    <2>5. IsPairOf(u, a, n)
        BY <2>3, <2>4 DEF IsPairOf, Message
    <2>6. turn' = [turn EXCEPT ![n] = q]
        BY <1>2, <2>1
    <2>7. messages' = [messages EXCEPT ![q.conv] = @ \o <<u, a>>]
        BY <1>2, <2>2, <2>3
    <2>8. q.conv \in DOMAIN conversations' /\ q.conv \in Ids
          /\ (turn[n].conv # 0 => q.conv = turn[n].conv)
        BY <2>2
    <2> QED
        BY <2>2, <2>5, <2>6, <2>7, <2>8, AnsweredInv
<1>3. ASSUME NEW i \in r.iteration + 1 .. MaxToolIterations,
             NEW t \in Tools, NEW k \in 1 .. MaxToolCalls,
             turn' = [turn EXCEPT ![n] = [r EXCEPT !.step = "tool",
                        !.iteration = i, !.calls = k, !.tool = t]],
             UNCHANGED messages
      PROVE  IInv'
    <2>1. PICK q : q = [r EXCEPT !.step = "tool", !.iteration = i, !.calls = k, !.tool = t]
        OBVIOUS
    <2>2. i \in 0 .. MaxToolIterations /\ k \in 0 .. MaxToolCalls
        BY ChatAssumption DEF TurnIn
    <2>3. /\ q \in TurnIn(G) /\ q.step = "tool" /\ q.conv = r.conv
          /\ q.by = turn[n].by /\ q.known = turn[n].known
        BY <2>1, <2>2 DEF TurnIn
    <2>4. turn' = [turn EXCEPT ![n] = q]
        BY <1>3, <2>1
    <2>5. UNCHANGED <<messages, client>>
        BY <1>3
    <2>6. q.conv \in DOMAIN conversations' /\ (turn[n].conv # 0 => q.conv = turn[n].conv)
        BY <2>3
    <2> QED
        BY <2>3, <2>4, <2>5, <2>6, QuietInv
<1> QED
    BY <1>1, <1>2, <1>3 DEF AskModel

LEMMA BeginInv ==
    ASSUME IInv, NEW n \in Asked, Begin(n)
    PROVE  IInv'
<1>1. PICK H : turn[n] \in TurnIn(H)
    BY TurnOf DEF IInv
<1>2. turn[n].step = "checking" /\ turn[n].step \in Running /\ UNCHANGED client
    BY DEF Begin, Running
<1>3. PICK v : v = [user |-> UserOf[turn[n].by], asset |-> AssetOf[turn[n].by]]
    OBVIOUS
<1>4. v \in [user: Users, asset: Assets]
    BY <1>1, <1>3, ChatAssumption DEF TurnIn
<1>5. PICK id, h : /\ id = IF turn[n].conv = 0 THEN Len(conversations) + 1 ELSE turn[n].conv
                   /\ h = LoadHistory(messages[id])
    OBVIOUS
<1>6. PICK begun : begun = [turn[n] EXCEPT !.conv = id, !.history = h]
    OBVIOUS
<1>7. ASSUME id \in Ids
      PROVE  /\ begun \in TurnIn({h}) /\ begun.conv = id
             /\ begun.by = turn[n].by /\ begun.known = turn[n].known
    <2>1. id \in 0 .. MaxTurns + 1
        BY <1>7, ChatAssumption DEF Ids
    <2> QED
        BY <1>1, <1>6, <2>1 DEF TurnIn
<1>8. CASE /\ turn[n].conv = 0
           /\ conversations' = Append(conversations, v) /\ AskModel(n, begun)
    <2>1. /\ conversations' \in Seq([user: Users, asset: Assets])
          /\ DOMAIN conversations \subseteq DOMAIN conversations'
          /\ id \in DOMAIN conversations' /\ id \in Ids
          /\ Len(conversations') <= Cardinality(Begun \cup {n})
        BY <1>2, <1>4, <1>5, <1>8, OneCreated
    <2>2. /\ begun \in TurnIn({h}) /\ begun.conv = id
          /\ begun.by = turn[n].by /\ begun.known = turn[n].known
        BY <1>7, <2>1
    <2>3. /\ begun.conv \in DOMAIN conversations' /\ begun.conv \in Ids
          /\ turn[n].conv # 0 => begun.conv = turn[n].conv
        BY <1>8, <2>1, <2>2
    <2> QED
        BY <1>2, <1>8, <2>1, <2>2, <2>3, AskModelInv
<1>9. CASE /\ turn[n].conv # 0 /\ MayContinue(turn[n].by, turn[n].conv)
           /\ AskModel(n, begun) /\ UNCHANGED conversations
    <2>1. /\ conversations' \in Seq([user: Users, asset: Assets])
          /\ DOMAIN conversations \subseteq DOMAIN conversations'
          /\ Len(conversations') <= Cardinality(Begun \cup {n})
        BY <1>9, NoneCreated
    <2>2. id = turn[n].conv /\ id \in DOMAIN conversations' /\ id \in Ids
        BY <1>5, <1>9, ConversationIds DEF MayContinue
    <2>3. /\ begun \in TurnIn({h}) /\ begun.conv = id
          /\ begun.by = turn[n].by /\ begun.known = turn[n].known
        BY <1>7, <2>2
    <2>4. /\ begun.conv \in DOMAIN conversations' /\ begun.conv \in Ids
          /\ turn[n].conv # 0 => begun.conv = turn[n].conv
        BY <2>2, <2>3
    <2> QED
        BY <1>2, <1>9, <2>1, <2>3, <2>4, AskModelInv
<1>10. CASE Fail(n, turn[n]) /\ UNCHANGED conversations
    <2>1. /\ conversations' \in Seq([user: Users, asset: Assets])
          /\ DOMAIN conversations \subseteq DOMAIN conversations'
          /\ Len(conversations') <= Cardinality(Begun \cup {n})
        BY <1>10, NoneCreated
    <2> QED
        BY <1>1, <1>2, <1>10, <2>1, FailInv
<1>11. \/ /\ turn[n].conv = 0
          /\ conversations' = Append(conversations, v) /\ AskModel(n, begun)
       \/ /\ turn[n].conv # 0 /\ MayContinue(turn[n].by, turn[n].conv)
          /\ AskModel(n, begun) /\ UNCHANGED conversations
       \/ Fail(n, turn[n]) /\ UNCHANGED conversations
    BY <1>3, <1>5, <1>6 DEF Begin
<1> QED
    BY <1>8, <1>9, <1>10, <1>11

\* Refusals, and tools that raise.
LEMMA FailsInv ==
    ASSUME IInv, NEW n \in Asked, Refuse(n) \/ ToolRaises(n)
    PROVE  IInv'
<1>1. /\ turn[n].step \in Running /\ Fail(n, turn[n])
      /\ UNCHANGED conversations /\ UNCHANGED client
    BY DEF Refuse, ToolRaises, Running
<1>2. PICK H : turn[n] \in TurnIn(H)
    BY TurnOf DEF IInv
<1>3. /\ conversations' \in Seq([user: Users, asset: Assets])
      /\ DOMAIN conversations \subseteq DOMAIN conversations'
      /\ Len(conversations') <= Cardinality(Begun \cup {n})
    BY <1>1, NoneCreated
<1> QED
    BY <1>1, <1>2, <1>3, FailInv

LEMMA ToolReturnsInv ==
    ASSUME IInv, NEW n \in Asked, ToolReturns(n)
    PROVE  IInv'
<1>1. PICK H : turn[n] \in TurnIn(H)
    BY TurnOf DEF IInv
<1>2. /\ turn[n].step = "tool" /\ turn[n].step \in Running
      /\ UNCHANGED conversations /\ UNCHANGED client
    BY DEF ToolReturns, Running
<1>3. /\ conversations' \in Seq([user: Users, asset: Assets])
      /\ DOMAIN conversations \subseteq DOMAIN conversations'
      /\ Len(conversations') <= Cardinality(Begun \cup {n})
    BY <1>2, NoneCreated
<1>4. turn[n].conv \in DOMAIN conversations' /\ turn[n].conv \in Ids
    <2>1. turn[n].conv \in DOMAIN conversations
        BY <1>2 DEF IInv, ConvInv
    <2> QED
        BY <1>2, <2>1, ConversationIds
<1>5. ASSUME NEW t \in Tools, turn[n].calls > 1,
             turn' = [turn EXCEPT ![n].calls = @ - 1, ![n].tool = t],
             UNCHANGED messages
      PROVE  IInv'
    <2>1. PICK q : q = [turn[n] EXCEPT !.calls = @ - 1, !.tool = t]
        OBVIOUS
    <2>2. turn[n].calls - 1 \in 0 .. MaxToolCalls
        BY <1>1, <1>5, ChatAssumption DEF TurnIn
    <2>3. /\ q \in TurnIn(H) /\ q.step = "tool" /\ q.conv = turn[n].conv
          /\ q.by = turn[n].by /\ q.known = turn[n].known
        BY <1>1, <1>2, <2>1, <2>2 DEF TurnIn
    <2>4. turn' = [turn EXCEPT ![n] = q]
        BY <1>5, <2>1 DEF Asked
    <2>5. UNCHANGED <<messages, client>>
        BY <1>2, <1>5
    <2>6. q.conv \in DOMAIN conversations' /\ (turn[n].conv # 0 => q.conv = turn[n].conv)
        BY <1>4, <2>3
    <2> QED
        BY <1>2, <1>3, <2>3, <2>4, <2>5, <2>6, QuietInv
<1>6. CASE AskModel(n, [turn[n] EXCEPT !.calls = 0, !.tool = "none"])
    <2>1. PICK r : r = [turn[n] EXCEPT !.calls = 0, !.tool = "none"]
        OBVIOUS
    <2>2. /\ r \in TurnIn(H) /\ r.conv = turn[n].conv
          /\ r.by = turn[n].by /\ r.known = turn[n].known
        <3>1. 0 \in 0 .. MaxToolCalls
            BY ChatAssumption
        <3> QED
            BY <1>1, <2>1, <3>1 DEF TurnIn
    <2>3. /\ r.conv \in DOMAIN conversations' /\ r.conv \in Ids
          /\ turn[n].conv # 0 => r.conv = turn[n].conv
        BY <1>4, <2>2
    <2>4. AskModel(n, r)
        BY <1>6, <2>1
    <2> QED
        BY <1>2, <1>3, <2>2, <2>3, <2>4, AskModelInv
<1> QED
    BY <1>5, <1>6 DEF ToolReturns
\* The service restarts: the turns it worked on have failed.
LEMMA CrashInv ==
    ASSUME IInv, Crash
    PROVE  IInv'
<1>1. /\ turn' = [n \in Asked |-> IF turn[n].step \in Running
                                  THEN Failed(turn[n]) ELSE turn[n]]
      /\ UNCHANGED <<conversations, messages, client>>
    BY DEF Crash
<1>2. /\ TurnsTyped' /\ Len(turn') = Len(turn) /\ Asked' = Asked
      /\ \A m \in Asked :
            /\ turn[m].step \in Running =>
                  turn'[m].step = "failed" /\ turn'[m].by = turn[m].by
                    /\ turn'[m].known = turn[m].known
            /\ turn[m].step \notin Running => turn'[m] = turn[m]
    <2>1. PICK H : turn \in Seq(TurnIn(H))
        BY DEF IInv, TypeInv, TurnsTyped
    <2>2. Asked = 1 .. Len(turn) /\ Len(turn) \in Nat /\ \A m \in Asked : turn[m] \in TurnIn(H)
        BY <2>1, IndexSet DEF Asked
    <2>3. TurnIn(H) \subseteq TurnIn(H \cup {<<>>}) /\ TurnIn({<<>>}) \subseteq TurnIn(H \cup {<<>>})
        <3>1. H \subseteq H \cup {<<>>} /\ {<<>>} \subseteq H \cup {<<>>}
            OBVIOUS
        <3> QED
            BY <3>1, TurnsWiden
    <2>4. ASSUME NEW m \in Asked
          PROVE  /\ turn'[m] \in TurnIn(H \cup {<<>>})
                 /\ turn[m].step \in Running =>
                       turn'[m].step = "failed" /\ turn'[m].by = turn[m].by
                         /\ turn'[m].known = turn[m].known
                 /\ turn[m].step \notin Running => turn'[m] = turn[m]
        <3>1. /\ Failed(turn[m]) \in TurnIn({<<>>}) /\ Failed(turn[m]).step = "failed"
              /\ Failed(turn[m]).by = turn[m].by /\ Failed(turn[m]).known = turn[m].known
            BY <2>2, EndTypes
        <3>2. turn'[m] = IF turn[m].step \in Running THEN Failed(turn[m]) ELSE turn[m]
            BY <1>1
        <3> QED
            BY <2>2, <2>3, <3>1, <3>2
    <2>5. turn' \in Seq(TurnIn(H \cup {<<>>})) /\ Len(turn') = Len(turn)
        <3>1. PICK S : S = TurnIn(H \cup {<<>>})
            OBVIOUS
        <3> DEFINE f(m) == turn'[m]
        <3>2. turn' = [m \in 1 .. Len(turn) |-> f(m)]
            BY <1>1, <2>2
        <3>3. \A m \in 1 .. Len(turn) : f(m) \in S
            BY <2>2, <2>4, <3>1
        <3> HIDE DEF f
        <3>4. turn' \in Seq(S) /\ Len(turn') = Len(turn)
            BY <2>2, <3>2, <3>3
        <3> QED
            BY <3>1, <3>4
    <2>6. Asked' = Asked
        BY <1>1 DEF Asked
    <2> QED
        BY <2>4, <2>5, <2>6 DEF TurnsTyped
<1>3. TypeInv'
    BY <1>1, <1>2 DEF IInv, TypeInv
<1>4. AnswersStay /\ NoneAnswers
    BY <1>2 DEF AnswersStay, NoneAnswers, Running
<1>5. ConvInv'
    <2>1. Begun \subseteq Begun'
        BY <1>2 DEF Begun
    <2>2. \A m \in Asked' : turn'[m].step \in {"tool", "answered"} =>
             turn'[m].conv \in DOMAIN conversations
        BY <1>2 DEF IInv, ConvInv
    <2> QED
        BY <1>1, <1>3, <2>1, <2>2, ConvKeep
<1>6. PairInv'
    BY <1>1, <1>4, PairKeep
<1>7. ASSUME NEW c \in Panels PROVE WaitsAsBefore(c, 0)
    <2>1. SUFFICES ASSUME NEW m \in Asked, Waits(c, m)'
                   PROVE  client'[c].pending = m /\ InItsConversation(c, m)' /\ Waits(c, m)
        BY <1>2 DEF WaitsAsBefore
    <2>2. Waits(c, m)
        BY <1>2, <2>1 DEF Waits
    <2>3. client[c].pending = m /\ InItsConversation(c, m)
        BY <2>2 DEF IInv, PanelInv, WaitInv
    <2> QED
        BY <1>1, <1>2, <2>2, <2>3 DEF InItsConversation
<1>8. messages' \in [Ids -> Seq(Message)] /\ GrowBy(0) /\ 0 \notin Asked
    BY <1>1, NothingGrows, ZeroIsNotAsked DEF IInv, TypeInv
<1>9. PanelInv'
    BY <1>1, <1>4, <1>7, <1>8, PanelsKeep
<1> QED
    BY <1>3, <1>5, <1>6, <1>9 DEF IInv

-----------------------------------------------------------------------------
(* Every step *)

LEMMA InitInv ==
    ASSUME Init
    PROVE  IInv
<1>1. /\ conversations = <<>> /\ messages = [id \in Ids |-> <<>>] /\ turn = <<>>
      /\ client = [c \in Clients |-> [conv |-> 0, shown |-> <<>>, pending |-> 0]]
    BY DEF Init
<1>2. Asked = {} /\ Begun = {}
    BY <1>1 DEF Asked, Begun
<1>3. turn \in Seq(TurnIn({})) /\ Len(turn) = 0 /\ Len(conversations) = 0
    BY <1>1
<1>4. TypeInv
    <2>1. client \in [Clients -> ClientRecord]
        BY <1>1 DEF ClientRecord
    <2>2. messages \in [Ids -> Seq(Message)]
        BY <1>1
    <2>3. conversations \in Seq([user: Users, asset: Assets])
        BY <1>1
    <2> QED
        BY <1>3, <2>1, <2>2, <2>3, ChatAssumption DEF TypeInv, TurnsTyped
<1>5. ConvInv
    BY <1>2, <1>3, FS_EmptySet DEF ConvInv
<1>6. PairInv
    BY <1>1, <1>2 DEF PairInv, Paired
<1>7. PanelInv
    <2>1. \A c \in Panels : client[c] = [conv |-> 0, shown |-> <<>>, pending |-> 0]
        BY <1>1 DEF Panels
    <2> QED
        BY <1>2, <2>1 DEF PanelInv, ShownInv, WaitInv, OrderInv, Waits
<1> QED
    BY <1>4, <1>5, <1>6, <1>7 DEF IInv

LEMMA NextInv ==
    ASSUME IInv, [Next]_vars
    PROVE  IInv'
<1>1. ASSUME NEW c \in Clients PROVE client[c].conv \in 0 .. MaxTurns + 1
    BY <1>1, ClientFields, ChatAssumption DEF IInv, Ids
<1>2. ASSUME NEW c \in Clients, NEW size \in QuestionSizes, Submit(c, size)
      PROVE  IInv'
    <2>1. Ask(c, size, client[c].conv)
        BY <1>2 DEF Submit
    <2> QED
        BY <1>1, <2>1, AskInv
<1>3. ASSUME NEW c \in Clients, NEW size \in QuestionSizes,
             NEW id \in {0, MaxTurns + 1} \cup DOMAIN conversations, Call(c, size, id)
      PROVE  IInv'
    <2>1. Ask(c, size, id) /\ c \notin Panels
        BY <1>3 DEF Call, Panels
    <2>2. id \in 0 .. MaxTurns + 1
        BY ConversationIds, ChatAssumption DEF Ids
    <2> QED
        BY <2>1, <2>2, AskInv
<1>4. ASSUME NEW c \in Clients, NEW n \in Asked, Retry(c, n)
      PROVE  IInv'
    <2>1. Ask(c, turn[n].size, client[c].conv)
        BY <1>4 DEF Retry
    <2>2. turn[n].size \in QuestionSizes
        BY TurnOf DEF IInv, TurnIn
    <2> QED
        BY <1>1, <2>1, <2>2, AskInv
<1>5. CASE UNCHANGED vars
    <2>1. UNCHANGED <<conversations, messages, turn, client>>
        BY <1>5 DEF vars
    <2>2. TypeInv'
        BY <2>1 DEF IInv, TypeInv, TurnsTyped
    <2>3. Asked' = Asked /\ \A n \in Asked : turn'[n] = turn[n]
        BY <2>1 DEF Asked
    <2>4. AnswersStay /\ NoneAnswers /\ ConvInv' /\ PairInv'
        BY <2>1, <2>2, <2>3, KnownChanges
    <2>5. ASSUME NEW c \in Panels PROVE WaitsAsBefore(c, 0)
        BY <2>1, <2>3 DEF WaitsAsBefore, Waits, IInv, PanelInv, WaitInv, InItsConversation
    <2>6. messages' \in [Ids -> Seq(Message)] /\ GrowBy(0) /\ 0 \notin Asked
        BY <2>1, NothingGrows, ZeroIsNotAsked DEF IInv, TypeInv
    <2>7. PanelInv'
        BY <2>1, <2>4, <2>5, <2>6, PanelsKeep
    <2> QED
        BY <2>2, <2>4, <2>7 DEF IInv
<1>6. CASE Next
    BY <1>2, <1>3, <1>4, <1>6, RemountInv, AnswerInv, ErrorInv, BeginInv, FailsInv,
       ToolReturnsInv, CrashInv DEF Next
<1> QED
    BY <1>5, <1>6

\* The invariant that the theorems below follow from.
LEMMA Inductive == Spec => []IInv
BY InitInv, NextInv, PTL DEF Spec

-----------------------------------------------------------------------------
(* What follows *)

\* What is stored are whole turns: a question directly followed by its own
\* answer, exactly the turns that were answered, each once, whatever overlaps,
\* fails, is retried or crashes (chat.py).
THEOREM TurnsAreStoredWhole == Spec => []StoredInPairs
<1>1. ASSUME IInv PROVE StoredInPairs
    <2>1. \A id \in Ids : Paired(messages[id])
        BY <1>1 DEF IInv, PairInv
    <2>2. ASSUME NEW n \in Asked, NEW id \in Ids
          PROVE  Cardinality(Of(n, messages[id])) =
                     IF turn[n].step = "answered" /\ turn[n].conv = id THEN 2 ELSE 0
        <3>1. CASE turn[n].step = "answered" /\ turn[n].conv = id
            BY <1>1, <3>1 DEF IInv, PairInv
        <3>2. CASE ~(turn[n].step = "answered" /\ turn[n].conv = id)
            <4>1. Of(n, messages[id]) = {}
                BY <1>1, <3>2 DEF IInv, PairInv, Of, OfAnswered
            <4> QED
                BY <3>2, <4>1, FS_EmptySet
        <3> QED
            BY <3>1, <3>2
    <2>3. \A n \in Asked, id \in Ids :
             {i \in DOMAIN Stored(id) : Stored(id)[i].turn = n} = Of(n, messages[id])
        BY DEF Of, Stored
    <2>4. \A n \in Asked : \A id \in Ids :
             Cardinality({i \in DOMAIN Stored(id) : Stored(id)[i].turn = n}) =
                 IF turn[n].step = "answered" /\ turn[n].conv = id THEN 2 ELSE 0
        BY <2>2, <2>3
    <2> QED
        BY <2>1, <2>4 DEF StoredInPairs, Paired, Stored
<1> QED
    BY <1>1, Inductive, PTL

\* The answers a panel shows are in the conversation its next question
\* continues, in the order it shows them (ChatPanel.tsx).
THEOREM PanelsContinueWhatTheyShow == Spec => []ShownIsContinued
<1>1. ASSUME IInv, NEW c \in Clients \ Scripts, client[c].shown # <<>>
      PROVE  LET shown == client[c].shown
                 stored == Stored(client[c].conv)
                 answers(k, i) == stored[k].role = "assistant" /\ stored[k].turn = shown[i]
             IN  /\ client[c].conv # 0
                 /\ \A i \in DOMAIN shown : \E k \in DOMAIN stored : answers(k, i)
                 /\ \A i, j \in DOMAIN shown, k, l \in DOMAIN stored :
                       answers(k, i) /\ answers(l, j) /\ i < j => k < l
    <2>1. PICK id, shown, log : /\ id = client[c].conv /\ shown = client[c].shown
                                /\ log = messages[id]
        OBVIOUS
    <2>2. c \in Panels /\ ShownInv(c) /\ OrderInv(c)
        BY <1>1 DEF IInv, PanelInv, Panels
    <2>3. id # 0 /\ id \in Ids
        BY <1>1, <2>1, <2>2, ClientFields DEF IInv, ShownInv, Panels
    <2>4. ASSUME NEW i \in DOMAIN shown
          PROVE  \E k \in DOMAIN log : log[k].role = "assistant" /\ log[k].turn = shown[i]
        <3>1. OfAnswered(shown[i], id)
            BY <2>1, <2>2 DEF ShownInv
        <3>2. Cardinality(Of(shown[i], log)) = 2
            BY <1>1, <2>1, <3>1 DEF IInv, PairInv, OfAnswered
        <3>3. Of(shown[i], log) # {}
            BY <3>2, FS_EmptySet
        <3>4. PICK k \in DOMAIN log : log[k].turn = shown[i]
            BY <3>3 DEF Of
        <3>5. Paired(log)
            BY <1>1, <2>1, <2>3 DEF IInv, PairInv
        <3>6. CASE k % 2 = 1
            <4>1. /\ k + 1 \in DOMAIN log /\ log[k + 1].role = "assistant"
                  /\ log[k + 1].turn = log[k].turn
                BY <3>5, <3>6 DEF Paired
            <4> QED
                BY <3>4, <4>1
        <3>7. CASE k % 2 # 1
            BY <3>4, <3>5, <3>7 DEF Paired
        <3> QED
            BY <3>6, <3>7
    <2>5. \A i, j \in DOMAIN shown, k, l \in DOMAIN log :
             log[k].turn = shown[i] /\ log[l].turn = shown[j] /\ i < j => k < l
        BY <2>1, <2>2, <2>3 DEF OrderInv
    <2> QED
        BY <2>1, <2>3, <2>4, <2>5 DEF Stored
<1>2. IInv => ShownIsContinued
    BY <1>1 DEF ShownIsContinued
<1> QED
    BY <1>2, Inductive, PTL
=============================================================================
