------------------------ MODULE BrowserSessionProofs ------------------------
(***************************************************************************)
(* Theorems about BrowserSession, for any users, organizations, tabs and   *)
(* number of calls.  The invariant says, for a tab that is quiet, whose    *)
(* calls may be in flight in which status of AuthProvider, and that the    *)
(* tokens in memory, those sent for a refresh and those of every call are  *)
(* of one user; for a tab whose session was taken over, only the latter    *)
(* and which calls may restore it; and for every tab that somebody waits   *)
(* for each refresh.                                                       *)
(***************************************************************************)
EXTENDS BrowserSession, TLAPS

-----------------------------------------------------------------------------
(* The state of a tab.                                                     *)

\* What holds of every call: only one in flight has a tab, and only one with
\* a token is answered.
Placed(c) ==
    /\ call[c].tab \in Tabs <=> call[c].step \in InFlight
    /\ call[c].live => call[c].token # None
    /\ call[c].step = "signin" => call[c].by \in Users /\ call[c].kind = "login"

\* A refresh is in flight as long as calls wait for it.
Awaited(t) == refreshing[t] # None <=> Waiters(t) # {}

TypeInv == TypeOK /\ (\A c \in Calls : Placed(c)) /\ (\A t \in Tabs : Awaited(t))

Signing(c) == call[c].step = "signin"

\* Every call of the tab sends a token of the user who made it, or none if nobody
\* was signed in: the user whose tokens the tab has and whose token is refreshed.
OfOneUser(t) ==
    /\ \A c \in CallsOf(t) : ~Signing(c) =>
          /\ call[c].by = UserOf(call[c].token)
          /\ memory[t] # None => call[c].by = memory[t].user
    /\ refreshing[t] # None => memory[t] # None /\ refreshing[t].user = memory[t].user

\* The calls that may be in flight.
WhenClosed(t) == CallsOf(t) = {}
WhenLoading(t) ==
    /\ memory[t] # None /\ current[t] = None
    /\ \A c, d \in CallsOf(t) :
          /\ Signing(c) \/ call[c].kind = "hydrate"
          /\ c # d => Signing(c) \/ Signing(d)
WhenAuthenticated(t) ==
    /\ memory[t] # None
    /\ shown[t] \subseteq memberOf[memory[t].user]
    /\ current[t] \in shown[t] \cup {None}
    /\ \A c \in CallsOf(t) : Signing(c) \/ call[c].kind \in {"page", "createOrg"}
WhenUnauthenticated(t) ==
    \A c \in CallsOf(t) :
        \/ Signing(c)
        \/ memory[t] = None /\ call[c].kind \in {"page", "createOrg"}
        \/ call[c].kind = "login" /\ CallsOf(t) = {c} /\ memory[t] # None /\ current[t] = None

Quiet(t) ==
    /\ OfOneUser(t)
    /\ status[t] = "closed" => WhenClosed(t)
    /\ status[t] = "loading" => WhenLoading(t)
    /\ status[t] = "authenticated" => WhenAuthenticated(t)
    /\ status[t] = "unauthenticated" => WhenUnauthenticated(t)

\* A session was taken over: one sign-in at most is in flight, and the list it
\* waits for finds the session it began, unless that has expired.
WhenTakenOver(t) ==
    /\ \A c \in CallsOf(t) : call[c].kind # "hydrate"
    /\ \A c, d \in CallsOf(t) :
          call[c].kind = "login" /\ call[d].kind = "login" => c = d
    /\ status[t] = "authenticated" =>
          \A c \in CallsOf(t) :
              call[c].kind = "login" => Signing(c) \/ memory[t] # None

TakenOver(t) == OfOneUser(t) /\ WhenTakenOver(t)

\* What holds of a tab in which nobody signed in or out while a call was in flight.
Sound(t) == IF takeover[t] THEN TakenOver(t) ELSE Quiet(t)

QuietInv == \A t \in Tabs : overlap[t] \/ Sound(t)

-----------------------------------------------------------------------------
(* Types.                                                                  *)

Fits(r) ==
    /\ r \in CallRecord
    /\ r.tab \in Tabs <=> r.step \in InFlight
    /\ r.live => r.token # None
    /\ r.step = "signin" => r.by \in Users /\ r.kind = "login"

LEMMA CallsFit == TypeInv <=>
    /\ TypeOK /\ call \in [Calls -> CallRecord]
    /\ \A c \in Calls : Fits(call[c])
    /\ \A t \in Tabs : Awaited(t)
BY DEF TypeInv, TypeOK, Placed, Fits

LEMMA NobodyFits ==
    ASSUME NEW step \in {"idle", "ok", "failed"}
    PROVE  /\ Fits(NoCall(step)) /\ NoCall(step).step = step /\ NoCall(step).tab = None
           /\ NoCall(step).tab \notin Tabs
BY SessionAssumption DEF Fits, NoCall, CallRecord, Kind, Step, InFlight

\* Who waits, by the calls.
LEMMA WhoWaits ==
    ASSUME NEW t, NEW c
    PROVE  /\ c \in CallsOf(t) <=> c \in Calls /\ call[c].tab = t /\ call[c].step \in InFlight
           /\ c \in Waiters(t) <=> c \in Calls /\ call[c].tab = t /\ call[c].step = "waiting"
BY DEF CallsOf, Waiters, InFlight

LEMMA WhoWaitsThen ==
    ASSUME NEW t, NEW c
    PROVE  /\ c \in CallsOf(t)' <=>
                 c \in Calls /\ call'[c].tab = t /\ call'[c].step \in InFlight
           /\ c \in Waiters(t)' <=>
                 c \in Calls /\ call'[c].tab = t /\ call'[c].step = "waiting"
BY DEF CallsOf, Waiters, InFlight

\* A call is made, goes out again or ends: nobody starts or stops waiting.
LEMMA CallMoves ==
    ASSUME TypeInv, NEW c \in Calls, NEW r, Fits(r), call' = [call EXCEPT ![c] = r],
           call[c].step # "waiting", r.step # "waiting", refreshing' = refreshing
    PROVE  /\ call' \in [Calls -> CallRecord] /\ \A d \in Calls : Fits(call'[d])
           /\ \A t \in Tabs : Awaited(t)'
<1>1. \A d \in Calls : call'[d] = IF d = c THEN r ELSE call[d]
    BY DEF TypeInv, TypeOK
<1>2. call' \in [Calls -> CallRecord] /\ \A d \in Calls : Fits(call'[d])
    BY <1>1, CallsFit DEF Fits
<1>3. ASSUME NEW t \in Tabs PROVE Awaited(t)'
    <2>1. Waiters(t)' = Waiters(t)
        <3>1. \A d : d \in Waiters(t)' <=> d \in Waiters(t)
            BY <1>1, WhoWaits, WhoWaitsThen
        <3> QED
            BY <3>1
    <2> QED
        BY <2>1, CallsFit DEF Awaited
<1> QED
    BY <1>2, <1>3

\* A refresh settles or a page load drops it: the tab has no waiters then.
LEMMA CallsSettle ==
    ASSUME TypeInv, NEW t \in Tabs, call' \in [Calls -> CallRecord],
           \A d \in Calls : Fits(call'[d]),
           \A d \in Calls : call[d].tab = t => call'[d].step # "waiting",
           \A d \in Calls : \/ call[d].tab = t \/ call'[d] = call[d]
                            \/ call[d].step = "idle" /\ call'[d].step # "waiting",
           refreshing' = [refreshing EXCEPT ![t] = None]
    PROVE  \A u \in Tabs : Awaited(u)'
<1> SUFFICES ASSUME NEW u \in Tabs PROVE Awaited(u)'
    OBVIOUS
<1>1. refreshing'[u] = IF u = t THEN None ELSE refreshing[u]
    BY DEF TypeInv, TypeOK
<1>2. CASE u = t
    <2>1. \A d \in Calls : ~(call'[d].tab = t /\ call'[d].step = "waiting")
        <3> SUFFICES ASSUME NEW d \in Calls, call'[d].tab = t, call'[d].step = "waiting"
                     PROVE  FALSE
            OBVIOUS
        <3>1. call'[d] = call[d]
            OBVIOUS
        <3> QED
            BY <3>1
    <2>2. Waiters(t)' = {}
        BY <2>1, WhoWaitsThen
    <2> QED
        BY <1>1, <1>2, <2>2 DEF Awaited
<1>3. CASE u # t
    <2>1. \A d : d \in Waiters(u)' <=> d \in Waiters(u)
        <3> SUFFICES ASSUME NEW d \in Calls
                     PROVE  (call'[d].tab = u /\ call'[d].step = "waiting") <=>
                            (call[d].tab = u /\ call[d].step = "waiting")
            BY WhoWaits, WhoWaitsThen
        <3> QED
            BY <1>3
    <2>2. Waiters(u)' = Waiters(u)
        BY <2>1
    <2> QED
        BY <1>1, <1>3, <2>2, CallsFit DEF Awaited
<1> QED
    BY <1>2, <1>3

LEMMA TypeInit == Init => TypeInv
<1> SUFFICES ASSUME Init PROVE TypeInv
    OBVIOUS
<1>1. call = [c \in Calls |-> NoCall("idle")] /\ refreshing = [t \in Tabs |-> None]
    BY DEF Init
<1>2. call \in [Calls -> CallRecord] /\ \A c \in Calls : Fits(call[c])
    BY <1>1, NobodyFits DEF Fits
<1>3. TypeOK
    BY <1>2, SessionAssumption DEF Init, TypeOK, Token
<1>4. ASSUME NEW t \in Tabs PROVE Awaited(t)
    <2>1. Waiters(t) = {}
        BY <1>1, NobodyFits, WhoWaits
    <2> QED
        BY <1>1, <2>1 DEF Awaited
<1> QED
    BY <1>2, <1>3, <1>4, CallsFit

\* The types of everything but the calls.
Rest ==
    /\ clock \in 0 .. MaxClock
    /\ memberOf \in [Users -> SUBSET Orgs]
    /\ storage \in Token \cup {None}
    /\ memory \in [Tabs -> Token \cup {None}]
    /\ refreshing \in [Tabs -> Token \cup {None}]
    /\ status \in [Tabs -> {"closed", "loading", "authenticated", "unauthenticated"}]
    /\ shown \in [Tabs -> SUBSET Orgs]
    /\ current \in [Tabs -> Orgs \cup {None}]
    /\ overlap \in [Tabs -> BOOLEAN]
    /\ takeover \in [Tabs -> BOOLEAN]

LEMMA RestTyped == TypeInv <=>
    /\ Rest /\ call \in [Calls -> CallRecord]
    /\ \A c \in Calls : Fits(call[c])
    /\ \A t \in Tabs : Awaited(t)
BY CallsFit DEF Rest, TypeOK

LEMMA TypedThen ==
    ASSUME Rest', call' \in [Calls -> CallRecord], \A c \in Calls : Fits(call'[c]),
           \A t \in Tabs : Awaited(t)'
    PROVE  TypeInv'
BY DEF TypeInv, TypeOK, Rest, Fits, Placed

\* rawFetch: what is sent fits its tab.
LEMMA SentFits ==
    ASSUME NEW t \in Tabs, NEW kind \in Kind, NEW by \in Users \cup {None},
           NEW token \in Token \cup {None}
    PROVE  /\ Fits(Sent(t, kind, by, token))
           /\ Sent(t, kind, by, token).step = "sent" /\ Sent(t, kind, by, token).tab = t
           /\ Sent(t, kind, by, token).kind = kind /\ Sent(t, kind, by, token).by = by
           /\ Sent(t, kind, by, token).token = token
BY DEF Fits, Sent, CallRecord, Step, InFlight, Valid

LEMMA SetTyped ==
    ASSUME Rest, NEW t \in Tabs, NEW pair \in Token \cup {None}, SetTokens(t, pair)
    PROVE  /\ storage' \in Token \cup {None} /\ memory' \in [Tabs -> Token \cup {None}]
           /\ \A u \in Tabs : memory'[u] = IF u = t THEN pair ELSE memory[u]
BY DEF Rest, SetTokens

LEMMA SignedOutTyped ==
    ASSUME Rest, NEW t \in Tabs, SignedOut(t)
    PROVE  /\ status' \in [Tabs -> {"closed", "loading", "authenticated", "unauthenticated"}]
           /\ shown' \in [Tabs -> SUBSET Orgs] /\ current' \in [Tabs -> Orgs \cup {None}]
           /\ \A u \in Tabs : /\ u # t => status'[u] = status[u] /\ shown'[u] = shown[u]
                                         /\ current'[u] = current[u]
                              /\ u = t => /\ status'[u] = "unauthenticated"
                                          /\ current'[u] = None
BY DEF Rest, SignedOut

LEMMA PairTyped ==
    ASSUME Rest, NEW user \in Users
    PROVE  [user |-> user, gen |-> clock] \in Token /\ [user |-> user, gen |-> clock] # None
           /\ [user |-> user, gen |-> clock].user = user
BY SessionAssumption DEF Rest, Token

\* The tab and the token of a call in flight.
LEMMA InFlightTyped ==
    ASSUME TypeInv, NEW c \in Calls, call[c].step \in InFlight
    PROVE  /\ call[c].tab \in Tabs /\ call[c].kind \in Kind
           /\ call[c].token # None => call[c].token \in Token /\ call[c].token.user \in Users
           /\ call[c].live => call[c].token # None
BY RestTyped DEF Fits, CallRecord, Token

LEMMA NoCallMoves ==
    ASSUME TypeInv, NEW c \in Calls, NEW step \in {"ok", "failed"}, End(c, step),
           call[c].step # "waiting", refreshing' = refreshing
    PROVE  /\ call' \in [Calls -> CallRecord] /\ \A d \in Calls : Fits(call'[d])
           /\ \A t \in Tabs : Awaited(t)'
BY CallMoves, NobodyFits DEF End

LEMMA AnsweredTyped ==
    ASSUME TypeInv, NEW c \in Calls, Answered(c)
    PROVE  TypeInv'
<1> DEFINE t == call[c].tab
           u == call[c].token.user
<1>1. Rest
    BY RestTyped
<1>2. call[c].step \in {"sent", "resent"} /\ call[c].live
      /\ End(c, "ok") /\ UNCHANGED <<clock, storage, memory, refreshing, overlap>>
    BY DEF Answered, tokenVars
<1>3. t \in Tabs /\ u \in Users
    BY <1>2, InFlightTyped DEF InFlight
<1>4. /\ memberOf' \in [Users -> SUBSET Orgs] /\ shown' \in [Tabs -> SUBSET Orgs]
      /\ current' \in [Tabs -> Orgs \cup {None}]
      /\ status' \in [Tabs -> {"closed", "loading", "authenticated", "unauthenticated"}]
      /\ takeover' \in [Tabs -> BOOLEAN]
    <2>1. CASE UNCHANGED <<memberOf, providerVars, takeover>>
        BY <1>1, <2>1 DEF Rest, providerVars
    <2>2. CASE /\ LoadOrganizations(t, memberOf[u])
               /\ status' = [status EXCEPT ![t] = "authenticated"]
               /\ \E b \in BOOLEAN : takeover' = [takeover EXCEPT ![t] = @ /\ b]
               /\ UNCHANGED memberOf
        <3>1. memberOf[u] \in SUBSET Orgs
            BY <1>1, <1>3 DEF Rest
        <3> QED
            BY <1>1, <1>3, <2>2, <3>1 DEF Rest, LoadOrganizations
    <2>3. CASE \E o \in NewOrgs :
                    /\ memberOf' = [memberOf EXCEPT ![u] = @ \cup {o}]
                    /\ shown' = [shown EXCEPT ![t] = @ \cup {o}]
                    /\ current' = [current EXCEPT ![t] = o]
                    /\ UNCHANGED <<status, takeover>>
        <3>1. NewOrgs \subseteq Orgs
            BY DEF NewOrgs
        <3> QED
            BY <1>1, <1>3, <2>3, <3>1 DEF Rest
    <2> QED
        BY <2>1, <2>2, <2>3 DEF Answered
<1>5. Rest'
    BY <1>1, <1>2, <1>4 DEF Rest
<1> QED
    BY <1>2, <1>5, NoCallMoves, TypedThen

LEMMA CallFailsTyped ==
    ASSUME TypeInv, NEW c \in Calls, CallFails(c)
    PROVE  TypeInv'
<1> DEFINE t == call[c].tab
<1>1. Rest
    BY RestTyped
<1>2. call[c].step \in {"sent", "resent"} /\ End(c, "failed")
      /\ UNCHANGED <<clock, refreshing, shown, current, overlap, takeover>>
    BY DEF CallFails, history
<1>3. t \in Tabs
    BY <1>2, InFlightTyped DEF InFlight
<1>4. /\ storage' \in Token \cup {None} /\ memory' \in [Tabs -> Token \cup {None}]
      /\ status' \in [Tabs -> {"closed", "loading", "authenticated", "unauthenticated"}]
    <2>1. CASE ClearTokens(t) /\ status' = [status EXCEPT ![t] = "unauthenticated"]
        BY <1>1, <1>3, <2>1, SetTyped DEF ClearTokens, Rest
    <2>2. CASE UNCHANGED <<tokenVars, status>>
        BY <1>1, <2>2 DEF tokenVars, Rest
    <2> QED
        BY <2>1, <2>2 DEF CallFails
<1>5. memberOf' \in [Users -> SUBSET Orgs]
    <2>1. CASE UNCHANGED memberOf
        BY <1>1, <2>1 DEF Rest
    <2>2. CASE \E o \in NewOrgs :
                  call[c].live
                  /\ memberOf' = [memberOf EXCEPT ![call[c].token.user] = @ \cup {o}]
        <3>1. call[c].token.user \in Users /\ NewOrgs \subseteq Orgs
            BY <1>2, <2>2, InFlightTyped DEF InFlight, NewOrgs
        <3> QED
            BY <1>1, <2>2, <3>1 DEF Rest
    <2> QED
        BY <2>1, <2>2 DEF CallFails
<1>6. Rest'
    BY <1>1, <1>2, <1>4, <1>5 DEF Rest
<1> QED
    BY <1>2, <1>6, NoCallMoves, TypedThen

LEMMA UnauthorizedTyped ==
    ASSUME TypeInv, NEW c \in Calls, Unauthorized(c)
    PROVE  TypeInv'
<1> DEFINE t == call[c].tab
           r == [call[c] EXCEPT !.step = "waiting"]
<1>1. /\ Rest /\ call \in [Calls -> CallRecord] /\ \A d \in Calls : Fits(call[d])
      /\ \A u \in Tabs : Awaited(u)
    BY RestTyped
<1>2. call[c].step = "sent" /\ UNCHANGED <<clock, memberOf, overlap, takeover>>
    BY DEF Unauthorized, history
<1>3. t \in Tabs
    BY <1>2, InFlightTyped DEF InFlight
<1>4. CASE memory[t] = None
    <2>1. ClearTokens(t) /\ SignedOut(t) /\ End(c, "failed") /\ UNCHANGED refreshing
        BY <1>4 DEF Unauthorized
    <2>2. Rest'
        BY <1>1, <1>2, <1>3, <2>1, SetTyped, SignedOutTyped DEF ClearTokens, Rest
    <2> QED
        BY <1>2, <2>1, <2>2, NoCallMoves, TypedThen
<1>5. CASE memory[t] # None
    <2>1. /\ call' = [call EXCEPT ![c] = r] /\ UNCHANGED <<tokenVars, providerVars>>
          /\ refreshing' = [refreshing EXCEPT ![t] = IF @ = None THEN memory[t] ELSE @]
        BY <1>5 DEF Unauthorized
    <2>2. /\ Fits(r) /\ r.step = "waiting" /\ r.tab = t
        <3>1. /\ r \in CallRecord /\ r.step = "waiting" /\ r.tab = t
              /\ r.live = call[c].live /\ r.token = call[c].token
            BY <1>1 DEF CallRecord, Step
        <3> HIDE DEF r
        <3> QED
            BY <1>1, <1>3, <3>1 DEF Fits, InFlight
    <2> HIDE DEF r
    <2>3. \A d \in Calls : call'[d] = IF d = c THEN r ELSE call[d]
        BY <1>1, <2>1
    <2>4. call' \in [Calls -> CallRecord] /\ \A d \in Calls : Fits(call'[d])
        BY <1>1, <2>2, <2>3, <2>1 DEF Fits
    <2>5. ASSUME NEW u \in Tabs PROVE Awaited(u)'
        <3>1. refreshing'[u] = IF u = t /\ refreshing[t] = None THEN memory[t]
                                                                ELSE refreshing[u]
            BY <1>1, <1>3, <2>1 DEF Rest
        <3>2. CASE u = t
            <4>1. c \in Waiters(u)'
                BY <2>2, <2>3, <3>2, WhoWaitsThen
            <4> QED
                BY <1>5, <3>1, <3>2, <4>1 DEF Awaited
        <3>3. CASE u # t
            <4>1. \A d : d \in Waiters(u)' <=> d \in Waiters(u)
                BY <2>2, <2>3, <3>3, WhoWaits, WhoWaitsThen
            <4>2. Waiters(u)' = Waiters(u)
                BY <4>1
            <4> QED
                BY <1>1, <3>1, <3>3, <4>2 DEF Awaited
        <3> QED
            BY <3>2, <3>3
    <2>6. Rest'
        BY <1>1, <1>2, <1>3, <2>1 DEF Rest, tokenVars, providerVars
    <2> QED
        BY <2>4, <2>5, <2>6, TypedThen
<1> QED
    BY <1>4, <1>5

\* The call as it goes out again with the pair of the refresh.
Again(c, pair) == [call[c] EXCEPT !.step = "resent", !.token = pair, !.live = TRUE]

LEMMA AgainFits ==
    ASSUME TypeInv, NEW c \in Calls, call[c].step = "waiting", NEW pair \in Token, pair # None
    PROVE  /\ Fits(Again(c, pair)) /\ Again(c, pair).step = "resent"
           /\ Again(c, pair).tab = call[c].tab /\ Again(c, pair).kind = call[c].kind
           /\ Again(c, pair).by = call[c].by /\ Again(c, pair).token = pair
<1>1. call[c] \in CallRecord /\ call[c].tab \in Tabs
    BY InFlightTyped, RestTyped DEF InFlight
<1> QED
    BY <1>1 DEF Again, Fits, CallRecord, Step, InFlight

LEMMA RefreshTyped ==
    ASSUME TypeInv, NEW t \in Tabs, RefreshSucceeds(t) \/ RefreshFails(t)
    PROVE  TypeInv'
<1>1. /\ Rest /\ call \in [Calls -> CallRecord] /\ \A d \in Calls : Fits(call[d])
    BY RestTyped
<1>2. /\ refreshing[t] # None /\ UNCHANGED <<clock, memberOf, overlap, takeover>>
      /\ refreshing' = [refreshing EXCEPT ![t] = None]
    BY DEF RefreshSucceeds, RefreshFails, history
<1>3. ASSUME NEW f, call' = [d \in Calls |-> IF d \in Waiters(t) THEN f[d] ELSE call[d]],
             \A d \in Waiters(t) : Fits(f[d]) /\ f[d].step # "waiting"
      PROVE  /\ call' \in [Calls -> CallRecord] /\ \A d \in Calls : Fits(call'[d])
             /\ \A u \in Tabs : Awaited(u)'
    <2>1. \A d \in Calls : call'[d] = IF d \in Waiters(t) THEN f[d] ELSE call[d]
        BY <1>3
    <2>2. call' \in [Calls -> CallRecord] /\ \A d \in Calls : Fits(call'[d])
        BY <1>1, <1>3, <2>1 DEF Fits
    <2>3. /\ \A d \in Calls : call[d].tab = t => call'[d].step # "waiting"
          /\ \A d \in Calls : call[d].tab = t \/ call'[d] = call[d]
        BY <1>3, <2>1, WhoWaits
    <2>4. \A u \in Tabs : Awaited(u)'
        BY <1>2, <2>2, <2>3, CallsSettle
    <2> QED
        BY <2>2, <2>4
<1>4. CASE RefreshSucceeds(t)
    <2> DEFINE pair == [user |-> refreshing[t].user, gen |-> clock]
               f == [d \in Calls |-> Again(d, pair)]
    <2>1. refreshing[t].user \in Users
        BY <1>1, <1>2 DEF Rest, Token
    <2>2. pair \in Token /\ pair # None
        BY <1>1, <2>1, PairTyped
    <2>3. SetTokens(t, pair) /\ UNCHANGED providerVars
        BY <1>4 DEF RefreshSucceeds
    <2>4. call' = [d \in Calls |-> IF d \in Waiters(t) THEN f[d] ELSE call[d]]
        BY <1>4 DEF RefreshSucceeds, Again
    <2> HIDE DEF pair
    <2>5. \A d \in Waiters(t) : Fits(f[d]) /\ f[d].step # "waiting"
        BY <2>2, AgainFits, WhoWaits
    <2> HIDE DEF f
    <2>6. Rest'
        BY <1>1, <1>2, <2>2, <2>3, SetTyped DEF Rest, providerVars
    <2> QED
        BY <1>3, <2>4, <2>5, <2>6, TypedThen
<1>5. CASE RefreshFails(t)
    <2> DEFINE f == [d \in Calls |-> NoCall("failed")]
    <2>1. ClearTokens(t) /\ SignedOut(t)
        BY <1>5 DEF RefreshFails
    <2>2. call' = [d \in Calls |-> IF d \in Waiters(t) THEN f[d] ELSE call[d]]
        BY <1>5 DEF RefreshFails
    <2>3. \A d \in Waiters(t) : Fits(f[d]) /\ f[d].step # "waiting"
        BY NobodyFits, WhoWaits
    <2> HIDE DEF f
    <2>4. Rest'
        BY <1>1, <1>2, <2>1, SetTyped, SignedOutTyped DEF ClearTokens, Rest
    <2> QED
        BY <1>3, <2>2, <2>3, <2>4, TypedThen
<1> QED
    BY <1>4, <1>5

LEMMA PlaceTyped ==
    ASSUME TypeInv, NEW c \in Calls, NEW r, Fits(r), r.step \in {"sent", "signin"},
           Place(c, r), UNCHANGED <<clock, memberOf, tokenVars, refreshing, providerVars,
                                    history>>
    PROVE  TypeInv'
<1>1. call[c].step = "idle" /\ call' = [call EXCEPT ![c] = r]
    BY DEF Place, Unused
<1>2. Rest'
    BY RestTyped DEF Rest, tokenVars, providerVars, history
<1> QED
    BY <1>1, <1>2, CallMoves, TypedThen

LEMMA LoadTyped ==
    ASSUME TypeInv, NEW t \in Tabs, NEW c \in Calls, Load(t, c)
    PROVE  /\ TypeInv' /\ call[c].step = "idle"
           /\ \A d \in Calls : call'[d] =
                 IF d = c /\ storage # None THEN Sent(t, "hydrate", storage.user, storage)
                 ELSE IF d \in CallsOf(t) THEN NoCall("failed") ELSE call[d]
<1> DEFINE sent == Sent(t, "hydrate", storage.user, storage)
           dropped == [d \in Calls |-> IF d \in CallsOf(t) THEN NoCall("failed")
                                                           ELSE call[d]]
<1>1. /\ Rest /\ call \in [Calls -> CallRecord] /\ \A d \in Calls : Fits(call[d])
    BY RestTyped
<1>2. call[c].step = "idle" /\ refreshing' = [refreshing EXCEPT ![t] = None]
      /\ UNCHANGED <<clock, memberOf, storage>>
    BY DEF Load, Unused
<1>3. storage # None => storage.user \in Users /\ storage \in Token
    BY <1>1 DEF Rest, Token
<1>4. storage # None => Fits(sent) /\ sent.step = "sent" /\ sent.tab = t
    BY <1>3, SentFits DEF Kind
<1>5. call' = IF storage = None THEN dropped ELSE [dropped EXCEPT ![c] = sent]
    BY DEF Load
<1> HIDE DEF sent
<1>6. \A d \in Calls : call'[d] = IF d = c /\ storage # None THEN sent
                                 ELSE IF d \in CallsOf(t) THEN NoCall("failed") ELSE call[d]
    BY <1>5
<1>7. call' = [d \in Calls |-> call'[d]]
    BY <1>5
<1> HIDE DEF dropped
<1>8. call' \in [Calls -> CallRecord] /\ \A d \in Calls : Fits(call'[d])
    BY <1>1, <1>4, <1>6, <1>7, NobodyFits DEF Fits
<1>9. \A u \in Tabs : Awaited(u)'
    <2>1. ASSUME NEW d \in Calls, call[d].tab = t PROVE call'[d].step # "waiting"
        BY <1>1, <1>4, <1>6, <2>1, NobodyFits, WhoWaits DEF Fits
    <2>2. ASSUME NEW d \in Calls, call[d].tab # t
          PROVE  \/ call'[d] = call[d]
                 \/ call[d].step = "idle" /\ call'[d].step # "waiting"
        BY <1>2, <1>4, <1>6, <2>2, WhoWaits
    <2> QED
        BY <1>2, <1>8, <2>1, <2>2, CallsSettle
<1>10. Rest'
    BY <1>1, <1>2, <1>3 DEF Load, Rest
<1> QED
    BY <1>2, <1>6, <1>8, <1>9, <1>10, TypedThen DEF sent

LEMMA LoginAcceptedTyped ==
    ASSUME TypeInv, NEW c \in Calls, LoginAccepted(c)
    PROVE  /\ TypeInv' /\ call[c].by \in Users
           /\ call'[c].step = "sent" /\ call'[c].tab = call[c].tab
           /\ call'[c].kind = "login" /\ call'[c].by = call[c].by
           /\ call'[c].token = [user |-> call[c].by, gen |-> clock]
           /\ \A d \in Calls : d # c => call'[d] = call[d]
<1> DEFINE t == call[c].tab
           pair == [user |-> call[c].by, gen |-> clock]
           r == [call[c] EXCEPT !.step = "sent", !.token = pair, !.live = TRUE]
<1>1. /\ Rest /\ call \in [Calls -> CallRecord] /\ Fits(call[c])
    BY RestTyped
<1>2. call[c].step = "signin" /\ SetTokens(t, pair) /\ call' = [call EXCEPT ![c] = r]
      /\ UNCHANGED <<clock, memberOf, refreshing, status, shown>>
    BY DEF LoginAccepted
<1>3. t \in Tabs /\ call[c].by \in Users /\ call[c].kind = "login"
    BY <1>1, <1>2 DEF Fits, InFlight
<1>4. pair \in Token /\ pair # None
    BY <1>1, <1>3, PairTyped
<1>5. /\ current' = [current EXCEPT ![t] = None]
      /\ \E b \in BOOLEAN : overlap' = [overlap EXCEPT ![t] = b]
      /\ \E b \in BOOLEAN : takeover' = [takeover EXCEPT ![t] = b]
    BY DEF LoginAccepted
<1> HIDE DEF pair
<1>6. /\ r \in CallRecord /\ r.step = "sent" /\ r.tab = t /\ r.live /\ r.token = pair
      /\ r.kind = "login" /\ r.by = call[c].by
    BY <1>1, <1>3, <1>4 DEF Fits, CallRecord, Step
<1>7. Fits(r)
    <2> HIDE DEF r
    <2> QED
        BY <1>3, <1>4, <1>6 DEF Fits, InFlight
<1>8. \A d \in Calls : call'[d] = IF d = c THEN r ELSE call[d]
    BY <1>1, <1>2
<1> HIDE DEF r
<1>9. Rest'
    BY <1>1, <1>2, <1>3, <1>4, <1>5, SetTyped DEF Rest
<1>10. TypeInv'
    BY <1>2, <1>6, <1>7, <1>9, CallMoves, TypedThen
<1> QED
    BY <1>3, <1>6, <1>8, <1>10 DEF pair

LEMMA TypeNext == TypeInv /\ [Next]_vars => TypeInv'
<1> SUFFICES ASSUME TypeInv, [Next]_vars PROVE TypeInv'
    OBVIOUS
<1>0. /\ Rest /\ call \in [Calls -> CallRecord] /\ \A d \in Calls : Fits(call[d])
      /\ \A t \in Tabs : Awaited(t)
    BY RestTyped
<1>1. ASSUME NEW c \in Calls, Settle(c) PROVE TypeInv'
    <2>1. CASE LoginRejected(c)
        <3>1. Rest'
            BY <1>0, <2>1 DEF LoginRejected, Rest, tokenVars, providerVars, history
        <3> QED
            BY <2>1, <3>1, NoCallMoves, TypedThen DEF LoginRejected
    <2> QED
        BY <1>1, <2>1, AnsweredTyped, CallFailsTyped, UnauthorizedTyped, LoginAcceptedTyped
        DEF Settle
<1>2. ASSUME NEW t \in Tabs, RefreshSettles(t) PROVE TypeInv'
    BY <1>2, RefreshTyped DEF RefreshSettles
<1>3. ASSUME NEW t \in Tabs, Logout(t) PROVE TypeInv'
    <2>1. /\ ClearTokens(t) /\ SignedOut(t) /\ UNCHANGED <<clock, memberOf, refreshing, call>>
          /\ \E b \in BOOLEAN : overlap' = [overlap EXCEPT ![t] = b]
          /\ takeover' = [takeover EXCEPT ![t] = FALSE]
        BY <1>3 DEF Logout
    <2>2. Rest'
        BY <1>0, <2>1, SetTyped, SignedOutTyped DEF ClearTokens, Rest
    <2> QED
        BY <1>0, <2>1, <2>2, TypedThen DEF Awaited, Waiters, CallsOf
<1>4. ASSUME NEW t \in Tabs, NEW o \in Orgs, SelectOrg(t, o) PROVE TypeInv'
    <2>1. Rest'
        BY <1>0, <1>4 DEF SelectOrg, Rest, tokenVars, history
    <2> QED
        BY <1>0, <1>4, <2>1, TypedThen DEF SelectOrg, Awaited, Waiters, CallsOf
<1>5. ASSUME NEW t \in Tabs, NEW c \in Calls, NEW kind \in Kind, PageCalls(t, c, kind)
      PROVE  TypeInv'
    <2>1. memory[t] \in Token \cup {None} /\ UserOf(memory[t]) \in Users \cup {None}
        BY <1>0 DEF Rest, UserOf, Token
    <2> QED
        BY <1>5, <2>1, SentFits, PlaceTyped DEF PageCalls, GetAccessToken
<1>6. ASSUME NEW t \in Tabs, NEW c \in Calls, NEW u \in Users, Login(t, c, u)
      PROVE  TypeInv'
    <2> DEFINE r == [tab |-> t, kind |-> "login", by |-> u, step |-> "signin",
                     token |-> None, live |-> FALSE]
    <2>1. Fits(r) /\ r.step = "signin"
        BY DEF Fits, CallRecord, Kind, Step, InFlight
    <2>2. Place(c, r) /\ UNCHANGED <<clock, memberOf, tokenVars, refreshing, providerVars,
                                     history>>
        BY <1>6 DEF Login
    <2> HIDE DEF r
    <2> QED
        BY <2>1, <2>2, PlaceTyped
<1>7. CASE Expire
    <2>1. Rest'
        BY <1>0, <1>7, SessionAssumption DEF Expire, Rest, tokenVars, providerVars, history
    <2> QED
        BY <1>0, <1>7, <2>1, TypedThen DEF Expire, Awaited, Waiters, CallsOf
<1>8. CASE UNCHANGED vars
    <2>1. Rest'
        BY <1>0, <1>8 DEF vars, Rest, history
    <2> QED
        BY <1>0, <1>8, <2>1, TypedThen DEF vars, Awaited, Waiters, CallsOf
<1> QED
    BY <1>1, <1>2, <1>3, <1>4, <1>5, <1>6, <1>7, <1>8, LoadTyped DEF Next

LEMMA TypesCorrect == Spec => []TypeInv
<1> QED
    BY TypeInit, TypeNext, PTL DEF Spec

\* Every reachable state is well typed.
THEOREM SessionTypes == Spec => []TypeOK
<1>1. TypeInv => TypeOK
    BY DEF TypeInv
<1> QED
    BY <1>1, TypesCorrect, PTL

\* No call waits for a refresh nobody sent, and no refresh is in flight that
\* nobody waits for, whatever page loads, log-ins and failures do.
THEOREM RefreshesAreAwaited == Spec => [](\A t \in Tabs : Awaited(t))
<1>1. TypeInv => \A t \in Tabs : Awaited(t)
    BY DEF TypeInv
<1> QED
    BY <1>1, TypesCorrect, PTL

-----------------------------------------------------------------------------
(* Quiet tabs.                                                             *)

\* A step of another tab leaves a tab alone.
Same(t) ==
    /\ \A c \in Calls : call[c].tab = t \/ call'[c].tab = t => call'[c] = call[c]
    /\ memory'[t] = memory[t] /\ refreshing'[t] = refreshing[t]
    /\ status'[t] = status[t] /\ shown'[t] = shown[t] /\ current'[t] = current[t]
    /\ overlap'[t] = overlap[t] /\ takeover'[t] = takeover[t]

LEMMA MembersGrow ==
    ASSUME TypeInv, [Next]_vars, NEW u \in Users
    PROVE  memberOf[u] \subseteq memberOf'[u]
<1>1. CASE \E v, o : memberOf' = [memberOf EXCEPT ![v] = @ \cup {o}]
    BY <1>1, RestTyped DEF Rest
<1>2. CASE UNCHANGED memberOf
    BY <1>2
<1>3. ASSUME NEW c \in Calls, Settle(c)
      PROVE  UNCHANGED memberOf \/ \E v, o : memberOf' = [memberOf EXCEPT ![v] = @ \cup {o}]
    BY <1>3 DEF Settle, Answered, CallFails, Unauthorized, LoginRejected, LoginAccepted
<1> QED
    BY <1>1, <1>2, <1>3 DEF Next, vars, RefreshSettles, RefreshSucceeds, RefreshFails, Logout,
       SelectOrg, Load, PageCalls, Login, Expire

LEMMA SameQuiet ==
    ASSUME TypeInv, NEW t \in Tabs, Same(t), Quiet(t),
           \A u \in Users : memberOf[u] \subseteq memberOf'[u]
    PROVE  Quiet(t)'
<1>1. \A c : c \in CallsOf(t)' <=> c \in CallsOf(t)
    BY WhoWaits, WhoWaitsThen DEF Same
<1>2. CallsOf(t)' = CallsOf(t)
    BY <1>1
<1>3. \A c \in CallsOf(t) : call'[c] = call[c]
    BY WhoWaits DEF Same
<1>4. memory[t] # None => memory[t].user \in Users
    BY RestTyped DEF Rest, Token
<1>5. OfOneUser(t)'
    BY <1>2, <1>3 DEF Same, Quiet, OfOneUser, Signing
<1>6. status'[t] = "authenticated" => WhenAuthenticated(t)'
    BY <1>2, <1>3, <1>4 DEF Same, Quiet, WhenAuthenticated, Signing
<1>7. /\ status'[t] = "closed" => WhenClosed(t)'
      /\ status'[t] = "loading" => WhenLoading(t)'
      /\ status'[t] = "unauthenticated" => WhenUnauthenticated(t)'
    BY <1>2, <1>3 DEF Same, Quiet, WhenClosed, WhenLoading, WhenUnauthenticated, Signing
<1> QED
    BY <1>5, <1>6, <1>7 DEF Quiet

\* A call of a tab ends.
LEMMA OneEnds ==
    ASSUME TypeInv, NEW t \in Tabs, NEW c \in Calls, call[c].tab = t,
           NEW step \in {"ok", "failed"}, End(c, step)
    PROVE  /\ CallsOf(t)' = CallsOf(t) \ {c}
           /\ \A d \in CallsOf(t) \ {c} : call'[d] = call[d]
           /\ \A u : u # t => \A d \in Calls : call[d].tab = u \/ call'[d].tab = u =>
                 u \notin Tabs \/ call'[d] = call[d]
<1>1. \A d \in Calls : call'[d] = IF d = c THEN NoCall(step) ELSE call[d]
    BY RestTyped DEF End
<1>2. \A d : d \in CallsOf(t)' <=> d \in CallsOf(t) \ {c}
    BY <1>1, NobodyFits, WhoWaits, WhoWaitsThen
<1> QED
    BY <1>1, <1>2, NobodyFits, WhoWaits

LEMMA AnsweredQuiet ==
    ASSUME TypeInv, NEW c \in Calls, Answered(c), NEW t \in Tabs, call[c].tab = t, Quiet(t)
    PROVE  Quiet(t)'
<1> DEFINE u == call[c].token.user
<1>1. /\ call[c].step \in {"sent", "resent"} /\ End(c, "ok") /\ call[c].live
      /\ UNCHANGED <<memory, refreshing>>
    BY DEF Answered, tokenVars
<1>2. /\ CallsOf(t)' = CallsOf(t) \ {c}
      /\ \A d \in CallsOf(t) \ {c} : call'[d] = call[d]
    BY <1>1, OneEnds
<1>3. c \in CallsOf(t) /\ ~Signing(c)
    BY <1>1, WhoWaits DEF InFlight, Signing
<1>4. OfOneUser(t)'
    BY <1>1, <1>2 DEF Quiet, OfOneUser, Signing
<1>5. /\ Rest
      /\ memory[t] # None => u = memory[t].user /\ memory[t].user \in Users
      /\ status[t] \in {"closed", "loading", "authenticated", "unauthenticated"}
    <2>1. call[c].token # None
        BY <1>1, RestTyped DEF Fits
    <2> QED
        BY <1>3, <2>1, RestTyped DEF Rest, Token, Quiet, OfOneUser, UserOf
<1>6. status[t] # "closed"
    BY <1>3 DEF Quiet, WhenClosed
<1>7. CASE call[c].kind = "page"
    <2>1. UNCHANGED <<memberOf, providerVars>>
        BY <1>7 DEF Answered
    <2>2. status[t] # "loading"
        BY <1>3, <1>7 DEF Quiet, WhenLoading
    <2>3. status[t] = "authenticated" => WhenAuthenticated(t)'
        BY <1>1, <1>2, <2>1 DEF Quiet, WhenAuthenticated, Signing, providerVars
    <2>4. status[t] = "unauthenticated" => WhenUnauthenticated(t)'
        BY <1>1, <1>2, <1>3, <2>1 DEF Quiet, WhenUnauthenticated, Signing, providerVars
    <2> QED
        BY <1>4, <1>5, <1>6, <2>1, <2>2, <2>3, <2>4 DEF Quiet, providerVars
<1>8. CASE call[c].kind \in {"hydrate", "login"}
    <2>1. /\ LoadOrganizations(t, memberOf[u]) /\ UNCHANGED memberOf
          /\ status' = [status EXCEPT ![t] = "authenticated"]
        BY <1>8 DEF Answered
    <2>2. memory[t] # None /\ current[t] = None /\ \A d \in CallsOf(t) \ {c} : Signing(d)
        BY <1>3, <1>5, <1>6, <1>8
        DEF Quiet, WhenLoading, WhenAuthenticated, WhenUnauthenticated
    <2>3. /\ shown'[t] = memberOf[memory[t].user]
          /\ current'[t] \in shown'[t] \cup {None} /\ status'[t] = "authenticated"
        BY <1>5, <2>1, <2>2 DEF LoadOrganizations, Rest
    <2>4. WhenAuthenticated(t)'
        BY <1>1, <1>2, <2>1, <2>2, <2>3 DEF WhenAuthenticated, Signing
    <2> QED
        BY <1>4, <2>3, <2>4 DEF Quiet
<1>9. CASE call[c].kind = "createOrg"
    <2>1. PICK o : /\ memberOf' = [memberOf EXCEPT ![u] = @ \cup {o}]
                   /\ shown' = [shown EXCEPT ![t] = @ \cup {o}]
                   /\ current' = [current EXCEPT ![t] = o] /\ UNCHANGED status
        BY <1>9 DEF Answered
    <2>2. status[t] # "loading"
        BY <1>3, <1>9 DEF Quiet, WhenLoading
    <2>3. CASE status[t] = "authenticated"
        <3>1. memory[t] # None /\ u = memory[t].user /\ u \in Users
              /\ shown[t] \subseteq memberOf[u]
            BY <1>5, <2>3 DEF Quiet, WhenAuthenticated
        <3>2. shown'[t] \subseteq memberOf'[u] /\ current'[t] \in shown'[t]
            BY <1>5, <2>1, <3>1 DEF Rest
        <3>3. memory'[t].user = u
            BY <1>1, <3>1
        <3> HIDE DEF u
        <3>4. WhenAuthenticated(t)'
            BY <1>1, <1>2, <2>3, <3>1, <3>2, <3>3 DEF Quiet, WhenAuthenticated, Signing
        <3> QED
            BY <1>4, <2>1, <2>3, <3>4 DEF Quiet
    <2>4. CASE status[t] = "unauthenticated"
        <3>1. \A d \in CallsOf(t) :
                 \/ Signing(d)
                 \/ memory[t] = None /\ call[d].kind \in {"page", "createOrg"}
            BY <1>3, <1>9, <2>4 DEF Quiet, WhenUnauthenticated
        <3>2. WhenUnauthenticated(t)'
            BY <1>1, <1>2, <3>1 DEF WhenUnauthenticated, Signing
        <3> QED
            BY <1>4, <2>1, <2>4, <3>2 DEF Quiet
    <2> QED
        BY <1>5, <1>6, <2>2, <2>3, <2>4
<1> QED
    BY <1>7, <1>8, <1>9 DEF Answered

\* A call ends and the tab is as it was, or has lost its tokens.
LEMMA FewerCallsQuiet ==
    ASSUME TypeInv, NEW t \in Tabs, Quiet(t), CallsOf(t)' \subseteq CallsOf(t),
           \A d \in CallsOf(t)' : call'[d] = call[d],
           UNCHANGED <<memory, refreshing, status, shown, current>>,
           \A u \in Users : memberOf[u] \subseteq memberOf'[u]
    PROVE  Quiet(t)'
<1>1. memory[t] # None => memory[t].user \in Users
    BY RestTyped DEF Rest, Token
<1>2. OfOneUser(t)'
    BY DEF Quiet, OfOneUser, Signing
<1>3. /\ status[t] = "closed" => WhenClosed(t)'
      /\ status[t] = "loading" => WhenLoading(t)'
      /\ status[t] = "authenticated" => WhenAuthenticated(t)'
    BY <1>1 DEF Quiet, WhenClosed, WhenLoading, WhenAuthenticated, Signing
<1>4. status[t] = "unauthenticated" => WhenUnauthenticated(t)'
    BY DEF Quiet, WhenUnauthenticated, Signing
<1> QED
    BY <1>2, <1>3, <1>4 DEF Quiet

LEMMA ClearedQuiet ==
    ASSUME TypeInv', NEW t \in Tabs, OfOneUser(t), CallsOf(t)' \subseteq CallsOf(t),
           \A d \in CallsOf(t)' : call'[d] = call[d],
           \A d \in CallsOf(t)' : Signing(d) \/ call[d].kind \in {"page", "createOrg"},
           memory'[t] = None, refreshing'[t] = None, status'[t] = "unauthenticated"
    PROVE  Quiet(t)'
<1>1. OfOneUser(t)'
    BY DEF OfOneUser, Signing
<1>2. WhenUnauthenticated(t)'
    BY DEF WhenUnauthenticated, Signing
<1> QED
    BY <1>1, <1>2 DEF Quiet

LEMMA CallFailsQuiet ==
    ASSUME TypeInv, NEW c \in Calls, CallFails(c), NEW t \in Tabs, call[c].tab = t, Quiet(t),
           \A u \in Users : memberOf[u] \subseteq memberOf'[u]
    PROVE  Quiet(t)'
<1>1. call[c].step \in {"sent", "resent"} /\ End(c, "failed")
      /\ UNCHANGED <<refreshing, shown, current>>
    BY DEF CallFails
<1>2. /\ CallsOf(t)' = CallsOf(t) \ {c}
      /\ \A d \in CallsOf(t) \ {c} : call'[d] = call[d]
    BY <1>1, OneEnds
<1>3. c \in CallsOf(t) /\ ~Signing(c)
    BY <1>1, WhoWaits DEF InFlight, Signing
<1>4. CASE call[c].kind # "hydrate"
    <2>1. UNCHANGED <<memory, status>>
        BY <1>4 DEF CallFails, tokenVars
    <2> QED
        BY <1>1, <1>2, <2>1, FewerCallsQuiet
<1>5. CASE call[c].kind = "hydrate"
    <2>1. /\ ClearTokens(t) /\ status' = [status EXCEPT ![t] = "unauthenticated"]
        BY <1>5 DEF CallFails
    <2>2. Rest
        BY RestTyped
    <2>3. memory'[t] = None /\ status'[t] = "unauthenticated"
        BY <2>1, <2>2, SetTyped DEF ClearTokens, Rest
    <2>4. status[t] = "loading"
        BY <1>3, <1>5, <2>2 DEF Quiet, WhenClosed, WhenAuthenticated, WhenUnauthenticated, Rest
    <2>5. \A d \in CallsOf(t) \ {c} : Signing(d)
        BY <1>3, <2>4 DEF Quiet, WhenLoading
    <2>6. refreshing[t] = None
        <3>1. Waiters(t) = {}
            BY <1>1, <2>5, WhoWaits DEF Signing, InFlight
        <3> QED
            BY <3>1, RestTyped DEF Awaited
    <2>7. TypeInv'
        BY CallFailsTyped
    <2> QED
        BY <1>1, <1>2, <2>3, <2>5, <2>6, <2>7, ClearedQuiet DEF Quiet
<1> QED
    BY <1>4, <1>5

\* A call that joins a refresh is the call it was.
LEMMA JoinsRefresh ==
    ASSUME TypeInv, NEW c \in Calls, NEW t \in Tabs, call[c].tab = t,
           call[c].step = "sent", call' = [call EXCEPT ![c].step = "waiting"]
    PROVE  /\ CallsOf(t)' = CallsOf(t)
           /\ \A d \in CallsOf(t) : /\ call'[d].kind = call[d].kind
                                    /\ call'[d].by = call[d].by
                                    /\ call'[d].token = call[d].token
                                    /\ call'[d].step = "signin" <=> call[d].step = "signin"
<1> DEFINE r == [call[c] EXCEPT !.step = "waiting"]
<1>1. /\ r.step = "waiting" /\ r.tab = call[c].tab /\ r.kind = call[c].kind
      /\ r.token = call[c].token /\ r.by = call[c].by
    BY RestTyped DEF Fits, CallRecord
<1>2. call' = [call EXCEPT ![c] = r]
    OBVIOUS
<1> HIDE DEF r
<1>3. \A d \in Calls : call'[d] = IF d = c THEN r ELSE call[d]
    BY <1>2, RestTyped
<1>4. c \in CallsOf(t)
    BY WhoWaits DEF InFlight
<1>5. \A d : d \in CallsOf(t)' <=> d \in CallsOf(t)
    BY <1>1, <1>3, <1>4, WhoWaits, WhoWaitsThen DEF InFlight
<1>6. CallsOf(t)' = CallsOf(t)
    BY <1>5
<1> QED
    BY <1>1, <1>3, <1>6, WhoWaits

LEMMA UnauthorizedQuiet ==
    ASSUME TypeInv, NEW c \in Calls, Unauthorized(c), NEW t \in Tabs, call[c].tab = t, Quiet(t)
    PROVE  Quiet(t)'
<1>1. call[c].step = "sent" /\ UNCHANGED memberOf
    BY DEF Unauthorized
<1>2. c \in CallsOf(t) /\ ~Signing(c) /\ Rest
    BY <1>1, WhoWaits, RestTyped DEF InFlight, Signing
<1>3. CASE memory[t] = None
    <2>1. ClearTokens(t) /\ SignedOut(t) /\ End(c, "failed") /\ UNCHANGED refreshing
        BY <1>3 DEF Unauthorized
    <2>2. /\ CallsOf(t)' = CallsOf(t) \ {c}
          /\ \A d \in CallsOf(t) \ {c} : call'[d] = call[d]
        BY <2>1, OneEnds
    <2>3. memory'[t] = None /\ status'[t] = "unauthenticated" /\ refreshing'[t] = None
        BY <1>2, <1>3, <2>1, SetTyped, SignedOutTyped DEF ClearTokens, Quiet, OfOneUser
    <2>4. \A d \in CallsOf(t) : Signing(d) \/ call[d].kind \in {"page", "createOrg"}
        BY <1>2, <1>3 DEF Quiet, WhenClosed, WhenLoading, WhenAuthenticated,
                          WhenUnauthenticated, Rest
    <2>5. TypeInv'
        BY UnauthorizedTyped
    <2> QED
        BY <2>2, <2>3, <2>4, <2>5, ClearedQuiet DEF Quiet
<1>4. CASE memory[t] # None
    <2>1. /\ call' = [call EXCEPT ![c].step = "waiting"]
          /\ UNCHANGED <<tokenVars, providerVars>>
          /\ refreshing' = [refreshing EXCEPT ![t] = IF @ = None THEN memory[t] ELSE @]
        BY <1>4 DEF Unauthorized
    <2>2. /\ CallsOf(t)' = CallsOf(t)
          /\ \A d \in CallsOf(t) : /\ call'[d].kind = call[d].kind
                                   /\ call'[d].by = call[d].by
                                   /\ call'[d].token = call[d].token
                                   /\ call'[d].step = "signin" <=> call[d].step = "signin"
        BY <1>1, <2>1, JoinsRefresh
    <2>3. refreshing'[t] = IF refreshing[t] = None THEN memory[t] ELSE refreshing[t]
        BY <1>2, <2>1 DEF Rest
    <2>4. OfOneUser(t)'
        BY <1>4, <2>1, <2>2, <2>3 DEF Quiet, OfOneUser, Signing, tokenVars
    <2>5. /\ status[t] = "closed" => WhenClosed(t)'
          /\ status[t] = "loading" => WhenLoading(t)'
          /\ status[t] = "authenticated" => WhenAuthenticated(t)'
          /\ status[t] = "unauthenticated" => WhenUnauthenticated(t)'
        BY <1>1, <2>1, <2>2 DEF Quiet, WhenClosed, WhenLoading, WhenAuthenticated,
           WhenUnauthenticated, Signing, tokenVars, providerVars
    <2> QED
        BY <2>1, <2>4, <2>5 DEF Quiet, providerVars
<1> QED
    BY <1>3, <1>4

\* A refresh is in flight: whose it is and who waits.
LEMMA RefreshingTab ==
    ASSUME TypeInv, NEW t \in Tabs, Quiet(t), refreshing[t] # None
    PROVE  /\ memory[t] # None /\ refreshing[t].user = memory[t].user
           /\ \E w \in CallsOf(t) : w \in Waiters(t) /\ ~Signing(w)
           /\ \A w \in Waiters(t) : w \in CallsOf(t) /\ ~Signing(w)
           /\ status[t] \in {"loading", "authenticated", "unauthenticated"}
<1>1. PICK w : w \in Waiters(t)
    BY RestTyped DEF Awaited
<1>2. \A d \in Waiters(t) : d \in CallsOf(t) /\ ~Signing(d)
    BY WhoWaits DEF Waiters, Signing
<1>3. status[t] \in {"loading", "authenticated", "unauthenticated"}
    BY <1>1, <1>2, RestTyped DEF Rest, Quiet, WhenClosed
<1> QED
    BY <1>1, <1>2, <1>3 DEF Quiet, OfOneUser

\* Every call that waited is repeated for the user it was made by.
LEMMA RepeatedCalls ==
    ASSUME TypeInv, NEW t \in Tabs, RefreshSucceeds(t), OfOneUser(t)
    PROVE  /\ memory[t] # None /\ memory'[t] # None /\ memory'[t].user = memory[t].user
           /\ CallsOf(t)' = CallsOf(t) /\ OfOneUser(t)'
           /\ \A d \in CallsOf(t) : /\ call'[d].kind = call[d].kind
                                    /\ call'[d].step = "signin" <=> call[d].step = "signin"
<1> DEFINE pair == [user |-> refreshing[t].user, gen |-> clock]
<1>1. /\ refreshing[t] # None /\ SetTokens(t, pair)
      /\ refreshing' = [refreshing EXCEPT ![t] = None]
      /\ call' = [d \in Calls |-> IF d \in Waiters(t) THEN Again(d, pair) ELSE call[d]]
    BY DEF RefreshSucceeds, Again
<1>2. Rest /\ refreshing[t].user \in Users
    BY <1>1, RestTyped DEF Rest, Token
<1>3. pair \in Token /\ pair # None /\ pair.user = memory[t].user /\ memory[t] # None
    BY <1>1, <1>2, PairTyped DEF OfOneUser
<1> HIDE DEF pair
<1>4. memory'[t] = pair /\ refreshing'[t] = None
    BY <1>1, <1>2, <1>3, SetTyped DEF Rest
<1>5. \A d \in CallsOf(t) :
         /\ call'[d].kind = call[d].kind /\ call'[d].by = call[d].by
         /\ call'[d].tab = call[d].tab /\ call'[d].step \in InFlight
         /\ call'[d].token = (IF d \in Waiters(t) THEN pair ELSE call[d].token)
         /\ call'[d].step = "signin" <=> call[d].step = "signin"
    BY <1>1, <1>3, AgainFits, WhoWaits DEF InFlight
<1>6. \A d : d \in CallsOf(t)' <=> d \in CallsOf(t)
    BY <1>1, <1>5, WhoWaits, WhoWaitsThen DEF InFlight
<1>7. CallsOf(t)' = CallsOf(t)
    BY <1>6
<1>8. OfOneUser(t)'
    BY <1>3, <1>4, <1>5, <1>7 DEF OfOneUser, Signing, UserOf
<1> QED
    BY <1>3, <1>4, <1>5, <1>7, <1>8

LEMMA RefreshSucceedsQuiet ==
    ASSUME TypeInv, NEW t \in Tabs, RefreshSucceeds(t), Quiet(t)
    PROVE  Quiet(t)'
<1>1. UNCHANGED <<memberOf, status, shown, current>>
    BY DEF RefreshSucceeds, providerVars
<1>2. /\ memory[t] # None /\ memory'[t] # None /\ memory'[t].user = memory[t].user
      /\ CallsOf(t)' = CallsOf(t) /\ OfOneUser(t)'
      /\ \A d \in CallsOf(t) : /\ call'[d].kind = call[d].kind
                               /\ call'[d].step = "signin" <=> call[d].step = "signin"
    BY RepeatedCalls DEF Quiet
<1>3. /\ status[t] = "closed" => WhenClosed(t)'
      /\ status[t] = "loading" => WhenLoading(t)'
      /\ status[t] = "authenticated" => WhenAuthenticated(t)'
      /\ status[t] = "unauthenticated" => WhenUnauthenticated(t)'
    BY <1>1, <1>2 DEF Quiet, WhenClosed, WhenLoading, WhenAuthenticated,
       WhenUnauthenticated, Signing
<1> QED
    BY <1>1, <1>2, <1>3 DEF Quiet

\* A refresh fails: the tab is signed out, and the calls that waited are gone.
LEMMA DroppedCalls ==
    ASSUME TypeInv, NEW t \in Tabs, RefreshFails(t)
    PROVE  /\ memory'[t] = None /\ refreshing'[t] = None /\ status'[t] = "unauthenticated"
           /\ \A d \in CallsOf(t)' : d \in CallsOf(t) /\ d \notin Waiters(t)
                                     /\ call'[d] = call[d]
<1>1. /\ ClearTokens(t) /\ SignedOut(t)
      /\ refreshing' = [refreshing EXCEPT ![t] = None]
      /\ call' = [d \in Calls |-> IF d \in Waiters(t) THEN NoCall("failed") ELSE call[d]]
    BY DEF RefreshFails
<1>2. Rest
    BY RestTyped
<1>3. memory'[t] = None /\ refreshing'[t] = None /\ status'[t] = "unauthenticated"
    BY <1>1, <1>2, SetTyped, SignedOutTyped DEF ClearTokens, Rest
<1>4. ASSUME NEW d \in Calls, call'[d].tab = t, call'[d].step \in InFlight
      PROVE  d \in CallsOf(t) /\ d \notin Waiters(t) /\ call'[d] = call[d]
    <2>1. NoCall("failed").tab # t
        BY NobodyFits
    <2>2. d \notin Waiters(t) /\ call'[d] = call[d]
        BY <1>1, <1>4, <2>1
    <2> QED
        BY <1>4, <2>2, WhoWaits
<1> QED
    BY <1>3, <1>4, WhoWaitsThen

LEMMA RefreshFailsQuiet ==
    ASSUME TypeInv, NEW t \in Tabs, RefreshFails(t), Quiet(t)
    PROVE  Quiet(t)'
<1>1. refreshing[t] # None /\ TypeInv'
    BY RefreshTyped DEF RefreshFails
<1>2. ASSUME NEW d \in CallsOf(t), d \notin Waiters(t)
      PROVE  Signing(d) \/ call[d].kind \in {"page", "createOrg"}
    <2>1. PICK w \in CallsOf(t) : w \in Waiters(t) /\ ~Signing(w)
        BY <1>1, RefreshingTab
    <2> QED
        BY <1>1, <1>2, <2>1, RefreshingTab
        DEF Quiet, WhenLoading, WhenAuthenticated, WhenUnauthenticated
<1> QED
    BY <1>1, <1>2, DroppedCalls, ClearedQuiet DEF Quiet

LEMMA LoadQuiet ==
    ASSUME TypeInv, NEW t \in Tabs, NEW c \in Calls, Load(t, c)
    PROVE  Quiet(t)'
<1> DEFINE sent == Sent(t, "hydrate", storage.user, storage)
<1>1. /\ memory' = [memory EXCEPT ![t] = storage]
      /\ refreshing' = [refreshing EXCEPT ![t] = None]
      /\ status' = [status EXCEPT ![t] =
                       IF storage = None THEN "unauthenticated" ELSE "loading"]
      /\ current' = [current EXCEPT ![t] = None]
    BY DEF Load
<1>2. \A d \in Calls : call'[d] = IF d = c /\ storage # None THEN sent
                                 ELSE IF d \in CallsOf(t) THEN NoCall("failed") ELSE call[d]
    BY LoadTyped
<1>3. Rest
    BY RestTyped
<1>4. /\ memory'[t] = storage /\ refreshing'[t] = None /\ current'[t] = None
      /\ status'[t] = IF storage = None THEN "unauthenticated" ELSE "loading"
    BY <1>1, <1>3 DEF Rest
<1>5. storage # None => /\ sent.kind = "hydrate" /\ sent.by = storage.user
                        /\ sent.token = storage
    BY DEF Sent
<1> HIDE DEF sent
<1>6. ASSUME NEW d \in CallsOf(t)' PROVE d = c /\ storage # None /\ call'[d] = sent
    <2>1. d \in Calls /\ call'[d].tab = t /\ call'[d].step \in InFlight
        BY WhoWaitsThen
    <2>2. NoCall("failed").tab # t
        BY NobodyFits
    <2>3. d \notin CallsOf(t) => ~(call[d].tab = t /\ call[d].step \in InFlight)
        BY <2>1, WhoWaits
    <2> QED
        BY <1>2, <2>1, <2>2, <2>3
<1>7. OfOneUser(t)'
    BY <1>4, <1>5, <1>6 DEF OfOneUser, UserOf
<1>8. /\ storage # None => WhenLoading(t)'
      /\ storage = None => WhenUnauthenticated(t)'
    BY <1>4, <1>5, <1>6 DEF WhenLoading, WhenUnauthenticated
<1> QED
    BY <1>4, <1>7, <1>8 DEF Quiet

\* A call is made in a tab.
LEMMA OneMade ==
    ASSUME TypeInv, NEW t \in Tabs, NEW c \in Calls, NEW r, Place(c, r), r.tab = t,
           r.step \in InFlight
    PROVE  /\ c \notin CallsOf(t) /\ CallsOf(t)' = CallsOf(t) \cup {c} /\ call'[c] = r
           /\ \A d \in CallsOf(t) : call'[d] = call[d]
<1>1. call[c].step = "idle" /\ \A d \in Calls : call'[d] = IF d = c THEN r ELSE call[d]
    BY RestTyped DEF Place, Unused
<1>2. c \notin CallsOf(t)
    BY <1>1, WhoWaits DEF InFlight
<1>3. \A d : d \in CallsOf(t)' <=> d \in CallsOf(t) \cup {c}
    BY <1>1, WhoWaits, WhoWaitsThen
<1> QED
    BY <1>1, <1>2, <1>3, WhoWaits

LEMMA PageCallsQuiet ==
    ASSUME TypeInv, NEW t \in Tabs, NEW c \in Calls, NEW kind \in Kind,
           PageCalls(t, c, kind), Quiet(t)
    PROVE  Quiet(t)'
<1> DEFINE r == Sent(t, kind, UserOf(memory[t]), memory[t])
<1>1. /\ status[t] = "authenticated" /\ kind \in {"page", "createOrg"} /\ Place(c, r)
      /\ UNCHANGED <<memberOf, memory, refreshing, status, shown, current>>
    BY DEF PageCalls, GetAccessToken, tokenVars, providerVars
<1>2. WhenAuthenticated(t) /\ OfOneUser(t) /\ memory[t] # None
    BY <1>1 DEF Quiet, WhenAuthenticated
<1>3. /\ r.tab = t /\ r.step = "sent" /\ r.kind = kind /\ r.token = memory[t]
      /\ r.by = memory[t].user
    BY <1>2 DEF Sent, UserOf
<1> HIDE DEF r
<1>4. /\ CallsOf(t)' = CallsOf(t) \cup {c} /\ call'[c] = r
      /\ \A d \in CallsOf(t) : call'[d] = call[d]
    BY <1>1, <1>3, OneMade DEF InFlight
<1>5. OfOneUser(t)'
    BY <1>1, <1>2, <1>3, <1>4 DEF OfOneUser, Signing, UserOf
<1>6. WhenAuthenticated(t)'
    BY <1>1, <1>2, <1>3, <1>4 DEF WhenAuthenticated, Signing
<1> QED
    BY <1>1, <1>5, <1>6 DEF Quiet

LEMMA LoginQuiet ==
    ASSUME TypeInv, NEW t \in Tabs, NEW c \in Calls, NEW u \in Users, Login(t, c, u), Quiet(t)
    PROVE  Quiet(t)'
<1> DEFINE r == [tab |-> t, kind |-> "login", by |-> u, step |-> "signin",
                 token |-> None, live |-> FALSE]
<1>1. /\ status[t] # "closed" /\ \A d \in CallsOf(t) : call[d].kind # "login"
      /\ Place(c, r) /\ UNCHANGED <<memberOf, memory, refreshing, status, shown, current>>
    BY DEF Login, tokenVars, providerVars
<1>2. r.tab = t /\ r.step = "signin"
    OBVIOUS
<1> HIDE DEF r
<1>3. /\ CallsOf(t)' = CallsOf(t) \cup {c} /\ call'[c] = r
      /\ \A d \in CallsOf(t) : call'[d] = call[d]
    BY <1>1, <1>2, OneMade DEF InFlight
<1>4. OfOneUser(t)'
    BY <1>1, <1>2, <1>3 DEF Quiet, OfOneUser, Signing
<1>5. /\ status[t] = "loading" => WhenLoading(t)'
      /\ status[t] = "authenticated" => WhenAuthenticated(t)'
      /\ status[t] = "unauthenticated" => WhenUnauthenticated(t)'
    BY <1>1, <1>2, <1>3 DEF Quiet, WhenLoading, WhenAuthenticated, WhenUnauthenticated,
       Signing
<1> QED
    BY <1>1, <1>4, <1>5 DEF Quiet

\* A sign-in with nothing else in flight makes the tab quiet, or takes over its
\* session.
LEMMA LoginAcceptedQuiet ==
    ASSUME TypeInv, NEW c \in Calls, LoginAccepted(c), NEW t \in Tabs, call[c].tab = t,
           ~overlap'[t]
    PROVE  Sound(t)'
<1>0. Rest /\ call[c].step = "signin"
    BY RestTyped DEF LoginAccepted
<1>1. /\ SetTokens(t, [user |-> call[c].by, gen |-> clock])
      /\ current' = [current EXCEPT ![t] = None] /\ UNCHANGED <<refreshing, status>>
      /\ overlap' = [overlap EXCEPT ![t] = CallsOf(t) # {c}]
      /\ takeover' = [takeover EXCEPT ![t] = status[t] # "unauthenticated"]
    BY DEF LoginAccepted
<1>2. CallsOf(t) = {c} /\ (takeover'[t] <=> status[t] # "unauthenticated")
    BY <1>0, <1>1 DEF Rest
<1>3. refreshing[t] = None
    <2>1. Waiters(t) = {}
        BY <1>0, <1>2, WhoWaits DEF InFlight
    <2> QED
        BY <2>1, RestTyped DEF Awaited
<1>4. /\ call[c].by \in Users /\ call'[c].step = "sent" /\ call'[c].tab = t
      /\ call'[c].kind = "login" /\ call'[c].by = call[c].by
      /\ call'[c].token = [user |-> call[c].by, gen |-> clock]
      /\ \A d \in Calls : d # c => call'[d] = call[d]
    BY LoginAcceptedTyped
<1>5. /\ memory'[t] = [user |-> call[c].by, gen |-> clock] /\ memory'[t] # None
      /\ memory'[t].user = call[c].by /\ current'[t] = None
    BY <1>0, <1>1, <1>4, SetTyped, PairTyped DEF Rest
<1>6. CallsOf(t)' = {c}
    <2>1. \A d : d \in CallsOf(t)' <=> d = c
        BY <1>2, <1>4, WhoWaits, WhoWaitsThen DEF InFlight
    <2> QED
        BY <2>1
<1>7. OfOneUser(t)'
    BY <1>1, <1>3, <1>4, <1>5, <1>6 DEF OfOneUser, UserOf
<1>8. CASE status[t] = "unauthenticated"
    <2>1. WhenUnauthenticated(t)'
        BY <1>4, <1>5, <1>6 DEF WhenUnauthenticated
    <2> QED
        BY <1>1, <1>2, <1>7, <1>8, <2>1 DEF Sound, Quiet
<1>9. CASE status[t] # "unauthenticated"
    <2>1. WhenTakenOver(t)'
        BY <1>4, <1>5, <1>6 DEF WhenTakenOver
    <2> QED
        BY <1>2, <1>7, <1>9, <2>1 DEF Sound, TakenOver
<1> QED
    BY <1>8, <1>9

LEMMA LogoutQuiet ==
    ASSUME TypeInv, NEW t \in Tabs, Logout(t), ~overlap'[t]
    PROVE  Sound(t)'
<1>0. Rest
    BY RestTyped
<1>1. /\ ClearTokens(t) /\ SignedOut(t) /\ UNCHANGED <<refreshing, call>>
      /\ overlap' = [overlap EXCEPT ![t] = CallsOf(t) # {}]
      /\ takeover' = [takeover EXCEPT ![t] = FALSE]
    BY DEF Logout
<1>2. CallsOf(t) = {} /\ CallsOf(t)' = {} /\ ~takeover'[t]
    BY <1>0, <1>1 DEF Rest, CallsOf
<1>3. refreshing'[t] = None /\ status'[t] = "unauthenticated"
    <2>1. Waiters(t) = {}
        BY <1>2 DEF Waiters
    <2> QED
        BY <1>0, <1>1, <2>1, RestTyped, SignedOutTyped DEF Awaited
<1> QED
    BY <1>2, <1>3 DEF Sound, Quiet, OfOneUser, WhenUnauthenticated

LEMMA SelectOrgQuiet ==
    ASSUME TypeInv, NEW t \in Tabs, NEW o \in Orgs, SelectOrg(t, o), Quiet(t)
    PROVE  Quiet(t)'
<1>1. /\ status[t] = "authenticated" /\ o \in shown[t]
      /\ current' = [current EXCEPT ![t] = o]
      /\ UNCHANGED <<memberOf, memory, refreshing, call, status, shown>>
    BY DEF SelectOrg, tokenVars
<1>2. CallsOf(t)' = CallsOf(t) /\ current'[t] = o
    BY <1>1, RestTyped DEF CallsOf, Rest
<1>3. OfOneUser(t)'
    BY <1>1, <1>2 DEF Quiet, OfOneUser, Signing
<1>4. WhenAuthenticated(t)'
    BY <1>1, <1>2 DEF Quiet, WhenAuthenticated, Signing
<1> QED
    BY <1>1, <1>3, <1>4 DEF Quiet

-----------------------------------------------------------------------------
(* Tabs whose session was taken over.                                      *)

LEMMA FewerCallsTakenOver ==
    ASSUME NEW t \in Tabs, TakenOver(t), CallsOf(t)' \subseteq CallsOf(t),
           \A d \in CallsOf(t)' : call'[d] = call[d],
           memory'[t] = memory[t], refreshing'[t] = refreshing[t], status'[t] = status[t]
    PROVE  TakenOver(t)'
<1>1. OfOneUser(t)'
    BY DEF TakenOver, OfOneUser, Signing
<1>2. WhenTakenOver(t)'
    BY DEF TakenOver, WhenTakenOver, Signing
<1> QED
    BY <1>1, <1>2 DEF TakenOver

LEMMA ClearedTakenOver ==
    ASSUME NEW t \in Tabs, TakenOver(t), CallsOf(t)' \subseteq CallsOf(t),
           \A d \in CallsOf(t)' : call'[d] = call[d],
           memory'[t] = None, refreshing'[t] = None, status'[t] = "unauthenticated"
    PROVE  TakenOver(t)'
<1>1. OfOneUser(t)'
    BY DEF TakenOver, OfOneUser, Signing
<1>2. WhenTakenOver(t)'
    BY DEF TakenOver, WhenTakenOver
<1> QED
    BY <1>1, <1>2 DEF TakenOver

LEMMA SameTakenOver ==
    ASSUME TypeInv, NEW t \in Tabs, Same(t), TakenOver(t)
    PROVE  TakenOver(t)'
<1>1. CallsOf(t)' \subseteq CallsOf(t) /\ \A d \in CallsOf(t)' : call'[d] = call[d]
    BY WhoWaits, WhoWaitsThen DEF Same
<1> QED
    BY <1>1, FewerCallsTakenOver DEF Same

\* The list makes the tab quiet again, unless the session it is for has ended or
\* the organization selected meanwhile is not on it.
LEMMA AnsweredTakenOver ==
    ASSUME TypeInv, NEW c \in Calls, Answered(c), NEW t \in Tabs, call[c].tab = t,
           takeover[t], TakenOver(t)
    PROVE  Sound(t)'
<1> DEFINE u == call[c].token.user
<1>0. Rest
    BY RestTyped
<1>1. /\ call[c].step \in {"sent", "resent"} /\ End(c, "ok") /\ call[c].live
      /\ UNCHANGED <<memory, refreshing>>
    BY DEF Answered, tokenVars
<1>2. /\ CallsOf(t)' = CallsOf(t) \ {c}
      /\ \A d \in CallsOf(t) \ {c} : call'[d] = call[d]
    BY <1>1, OneEnds
<1>3. c \in CallsOf(t) /\ ~Signing(c)
    BY <1>1, WhoWaits DEF InFlight, Signing
<1>4. OfOneUser(t)'
    BY <1>1, <1>2 DEF TakenOver, OfOneUser, Signing
<1>5. CASE call[c].kind \in {"page", "createOrg"}
    <2>1. UNCHANGED <<status, takeover>>
        BY <1>5 DEF Answered, providerVars
    <2>2. TakenOver(t)'
        BY <1>1, <1>2, <2>1, FewerCallsTakenOver
    <2> QED
        BY <2>1, <2>2 DEF Sound
<1>6. CASE call[c].kind = "login"
    <2>1. /\ LoadOrganizations(t, memberOf[u]) /\ UNCHANGED memberOf
          /\ status' = [status EXCEPT ![t] = "authenticated"]
          /\ takeover' = [takeover EXCEPT ![t] =
                 @ /\ ~ (/\ status[t] = "authenticated"
                         /\ current[t] \in memberOf[u] \cup {None})]
        BY <1>6 DEF Answered
    <2>2. /\ status'[t] = "authenticated"
          /\ takeover'[t] <=> ~ (/\ status[t] = "authenticated"
                                 /\ current[t] \in memberOf[u] \cup {None})
        BY <1>0, <2>1 DEF Rest
    <2>3. \A d \in CallsOf(t) \ {c} : call[d].kind \in {"page", "createOrg"}
        BY <1>0, <1>3, <1>6, RestTyped
        DEF TakenOver, WhenTakenOver, CallsOf, CallRecord, Kind
    <2>4. CASE takeover'[t]
        <3>1. WhenTakenOver(t)'
            BY <1>2, <2>3 DEF WhenTakenOver
        <3> QED
            BY <1>4, <2>4, <3>1 DEF Sound, TakenOver
    <2>5. CASE ~takeover'[t]
        <3>1. status[t] = "authenticated" /\ current[t] \in memberOf[u] \cup {None}
            BY <2>2, <2>5
        <3>2. memory[t] # None
            BY <1>3, <1>6, <3>1 DEF TakenOver, WhenTakenOver
        <3>3. u = memory[t].user
            <4>1. call[c].token # None
                BY <1>1, RestTyped DEF Fits
            <4> QED
                BY <1>3, <3>2, <4>1 DEF TakenOver, OfOneUser, UserOf
        <3> HIDE DEF u
        <3>4. shown'[t] = memberOf[u] /\ current'[t] \in shown'[t] \cup {None}
            BY <1>0, <2>1, <3>1 DEF LoadOrganizations, Rest
        <3>5. WhenAuthenticated(t)'
            BY <1>1, <1>2, <2>1, <2>3, <3>2, <3>3, <3>4 DEF WhenAuthenticated
        <3> QED
            BY <1>4, <2>2, <2>5, <3>5 DEF Sound, Quiet
    <2> QED
        BY <2>4, <2>5
<1>7. call[c].kind # "hydrate"
    BY <1>3 DEF TakenOver, WhenTakenOver
<1> QED
    BY <1>5, <1>6, <1>7 DEF Answered

LEMMA CallFailsTakenOver ==
    ASSUME TypeInv, NEW c \in Calls, CallFails(c), NEW t \in Tabs, call[c].tab = t,
           TakenOver(t)
    PROVE  TakenOver(t)'
<1>1. call[c].step \in {"sent", "resent"} /\ End(c, "failed") /\ UNCHANGED refreshing
    BY DEF CallFails
<1>2. /\ CallsOf(t)' = CallsOf(t) \ {c}
      /\ \A d \in CallsOf(t) \ {c} : call'[d] = call[d]
    BY <1>1, OneEnds
<1>3. call[c].kind # "hydrate"
    BY <1>1, WhoWaits DEF InFlight, TakenOver, WhenTakenOver
<1>4. UNCHANGED <<memory, status>>
    BY <1>3 DEF CallFails, tokenVars
<1> QED
    BY <1>1, <1>2, <1>4, FewerCallsTakenOver

LEMMA UnauthorizedTakenOver ==
    ASSUME TypeInv, NEW c \in Calls, Unauthorized(c), NEW t \in Tabs, call[c].tab = t,
           TakenOver(t)
    PROVE  TakenOver(t)'
<1>1. Rest /\ call[c].step = "sent"
    BY RestTyped DEF Unauthorized
<1>2. CASE memory[t] = None
    <2>1. ClearTokens(t) /\ SignedOut(t) /\ End(c, "failed") /\ UNCHANGED refreshing
        BY <1>2 DEF Unauthorized
    <2>2. /\ CallsOf(t)' = CallsOf(t) \ {c}
          /\ \A d \in CallsOf(t) \ {c} : call'[d] = call[d]
        BY <2>1, OneEnds
    <2>3. memory'[t] = None /\ status'[t] = "unauthenticated" /\ refreshing'[t] = None
        BY <1>1, <1>2, <2>1, SetTyped, SignedOutTyped DEF ClearTokens, TakenOver, OfOneUser
    <2> QED
        BY <2>2, <2>3, ClearedTakenOver
<1>3. CASE memory[t] # None
    <2>1. /\ call' = [call EXCEPT ![c].step = "waiting"]
          /\ UNCHANGED <<memory, status>>
          /\ refreshing' = [refreshing EXCEPT ![t] = IF @ = None THEN memory[t] ELSE @]
        BY <1>3 DEF Unauthorized, tokenVars, providerVars
    <2>2. /\ CallsOf(t)' = CallsOf(t)
          /\ \A d \in CallsOf(t) : /\ call'[d].kind = call[d].kind
                                   /\ call'[d].by = call[d].by
                                   /\ call'[d].token = call[d].token
                                   /\ call'[d].step = "signin" <=> call[d].step = "signin"
        BY <1>1, <2>1, JoinsRefresh
    <2>3. refreshing'[t] = IF refreshing[t] = None THEN memory[t] ELSE refreshing[t]
        BY <1>1, <2>1 DEF Rest
    <2>4. OfOneUser(t)'
        BY <1>3, <2>1, <2>2, <2>3 DEF TakenOver, OfOneUser, Signing
    <2>5. WhenTakenOver(t)'
        BY <2>1, <2>2 DEF TakenOver, WhenTakenOver, Signing
    <2> QED
        BY <2>4, <2>5 DEF TakenOver
<1> QED
    BY <1>2, <1>3

LEMMA RefreshTakenOver ==
    ASSUME TypeInv, NEW t \in Tabs, RefreshSettles(t), TakenOver(t)
    PROVE  TakenOver(t)'
<1>1. CASE RefreshSucceeds(t)
    <2>1. UNCHANGED status
        BY <1>1 DEF RefreshSucceeds, providerVars
    <2>2. /\ memory'[t] # None /\ CallsOf(t)' = CallsOf(t) /\ OfOneUser(t)'
          /\ \A d \in CallsOf(t) : /\ call'[d].kind = call[d].kind
                                   /\ call'[d].step = "signin" <=> call[d].step = "signin"
        BY <1>1, RepeatedCalls DEF TakenOver
    <2>3. WhenTakenOver(t)'
        BY <2>1, <2>2 DEF TakenOver, WhenTakenOver, Signing
    <2> QED
        BY <2>2, <2>3 DEF TakenOver
<1>2. CASE RefreshFails(t)
    BY <1>2, DroppedCalls, ClearedTakenOver
<1> QED
    BY <1>1, <1>2 DEF RefreshSettles

LEMMA CallMadeTakenOver ==
    ASSUME TypeInv, NEW t \in Tabs, NEW c \in Calls, TakenOver(t),
           \/ \E kind \in Kind : PageCalls(t, c, kind)
           \/ \E u \in Users : Login(t, c, u)
    PROVE  TakenOver(t)'
<1>1. UNCHANGED <<memory, refreshing, status>>
    BY DEF PageCalls, Login, tokenVars, providerVars
<1>2. ASSUME NEW kind \in Kind, PageCalls(t, c, kind) PROVE TakenOver(t)'
    <2> DEFINE r == Sent(t, kind, UserOf(memory[t]), memory[t])
    <2>1. kind \in {"page", "createOrg"} /\ Place(c, r)
        BY <1>2 DEF PageCalls, GetAccessToken
    <2>2. /\ r.tab = t /\ r.step = "sent" /\ r.kind = kind /\ r.token = memory[t]
          /\ r.by = UserOf(memory[t])
        BY DEF Sent
    <2> HIDE DEF r
    <2>3. /\ CallsOf(t)' = CallsOf(t) \cup {c} /\ call'[c] = r
          /\ \A d \in CallsOf(t) : call'[d] = call[d]
        BY <2>1, <2>2, OneMade DEF InFlight
    <2>4. OfOneUser(t)'
        BY <1>1, <2>2, <2>3 DEF TakenOver, OfOneUser, Signing, UserOf
    <2>5. WhenTakenOver(t)'
        BY <1>1, <2>1, <2>2, <2>3 DEF TakenOver, WhenTakenOver, Signing
    <2> QED
        BY <2>4, <2>5 DEF TakenOver
<1>3. ASSUME NEW u \in Users, Login(t, c, u) PROVE TakenOver(t)'
    <2> DEFINE r == [tab |-> t, kind |-> "login", by |-> u, step |-> "signin",
                     token |-> None, live |-> FALSE]
    <2>1. Place(c, r) /\ \A d \in CallsOf(t) : call[d].kind # "login"
        BY <1>3 DEF Login
    <2>2. r.tab = t /\ r.step = "signin" /\ r.kind = "login"
        OBVIOUS
    <2> HIDE DEF r
    <2>3. /\ CallsOf(t)' = CallsOf(t) \cup {c} /\ call'[c] = r
          /\ \A d \in CallsOf(t) : call'[d] = call[d]
        BY <2>1, <2>2, OneMade DEF InFlight
    <2>4. OfOneUser(t)'
        BY <1>1, <2>2, <2>3 DEF TakenOver, OfOneUser, Signing
    <2>5. WhenTakenOver(t)'
        BY <1>1, <2>1, <2>2, <2>3 DEF TakenOver, WhenTakenOver, Signing
    <2> QED
        BY <2>4, <2>5 DEF TakenOver
<1> QED
    BY <1>2, <1>3

-----------------------------------------------------------------------------
(* Every step.                                                             *)

\* The step of one call leaves the calls of the other tabs alone.
LEMMA OtherCallsStay ==
    ASSUME TypeInv, NEW c \in Calls, NEW r, call' = [call EXCEPT ![c] = r],
           NEW t \in Tabs, call[c].tab # t, r.tab # t
    PROVE  \A d \in Calls : call[d].tab = t \/ call'[d].tab = t => call'[d] = call[d]
BY RestTyped

LEMMA SettleSame ==
    ASSUME TypeInv, NEW c \in Calls, Settle(c), NEW t \in Tabs, call[c].tab # t
    PROVE  Same(t)
<1>1. Rest
    BY RestTyped
<1>2. ASSUME NEW step \in {"ok", "failed"}, End(c, step)
      PROVE  \A d \in Calls : call[d].tab = t \/ call'[d].tab = t => call'[d] = call[d]
    <2>1. NoCall(step).tab # t
        BY NobodyFits
    <2> QED
        BY <1>2, <2>1, OtherCallsStay DEF End
<1>3. CASE Answered(c)
    <2>1. End(c, "ok") /\ UNCHANGED <<memory, refreshing, overlap>>
          /\ takeover'[t] = takeover[t]
        BY <1>1, <1>3 DEF Answered, tokenVars, Rest
    <2>2. status'[t] = status[t] /\ shown'[t] = shown[t] /\ current'[t] = current[t]
        BY <1>1, <1>3 DEF Answered, LoadOrganizations, providerVars, Rest
    <2> QED
        BY <1>2, <2>1, <2>2 DEF Same
<1>4. CASE CallFails(c)
    <2>1. End(c, "failed") /\ UNCHANGED <<refreshing, shown, current, overlap, takeover>>
        BY <1>4 DEF CallFails, history
    <2>2. memory'[t] = memory[t] /\ status'[t] = status[t]
        BY <1>1, <1>4 DEF CallFails, ClearTokens, SetTokens, tokenVars, Rest
    <2> QED
        BY <1>2, <2>1, <2>2 DEF Same
<1>5. CASE Unauthorized(c)
    <2>1. \A d \in Calls : call[d].tab = t \/ call'[d].tab = t => call'[d] = call[d]
        <3>1. CASE End(c, "failed")
            BY <1>2, <3>1
        <3>2. CASE call' = [call EXCEPT ![c].step = "waiting"]
            <4>1. [call[c] EXCEPT !.step = "waiting"].tab = call[c].tab
                BY RestTyped DEF CallRecord
            <4> QED
                BY <3>2, <4>1, OtherCallsStay
        <3> QED
            BY <1>5, <3>1, <3>2 DEF Unauthorized
    <2>2. memory'[t] = memory[t] /\ refreshing'[t] = refreshing[t] /\ status'[t] = status[t]
          /\ shown'[t] = shown[t] /\ current'[t] = current[t] /\ UNCHANGED history
        BY <1>1, <1>5 DEF Unauthorized, ClearTokens, SetTokens, SignedOut, tokenVars,
                          providerVars, Rest
    <2> QED
        BY <2>1, <2>2 DEF Same, history
<1>6. CASE LoginRejected(c)
    BY <1>2, <1>6 DEF LoginRejected, Same, tokenVars, providerVars, history
<1>7. CASE LoginAccepted(c)
    <2>1. \A d \in Calls : call[d].tab = t \/ call'[d].tab = t => call'[d] = call[d]
        BY <1>7, LoginAcceptedTyped
    <2>2. memory'[t] = memory[t] /\ current'[t] = current[t] /\ overlap'[t] = overlap[t]
          /\ takeover'[t] = takeover[t] /\ UNCHANGED <<refreshing, status, shown>>
        BY <1>1, <1>7 DEF LoginAccepted, SetTokens, Rest
    <2> QED
        BY <2>1, <2>2 DEF Same
<1> QED
    BY <1>3, <1>4, <1>5, <1>6, <1>7 DEF Settle

LEMMA RefreshSame ==
    ASSUME TypeInv, NEW s \in Tabs, RefreshSettles(s), NEW t \in Tabs, s # t
    PROVE  Same(t)
<1>1. Rest
    BY RestTyped
<1>2. ASSUME NEW d \in Calls, call[d].tab = t \/ call'[d].tab = t PROVE call'[d] = call[d]
    <2>1. d \in Waiters(s) => /\ call[d].tab = s /\ call[d].step = "waiting"
                              /\ NoCall("failed").tab # t
        BY WhoWaits, NobodyFits
    <2>2. d \in Waiters(s) => call'[d].tab # t
        <3>1. CASE RefreshFails(s)
            BY <2>1, <3>1 DEF RefreshFails
        <3>2. CASE RefreshSucceeds(s)
            <4>1. d \in Waiters(s) => call'[d].tab = call[d].tab
                BY <3>2, RestTyped DEF RefreshSucceeds, CallRecord
            <4> QED
                BY <2>1, <4>1
        <3> QED
            BY <3>1, <3>2 DEF RefreshSettles
    <2>3. d \notin Waiters(s) => call'[d] = call[d]
        BY DEF RefreshSettles, RefreshSucceeds, RefreshFails
    <2> QED
        BY <1>2, <2>1, <2>2, <2>3
<1>3. memory'[t] = memory[t] /\ refreshing'[t] = refreshing[t] /\ status'[t] = status[t]
      /\ shown'[t] = shown[t] /\ current'[t] = current[t] /\ UNCHANGED history
    BY <1>1 DEF RefreshSettles, RefreshSucceeds, RefreshFails, ClearTokens, SetTokens,
                SignedOut, providerVars, Rest
<1> QED
    BY <1>2, <1>3 DEF Same, history

LEMMA UserSame ==
    ASSUME TypeInv, NEW s \in Tabs, NEW t \in Tabs, s # t, NEW c \in Calls,
           \/ Load(s, c)
           \/ \E kind \in Kind : PageCalls(s, c, kind)
           \/ \E u \in Users : Login(s, c, u)
    PROVE  Same(t)
<1>1. Rest
    BY RestTyped
<1>2. CASE Load(s, c)
    <2>1. /\ call[c].step = "idle" /\ call[c].tab \notin Tabs
          /\ \A d \in Calls : call'[d] =
                IF d = c /\ storage # None THEN Sent(s, "hydrate", storage.user, storage)
                ELSE IF d \in CallsOf(s) THEN NoCall("failed") ELSE call[d]
        BY <1>2, LoadTyped, RestTyped DEF Fits, InFlight
    <2>2. Sent(s, "hydrate", storage.user, storage).tab = s /\ NoCall("failed").tab # t
        BY NobodyFits DEF Sent
    <2>3. \A d \in Calls : call[d].tab = t \/ call'[d].tab = t => call'[d] = call[d]
        BY <2>1, <2>2, WhoWaits
    <2>4. memory'[t] = memory[t] /\ refreshing'[t] = refreshing[t] /\ status'[t] = status[t]
          /\ shown'[t] = shown[t] /\ current'[t] = current[t] /\ overlap'[t] = overlap[t]
          /\ takeover'[t] = takeover[t]
        BY <1>1, <1>2 DEF Load, Rest
    <2> QED
        BY <2>3, <2>4 DEF Same
<1>3. ASSUME NEW r, Place(c, r), r.tab = s,
             UNCHANGED <<memory, refreshing, status, shown, current, history>>
      PROVE  Same(t)
    <2>1. call[c].tab \notin Tabs
        BY <1>3, RestTyped DEF Place, Unused, Fits, InFlight
    <2> QED
        BY <1>3, <2>1, OtherCallsStay DEF Place, Same, history
<1>4. ASSUME NEW kind \in Kind, PageCalls(s, c, kind) PROVE Same(t)
    <2>1. Sent(s, kind, UserOf(memory[s]), memory[s]).tab = s
        BY DEF Sent
    <2> QED
        BY <1>3, <1>4, <2>1 DEF PageCalls, GetAccessToken, tokenVars, providerVars
<1>5. ASSUME NEW u \in Users, Login(s, c, u) PROVE Same(t)
    BY <1>3, <1>5 DEF Login, tokenVars, providerVars
<1> QED
    BY <1>2, <1>4, <1>5

LEMMA QuietInit == Init => QuietInv
<1> SUFFICES ASSUME Init, NEW t \in Tabs PROVE Sound(t)
    BY DEF QuietInv
<1>1. CallsOf(t) = {}
    BY NobodyFits, WhoWaits DEF Init, InFlight
<1> QED
    BY <1>1 DEF Init, Sound, Quiet, OfOneUser, WhenClosed

LEMMA QuietNext == TypeInv /\ QuietInv /\ [Next]_vars => QuietInv'
<1> SUFFICES ASSUME TypeInv, QuietInv, [Next]_vars, NEW t \in Tabs, ~overlap'[t]
             PROVE  Sound(t)'
    BY DEF QuietInv
<1>0. /\ Rest /\ \A u \in Users : memberOf[u] \subseteq memberOf'[u]
      /\ overlap[t] \/ Sound(t)
    BY RestTyped, MembersGrow DEF QuietInv
<1>1. ASSUME Same(t) PROVE Sound(t)'
    <2>1. CASE takeover[t]
        BY <1>0, <1>1, <2>1, SameTakenOver DEF Same, Sound
    <2>2. CASE ~takeover[t]
        BY <1>0, <1>1, <2>2, SameQuiet DEF Same, Sound
    <2> QED
        BY <2>1, <2>2
<1>2. ASSUME NEW c \in Calls, Settle(c) PROVE Sound(t)'
    <2>1. CASE call[c].tab # t
        BY <1>1, <1>2, <2>1, SettleSame
    <2>2. CASE call[c].tab = t /\ LoginAccepted(c)
        BY <2>2, LoginAcceptedQuiet
    <2>3. CASE call[c].tab = t /\ ~LoginAccepted(c)
        <3>1. Sound(t)
            BY <1>0, <1>2, <2>3
            DEF Settle, Answered, CallFails, Unauthorized, LoginRejected, history
        <3>2. CASE Answered(c)
            <4>1. CASE takeover[t]
                BY <2>3, <3>1, <3>2, <4>1, AnsweredTakenOver DEF Sound
            <4>2. CASE ~takeover[t]
                <5>1. ~takeover'[t]
                    BY <1>0, <2>3, <3>2, <4>2 DEF Answered, Rest
                <5> QED
                    BY <2>3, <3>1, <3>2, <4>2, <5>1, AnsweredQuiet DEF Sound
            <4> QED
                BY <4>1, <4>2
        <3>3. CASE ~Answered(c)
            <4>1. takeover' = takeover
                BY <1>2, <2>3, <3>3
                DEF Settle, CallFails, Unauthorized, LoginRejected, history
            <4>2. ASSUME LoginRejected(c)
                  PROVE  /\ UNCHANGED <<memory, refreshing, status, shown, current>>
                         /\ CallsOf(t)' = CallsOf(t) \ {c}
                         /\ \A d \in CallsOf(t) \ {c} : call'[d] = call[d]
                BY <2>3, <4>2, OneEnds DEF LoginRejected, tokenVars, providerVars
            <4>3. CASE takeover[t]
                <5>1. TakenOver(t)'
                    BY <1>2, <2>3, <3>1, <3>3, <4>2, <4>3, CallFailsTakenOver,
                       UnauthorizedTakenOver, FewerCallsTakenOver DEF Settle, Sound
                <5> QED
                    BY <4>1, <4>3, <5>1 DEF Sound
            <4>4. CASE ~takeover[t]
                <5>1. Quiet(t)'
                    BY <1>0, <1>2, <2>3, <3>1, <3>3, <4>2, <4>4, CallFailsQuiet,
                       UnauthorizedQuiet, FewerCallsQuiet DEF Settle, Sound
                <5> QED
                    BY <4>1, <4>4, <5>1 DEF Sound
            <4> QED
                BY <4>3, <4>4
        <3> QED
            BY <3>2, <3>3
    <2> QED
        BY <2>1, <2>2, <2>3
<1>3. ASSUME NEW s \in Tabs, RefreshSettles(s) PROVE Sound(t)'
    <2>1. CASE s # t
        BY <1>1, <1>3, <2>1, RefreshSame
    <2>2. CASE s = t
        <3>1. Sound(t) /\ UNCHANGED takeover
            BY <1>0, <1>3 DEF RefreshSettles, RefreshSucceeds, RefreshFails, history
        <3>2. CASE takeover[t]
            BY <1>3, <2>2, <3>1, <3>2, RefreshTakenOver DEF Sound
        <3>3. CASE ~takeover[t]
            BY <1>3, <2>2, <3>1, <3>3, RefreshSucceedsQuiet, RefreshFailsQuiet
            DEF RefreshSettles, Sound
        <3> QED
            BY <3>2, <3>3
    <2> QED
        BY <2>1, <2>2
<1>4. ASSUME NEW s \in Tabs, Logout(s) PROVE Sound(t)'
    <2>1. CASE s # t
        <3>1. Same(t)
            BY <1>0, <1>4, <2>1
            DEF Same, Logout, ClearTokens, SetTokens, SignedOut, Rest
        <3> QED
            BY <1>1, <3>1
    <2> QED
        BY <1>4, <2>1, LogoutQuiet
<1>5. ASSUME NEW s \in Tabs, NEW o \in Orgs, SelectOrg(s, o) PROVE Sound(t)'
    <2>1. CASE s # t
        <3>1. Same(t)
            BY <1>0, <1>5, <2>1 DEF Same, SelectOrg, tokenVars, history, Rest
        <3> QED
            BY <1>1, <3>1
    <2>2. CASE s = t
        <3>1. Sound(t) /\ UNCHANGED <<memory, refreshing, call, status, takeover>>
            BY <1>0, <1>5 DEF SelectOrg, tokenVars, history
        <3>2. CASE takeover[t]
            <4>1. CallsOf(t)' = CallsOf(t)
                BY <3>1 DEF CallsOf
            <4> QED
                BY <3>1, <3>2, <4>1, FewerCallsTakenOver DEF Sound
        <3>3. CASE ~takeover[t]
            BY <1>5, <2>2, <3>1, <3>3, SelectOrgQuiet DEF Sound
        <3> QED
            BY <3>2, <3>3
    <2> QED
        BY <2>1, <2>2
<1>6. ASSUME NEW s \in Tabs, NEW c \in Calls,
             \/ Load(s, c)
             \/ \E kind \in Kind : PageCalls(s, c, kind)
             \/ \E u \in Users : Login(s, c, u)
      PROVE  Sound(t)'
    <2>1. CASE s # t
        BY <1>1, <1>6, <2>1, UserSame
    <2>2. CASE s = t /\ ~Load(s, c)
        <3>1. Sound(t) /\ UNCHANGED takeover
            BY <1>0, <1>6, <2>2 DEF PageCalls, Login, history
        <3>2. CASE takeover[t]
            BY <1>6, <2>2, <3>1, <3>2, CallMadeTakenOver DEF Sound
        <3>3. CASE ~takeover[t]
            BY <1>6, <2>2, <3>1, <3>3, PageCallsQuiet, LoginQuiet DEF Sound
        <3> QED
            BY <3>2, <3>3
    <2>3. CASE s = t /\ Load(s, c)
        <3>1. ~takeover'[t]
            BY <1>0, <2>3 DEF Load, Rest
        <3> QED
            BY <2>3, <3>1, LoadQuiet DEF Sound
    <2> QED
        BY <2>1, <2>2, <2>3
<1>7. CASE Expire \/ UNCHANGED vars
    <2>1. Same(t)
        BY <1>7 DEF Same, Expire, vars, tokenVars, providerVars, history
    <2> QED
        BY <1>1, <2>1
<1> QED
    BY <1>2, <1>3, <1>4, <1>5, <1>6, <1>7 DEF Next

LEMMA QuietHolds == Spec => [](TypeInv /\ QuietInv)
<1>1. Init => TypeInv /\ QuietInv
    BY TypeInit, QuietInit
<1>2. TypeInv /\ QuietInv /\ [Next]_vars => (TypeInv /\ QuietInv)'
    BY TypeNext, QuietNext
<1> QED
    BY <1>1, <1>2, PTL DEF Spec

\* A tab shows the organizations of the user whose tokens it sends, whatever
\* expires, is refreshed, fails, answers late or happens in the other tabs, unless
\* somebody signed in or out in it while a call was in flight, or signed in over a
\* session whose organizations it shows until the list replaces them.
THEOREM QuietTabsShowTheirUser == Spec => []QuietTabsAgree
<1>1. QuietInv => QuietTabsAgree
    BY DEF QuietInv, Sound, QuietTabsAgree, Quiet, WhenAuthenticated
<1> QED
    BY <1>1, QuietHolds, PTL

\* Where nobody signed in or out while a call was in flight, a call is answered
\* for the user who made it, also when it was repeated with the tokens of a refresh
\* that another call started, and also after a sign-in over a session.
THEOREM AnswersReachTheirCaller == Spec => AnswersForTheCaller
<1>1. ASSUME TypeInv, QuietInv, [Next]_vars, NEW c \in Calls, call'[c].step = "ok",
             call[c].step # "ok", ~overlap[call[c].tab]
      PROVE  call[c].token.user = call[c].by
    <2>1. Answered(c)
        <3>1. ASSUME NEW d \in Calls, Settle(d) PROVE Answered(c)
            <4>1. ASSUME End(d, "failed") PROVE FALSE
                BY <1>1, <4>1, RestTyped, NobodyFits DEF End
            <4>2. ASSUME LoginAccepted(d) PROVE FALSE
                BY <1>1, <4>2, LoginAcceptedTyped
            <4>3. ASSUME call' = [call EXCEPT ![d].step = "waiting"] PROVE FALSE
                BY <1>1, <4>3, RestTyped DEF CallRecord
            <4>4. Answered(d)
                BY <3>1, <4>1, <4>2, <4>3 DEF Settle, CallFails, Unauthorized, LoginRejected
            <4>5. End(d, "ok")
                BY <4>4 DEF Answered
            <4>6. c = d
                BY <1>1, <4>5, RestTyped DEF End
            <4> QED
                BY <4>4, <4>6
        <3>2. ASSUME NEW t \in Tabs, RefreshSettles(t) PROVE FALSE
            BY <1>1, <3>2, RestTyped, NobodyFits
            DEF RefreshSettles, RefreshSucceeds, RefreshFails, CallRecord
        <3>3. ASSUME NEW t \in Tabs, NEW d \in Calls, Load(t, d) PROVE FALSE
            <4>1. Sent(t, "hydrate", storage.user, storage).step = "sent"
                BY DEF Sent
            <4> QED
                BY <1>1, <3>3, <4>1, LoadTyped, NobodyFits
        <3>4. ASSUME NEW d \in Calls, NEW r, Place(d, r), r.step # "ok" PROVE FALSE
            BY <1>1, <3>4, RestTyped DEF Place
        <3>5. ASSUME NEW t \in Tabs, NEW d \in Calls, NEW kind \in Kind, PageCalls(t, d, kind)
              PROVE  FALSE
            <4>1. Sent(t, kind, UserOf(memory[t]), memory[t]).step = "sent"
                BY DEF Sent
            <4> QED
                BY <3>4, <3>5, <4>1 DEF PageCalls, GetAccessToken
        <3>6. ASSUME NEW t \in Tabs, NEW d \in Calls, NEW u \in Users, Login(t, d, u)
              PROVE  FALSE
            BY <3>4, <3>6 DEF Login
        <3>7. call' # call
            BY <1>1
        <3> QED
            BY <1>1, <3>1, <3>2, <3>3, <3>5, <3>6, <3>7
            DEF Next, vars, Logout, SelectOrg, Expire
    <2>2. call[c].step \in {"sent", "resent"}
        BY <2>1 DEF Answered
    <2>3. call[c].tab \in Tabs
        BY <1>1, <2>2, InFlightTyped DEF InFlight
    <2>4. c \in CallsOf(call[c].tab) /\ ~Signing(c)
        BY <2>2, WhoWaits DEF InFlight, Signing
    <2>5. call[c].token # None
        BY <1>1, <2>1, RestTyped DEF Answered, Fits
    <2>6. OfOneUser(call[c].tab)
        BY <1>1, <2>3 DEF QuietInv, Sound, Quiet, TakenOver
    <2> QED
        BY <2>4, <2>5, <2>6 DEF OfOneUser, UserOf
<1>2. TypeInv /\ QuietInv /\ [Next]_vars =>
          [\A c \in Calls : call'[c].step = "ok" /\ call[c].step # "ok"
              /\ ~overlap[call[c].tab] => call[c].token.user = call[c].by]_vars
    BY <1>1
<1> QED
    BY <1>2, QuietHolds, PTL DEF Spec, AnswersForTheCaller
=============================================================================
