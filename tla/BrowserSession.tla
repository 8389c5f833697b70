--------------------------- MODULE BrowserSession ---------------------------
(***************************************************************************)
(* The signed-in session of the web front end: the token store, the        *)
(* fetch wrapper that refreshes an expired access token and repeats the    *)
(* call, and the provider that knows who is signed in and which            *)
(* organizations to show (frontend/lib/api-client.ts, lib/auth).           *)
(*                                                                         *)
(* JavaScript runs to completion: everything between two awaits is one     *)
(* action, and an action is a click, a page load, or the arrival of one    *)
(* answer.  A tab keeps its tokens in memory and copies them to the        *)
(* storage that all tabs share; it reads the storage once per page load.   *)
(***************************************************************************)
EXTENDS Naturals, FiniteSets

CONSTANTS
    Users,          \* accounts of auth-service
    Orgs,           \* organizations, those that exist and those to create
    Tabs,           \* tabs of one browser
    MaxCalls,       \* bound: how many calls are made
    FirstMembers,   \* the organizations every user belongs to at first
    MaxClock,       \* bound: how often issued access tokens expire
    None            \* no token, no organization

ASSUME SessionAssumption ==
    /\ MaxClock \in Nat /\ MaxCalls \in Nat
    /\ FirstMembers \in [Users -> SUBSET Orgs]
    /\ None \notin Orgs \cup Tabs \cup Users
    /\ None \notin [user: Users, gen: 0 .. MaxClock]

VARIABLES
    clock,      \* access tokens of an earlier generation have expired
    memberOf,   \* auth-service: the organizations of every user
    storage,    \* localStorage: the token pair all tabs share, or None
    memory,     \* accessToken, refreshToken of every tab's token-store
    refreshing, \* refreshPromise: the pair whose refresh token was sent
    call,       \* the calls of apiFetch
    status,     \* AuthProvider's status, or "closed" for a tab not open
    shown,      \* AuthProvider's organizations
    current,    \* AuthProvider's currentOrgId
    overlap,    \* history: signed in or out while something was in flight
    takeover    \* history: signed in over a session, whose organizations still show

tokenVars == <<storage, memory>>
providerVars == <<status, shown, current>>
history == <<overlap, takeover>>
vars == <<clock, memberOf, storage, memory, refreshing, call,
          status, shown, current, history>>

Token == [user: Users, gen: 0 .. MaxClock]
Calls == 1 .. MaxCalls    \* in the order they are made, each used once
Kind == {"page", "createOrg", "hydrate", "login"}
Step == {"idle", "signin", "sent", "waiting", "resent", "ok", "failed"}

(* What apiFetch and its caller keep between two awaits: the tab, who      *)
(* calls and why, the token in the header, and whether it was still valid  *)
(* when it was sent.                                                       *)
CallRecord == [tab: Tabs \cup {None}, kind: Kind, by: Users \cup {None}, step: Step,
               token: Token \cup {None}, live: BOOLEAN]

TypeOK ==
    /\ clock \in 0 .. MaxClock
    /\ memberOf \in [Users -> SUBSET Orgs]
    /\ storage \in Token \cup {None}
    /\ memory \in [Tabs -> Token \cup {None}]
    /\ refreshing \in [Tabs -> Token \cup {None}]
    /\ call \in [Calls -> CallRecord]
    /\ status \in [Tabs -> {"closed", "loading", "authenticated", "unauthenticated"}]
    /\ shown \in [Tabs -> SUBSET Orgs]
    /\ current \in [Tabs -> Orgs \cup {None}]
    /\ overlap \in [Tabs -> BOOLEAN]
    /\ takeover \in [Tabs -> BOOLEAN]

(* A call that is not in flight: not made yet, or over.                    *)
NoCall(step) == [tab |-> None, kind |-> "page", by |-> None, step |-> step,
                 token |-> None, live |-> FALSE]

InFlight == {"signin", "sent", "waiting", "resent"}
CallsOf(t) == {c \in Calls : call[c].tab = t /\ call[c].step \in InFlight}
Waiters(t) == {c \in CallsOf(t) : call[c].step = "waiting"}

UserOf(token) == IF token = None THEN None ELSE token.user
Valid(token) == token # None /\ token.gen = clock

-----------------------------------------------------------------------------
(* token-store.ts and rawFetch *)

(* Mutant: the storage is read for every request. *)
SlipStorage(t) == storage

(* getAccessToken: the tab's memory, not the storage. *)
GetAccessToken(t) == memory[t]

(* rawFetch reads the token when the request goes out. *)
Sent(t, kind, by, token) ==
    [tab |-> t, kind |-> kind, by |-> by, step |-> "sent",
     token |-> token, live |-> Valid(token)]

SetTokens(t, pair) ==
    /\ memory' = [memory EXCEPT ![t] = pair]
    /\ storage' = pair

ClearTokens(t) == SetTokens(t, None)

(* The handler AuthProvider registers for notifyAuthExpired; logout and    *)
(* the failed hydration leave the same state.                              *)
SignedOut(t) ==
    /\ status' = [status EXCEPT ![t] = "unauthenticated"]
    /\ shown' = [shown EXCEPT ![t] = {}]
    /\ current' = [current EXCEPT ![t] = None]

-----------------------------------------------------------------------------
(* AuthProvider: how a call ends for the code that awaits it *)

End(c, step) == call' = [call EXCEPT ![c] = NoCall(step)]

NewOrgs == Orgs \ UNION {memberOf[u] : u \in Users}

(* loadOrganizations: the current organization is kept when there is one.  *)
LoadOrganizations(t, orgs) ==
    /\ shown' = [shown EXCEPT ![t] = orgs]
    /\ \/ current[t] # None /\ UNCHANGED current
       \/ current[t] = None /\ orgs = {} /\ UNCHANGED current
       \/ /\ current[t] = None
          /\ \E o \in orgs : current' = [current EXCEPT ![t] = o]

(* A 200: the list of the token's user ends the hydration or the sign-in,  *)
(* a created organization is added to the list and becomes the current one.*)
(* A session taken over ends with the list, unless an organization of the  *)
(* old list was selected while it was on its way.                          *)
Answered(c) ==
    LET t == call[c].tab
        u == call[c].token.user
    IN  /\ call[c].step \in {"sent", "resent"} /\ call[c].live
        /\ \/ /\ call[c].kind = "page"
              /\ UNCHANGED <<memberOf, providerVars, takeover>>
           \/ /\ call[c].kind \in {"hydrate", "login"}
              /\ LoadOrganizations(t, memberOf[u])
              /\ status' = [status EXCEPT ![t] = "authenticated"]
              /\ takeover' = [takeover EXCEPT ![t] =
                     @ /\ ~ (/\ status[t] = "authenticated"
                             /\ current[t] \in memberOf[u] \cup {None})]
              /\ UNCHANGED memberOf
           \/ /\ call[c].kind = "createOrg"
              /\ \E o \in NewOrgs :
                    /\ memberOf' = [memberOf EXCEPT ![u] = @ \cup {o}]
                    /\ shown' = [shown EXCEPT ![t] = @ \cup {o}]
                    /\ current' = [current EXCEPT ![t] = o]
              /\ UNCHANGED <<status, takeover>>
        /\ End(c, "ok")
        /\ UNCHANGED <<clock, tokenVars, refreshing, overlap>>

(* No answer, or an error other than 401, or a second 401: apiFetch throws. *)
(* The organization may exist all the same when only the answer was lost.  *)
(* Only the hydration turns that into a sign-out; its flag "cancelled" is  *)
(* set by an unmount, which a page load models.                            *)
CallFails(c) ==
    LET t == call[c].tab
    IN  /\ call[c].step \in {"sent", "resent"}
        /\ IF call[c].kind = "hydrate"
           THEN ClearTokens(t) /\ status' = [status EXCEPT ![t] = "unauthenticated"]
           ELSE UNCHANGED <<tokenVars, status>>
        /\ \/ UNCHANGED memberOf
           \/ /\ call[c].kind = "createOrg" /\ call[c].live
              /\ \E o \in NewOrgs :
                    memberOf' = [memberOf EXCEPT ![call[c].token.user] = @ \cup {o}]
        /\ End(c, "failed")
        /\ UNCHANGED <<clock, refreshing, shown, current, history>>

-----------------------------------------------------------------------------
(* apiFetch: 401 and refreshAccessToken *)

(* A first 401 joins the refresh that is in flight or starts one; with no  *)
(* refresh token the session is over at once.                              *)
Unauthorized(c) ==
    LET t == call[c].tab
    IN  /\ call[c].step = "sent" /\ ~Valid(call[c].token)
        /\ IF memory[t] = None
           THEN /\ ClearTokens(t) /\ SignedOut(t) /\ End(c, "failed")
                /\ UNCHANGED refreshing
           ELSE /\ call' = [call EXCEPT ![c].step = "waiting"]
                /\ refreshing' = [refreshing EXCEPT ![t] =
                                     IF @ = None THEN memory[t] ELSE @]
                /\ UNCHANGED <<tokenVars, providerVars>>
        /\ UNCHANGED <<clock, memberOf, history>>

(* Mutant: the refresh keeps one callback instead of a promise. *)
SlipOneCallback(t) ==
    LET pair == [user |-> refreshing[t].user, gen |-> clock]
        again(c) == [call[c] EXCEPT !.step = "resent", !.token = pair, !.live = TRUE]
    IN  /\ refreshing[t] # None
        /\ SetTokens(t, pair)
        /\ \/ Waiters(t) = {} /\ UNCHANGED call
           \/ \E c \in Waiters(t) : call' = [call EXCEPT ![c] = again(c)]
        /\ refreshing' = [refreshing EXCEPT ![t] = None]
        /\ UNCHANGED <<clock, memberOf, providerVars, history>>

(* The new pair is stored and every call that waits is sent once more.     *)
RefreshSucceeds(t) ==
    LET pair == [user |-> refreshing[t].user, gen |-> clock]
        again(c) == [call[c] EXCEPT !.step = "resent", !.token = pair, !.live = TRUE]
    IN  /\ refreshing[t] # None
        /\ SetTokens(t, pair)
        /\ call' = [c \in Calls |-> IF c \in Waiters(t) THEN again(c) ELSE call[c]]
        /\ refreshing' = [refreshing EXCEPT ![t] = None]
        /\ UNCHANGED <<clock, memberOf, providerVars, history>>

(* Refused, rate limited or unreachable: whatever tokens the tab has by    *)
(* now are cleared and every call that waits throws.                       *)
RefreshFails(t) ==
    /\ refreshing[t] # None
    /\ ClearTokens(t)
    /\ SignedOut(t)
    /\ call' = [c \in Calls |-> IF c \in Waiters(t)
                                THEN NoCall("failed") ELSE call[c]]
    /\ refreshing' = [refreshing EXCEPT ![t] = None]
    /\ UNCHANGED <<clock, memberOf, history>>

-----------------------------------------------------------------------------
(* The user and the clock *)

Unused(c) == call[c].step = "idle" /\ \A d \in 1 .. c - 1 : call[d].step # "idle"
Place(c, record) == Unused(c) /\ call' = [call EXCEPT ![c] = record]

(* A page load drops what the tab had in memory, its unanswered calls too, *)
(* and hydrates from the storage.                                          *)
Load(t, c) ==
    LET dropped == [d \in Calls |-> IF d \in CallsOf(t)
                                    THEN NoCall("failed") ELSE call[d]]
    IN  /\ Unused(c)
        /\ memory' = [memory EXCEPT ![t] = storage]
        /\ refreshing' = [refreshing EXCEPT ![t] = None]
        /\ call' = IF storage = None THEN dropped
                   ELSE [dropped EXCEPT ![c] =
                            Sent(t, "hydrate", storage.user, storage)]
        /\ status' = [status EXCEPT ![t] =
                         IF storage = None THEN "unauthenticated" ELSE "loading"]
        /\ shown' = [shown EXCEPT ![t] = {}]
        /\ current' = [current EXCEPT ![t] = None]
        /\ overlap' = [overlap EXCEPT ![t] = FALSE]
        /\ takeover' = [takeover EXCEPT ![t] = FALSE]
        /\ UNCHANGED <<clock, memberOf, storage>>

(* A page of the dashboard, shown only when authenticated, calls a service. *)
(* The form that creates an organization is shown to a user who has none   *)
(* and is disabled while it waits.                                         *)
PageCalls(t, c, kind) ==
    /\ status[t] = "authenticated"
    /\ \/ kind = "page"
       \/ /\ kind = "createOrg" /\ current[t] = None
          /\ \A d \in CallsOf(t) : call[d].kind # "createOrg"
    /\ Place(c, Sent(t, kind, UserOf(memory[t]), GetAccessToken(t)))
    /\ UNCHANGED <<clock, memberOf, tokenVars, refreshing, providerVars, history>>

(* The log-in form is disabled until the whole sign-in has ended.          *)
Login(t, c, u) ==
    /\ status[t] # "closed"
    /\ \A d \in CallsOf(t) : call[d].kind # "login"
    /\ Place(c, [tab |-> t, kind |-> "login", by |-> u, step |-> "signin",
                 token |-> None, live |-> FALSE])
    /\ UNCHANGED <<clock, memberOf, tokenVars, refreshing, providerVars, history>>

LoginRejected(c) ==
    /\ call[c].step = "signin"
    /\ End(c, "failed")
    /\ UNCHANGED <<clock, memberOf, tokenVars, refreshing, providerVars, history>>

(* Mutant: login keeps the current organization. *)
SlipKeepCurrent(c) ==
    LET t == call[c].tab
        pair == [user |-> call[c].by, gen |-> clock]
    IN  /\ call[c].step = "signin"
        /\ SetTokens(t, pair)
        /\ call' = [call EXCEPT ![c] = [@ EXCEPT !.step = "sent", !.token = pair,
                                                 !.live = TRUE]]
        /\ overlap' = [overlap EXCEPT ![t] = CallsOf(t) # {c}]
        /\ takeover' = [takeover EXCEPT ![t] = status[t] # "unauthenticated"]
        /\ UNCHANGED <<clock, memberOf, refreshing, status, shown, current>>

(* The pair is stored, the current organization forgotten and the list     *)
(* requested, all before the next await.                                   *)
LoginAccepted(c) ==
    LET t == call[c].tab
        pair == [user |-> call[c].by, gen |-> clock]
    IN  /\ call[c].step = "signin"
        /\ SetTokens(t, pair)
        /\ current' = [current EXCEPT ![t] = None]
        /\ call' = [call EXCEPT ![c] = [@ EXCEPT !.step = "sent", !.token = pair,
                                                 !.live = TRUE]]
        /\ overlap' = [overlap EXCEPT ![t] = CallsOf(t) # {c}]
        /\ takeover' = [takeover EXCEPT ![t] = status[t] # "unauthenticated"]
        /\ UNCHANGED <<clock, memberOf, refreshing, status, shown>>

Logout(t) ==
    /\ status[t] = "authenticated"
    /\ ClearTokens(t)
    /\ SignedOut(t)
    /\ overlap' = [overlap EXCEPT ![t] = CallsOf(t) # {}]
    /\ takeover' = [takeover EXCEPT ![t] = FALSE]
    /\ UNCHANGED <<clock, memberOf, refreshing, call>>

(* setCurrentOrgId: the selector of the side bar offers the list.          *)
SelectOrg(t, o) ==
    /\ status[t] = "authenticated"
    /\ o \in shown[t] \ {current[t]}
    /\ current' = [current EXCEPT ![t] = o]
    /\ UNCHANGED <<clock, memberOf, tokenVars, refreshing, call, status, shown, history>>

Expire ==
    /\ clock < MaxClock
    /\ clock' = clock + 1
    /\ UNCHANGED <<memberOf, tokenVars, refreshing, call, providerVars, history>>

-----------------------------------------------------------------------------
Init ==
    /\ clock = 0
    /\ memberOf = FirstMembers
    /\ storage \in {None} \cup [user: Users, gen: {0}]
    /\ memory = [t \in Tabs |-> None]
    /\ refreshing = [t \in Tabs |-> None]
    /\ call = [c \in Calls |-> NoCall("idle")]
    /\ status = [t \in Tabs |-> "closed"]
    /\ shown = [t \in Tabs |-> {}]
    /\ current = [t \in Tabs |-> None]
    /\ overlap = [t \in Tabs |-> FALSE]
    /\ takeover = [t \in Tabs |-> FALSE]

Settle(c) == Answered(c) \/ CallFails(c) \/ Unauthorized(c)
                \/ LoginRejected(c) \/ LoginAccepted(c)
RefreshSettles(t) == RefreshSucceeds(t) \/ RefreshFails(t)

Next ==
    \/ \E c \in Calls : Settle(c)
    \/ \E t \in Tabs : RefreshSettles(t) \/ Logout(t)
    \/ \E t \in Tabs, o \in Orgs : SelectOrg(t, o)
    \/ \E t \in Tabs, c \in Calls :
          \/ Load(t, c)
          \/ \E kind \in Kind : PageCalls(t, c, kind)
          \/ \E u \in Users : Login(t, c, u)
    \/ Expire

Spec == Init /\ [][Next]_vars

(* fetch settles in the end, with an answer or with the browser's error.   *)
FairSpec ==
    /\ Spec
    /\ \A c \in Calls : WF_vars(Settle(c))
    /\ \A t \in Tabs : WF_vars(RefreshSettles(t))

-----------------------------------------------------------------------------
(* Properties *)

(* An authenticated tab shows the organizations of the user whose tokens   *)
(* it sends, and the current organization is one of them: whatever         *)
(* refreshes, expired sessions, late answers, page loads and other tabs do *)
(* (AuthProvider.tsx, api-client.ts).  Two things do break it, and a tab   *)
(* in which they happened is left out: signing in or out while a call is   *)
(* in flight, and signing in over a session, until the new list replaces   *)
(* the old organizations.                                                  *)
QuietTabsAgree ==
    \A t \in Tabs : status[t] = "authenticated" /\ ~overlap[t] /\ ~takeover[t] =>
        /\ memory[t] # None
        /\ shown[t] \subseteq memberOf[memory[t].user]
        /\ current[t] \in shown[t] \cup {None}

(* Where nobody signed in or out while a call was in flight, a call is     *)
(* answered for the user who made it, also when it was refused first and   *)
(* repeated with the tokens of a refresh it shared, and also after a       *)
(* sign-in over a session.                                                 *)
AnswersForTheCaller ==
    [][\A c \in Calls : call'[c].step = "ok" /\ call[c].step # "ok"
          /\ ~overlap[call[c].tab] => call[c].token.user = call[c].by]_vars

(* Every call ends, those that wait for a refresh another call started     *)
(* included, and so does a tab's "Loading", which waits for such a call.   *)
EveryCallEnds ==
    /\ \A c \in Calls : call[c].step \in InFlight ~> call[c].step \notin InFlight
    /\ \A t \in Tabs : status[t] = "loading" ~> status[t] # "loading"
=============================================================================
