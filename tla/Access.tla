------------------------------- MODULE Access -------------------------------
(***************************************************************************)
(* Who may do what on the server: the OAuth login of a browser session, API *)
(* tokens, the short-lived tokens of the websocket, the store that keeps    *)
(* them, and what a websocket login request is answered with (auth/,        *)
(* routes/auth.rs, routes/ws.rs, store/, state.rs, ws/auth.rs).  Requests   *)
(* run concurrently, and a bearer token is read and extended in two steps.  *)
(***************************************************************************)
EXTENDS Naturals, FiniteSets

CONSTANTS
    Users,          \* VATSIM users
    Sessions,       \* browser sessions
    Requests,       \* HTTP requests with a bearer token that run concurrently
    Positions,      \* positions of the network
    None,
    WsLifetime,     \* 30 seconds
    ApiLifetime,    \* api_token.expiry_secs
    MaxTokens,      \* bound on the tokens and OAuth states ever issued
    MaxTime

ASSUME AccessAssumption ==
    /\ WsLifetime \in Nat /\ ApiLifetime \in Nat /\ MaxTokens \in Nat /\ MaxTime \in Nat

VARIABLES
    now,
    store,      \* token -> [kind, cid, until, made]
    issued,     \* number of tokens and states handed out
    web,        \* browser session -> [state, user]
    asks,       \* request -> the token it was accepted with, or None
    revoked,    \* API tokens whose owner has logged out
    callbacks,  \* OAuth states that completed a login: [state, session]
    logins,     \* the last accepted websocket login
    require     \* config: whether an active VATSIM connection is required

vars == <<now, store, issued, web, asks, revoked, callbacks, logins, require>>

Tokens == 1 .. MaxTokens

Init ==
    /\ now = 0
    /\ store = <<>>
    /\ issued = 0
    /\ web = [s \in Sessions |-> [state |-> None, user |-> None]]
    /\ asks = [r \in Requests |-> None]
    /\ revoked = {}
    /\ callbacks = {}
    /\ logins = {}
    /\ require \in BOOLEAN

-----------------------------------------------------------------------------
(* The store.                                                               *)

\* StoreBackend::set, with a key of its own for every token
Stored(kind, cid, lifetime) ==
    [t \in DOMAIN store \cup {issued + 1} |->
        IF t = issued + 1 THEN [kind |-> kind, cid |-> cid, until |-> now + lifetime, made |-> now]
                          ELSE store[t]]

Without(t) == [u \in DOMAIN store \ {t} |-> store[u]]

\* StoreBackend::get: an entry is found until the moment it expires.
Holds(t, kind) == t \in DOMAIN store /\ store[t].kind = kind /\ now <= store[t].until


\* StoreBackend::expire: a key that is not there stays away.
Expire(t, cid) ==
    [u \in DOMAIN store |-> IF u = t THEN [store[u] EXCEPT !.until = now + ApiLifetime]
                                     ELSE store[u]]

\* Redis drops what has expired at any time; the memory store when it is read.
DropExpired(t) ==
    /\ t \in DOMAIN store
    /\ store[t].until < now
    /\ store' = Without(t)
    /\ UNCHANGED <<now, issued, web, asks, revoked, callbacks, logins, require>>

Tick ==
    /\ now < MaxTime
    /\ now' = now + 1
    /\ UNCHANGED <<store, issued, web, asks, revoked, callbacks, logins, require>>

-----------------------------------------------------------------------------
(* The browser's login with VATSIM.                                         *)

\* GET /auth/vatsim
StartLogin(s) ==
    /\ issued < MaxTokens
    /\ issued' = issued + 1
    /\ web' = [web EXCEPT ![s].state = issued + 1]
    /\ UNCHANGED <<now, store, asks, revoked, callbacks, logins, require>>

\* session.remove of the state and the verifier
TakenState(s) == None

\* POST /auth/vatsim/callback. VATSIM may refuse the code or fail to name the user.
Callback(s, received) ==
    /\ web[s].state # None
    /\ \/ /\ received = web[s].state
          /\ \E u \in Users : web' = [web EXCEPT ![s] = [state |-> TakenState(s), user |-> u]]
          /\ callbacks' = callbacks \cup {[state |-> received, session |-> s, made |-> Cardinality(callbacks)]}
       \/ /\ web' = [web EXCEPT ![s].state = TakenState(s)]
          /\ UNCHANGED callbacks
    /\ UNCHANGED <<now, store, issued, asks, revoked, logins, require>>

\* POST /auth/logout of a browser session
Logout(s) ==
    /\ web[s].user # None
    /\ web' = [web EXCEPT ![s] = [state |-> None, user |-> None]]
    /\ UNCHANGED <<now, store, issued, asks, revoked, callbacks, logins, require>>

\* GET /ws/token of a browser session
SessionWsToken(s) ==
    /\ web[s].user # None
    /\ issued < MaxTokens
    /\ store' = Stored("ws", web[s].user, WsLifetime)
    /\ issued' = issued + 1
    /\ UNCHANGED <<now, web, asks, revoked, callbacks, logins, require>>

-----------------------------------------------------------------------------
(* API tokens.                                                              *)

\* POST /auth/vatsim/token, for a user VATSIM has named
VatsimToken(u) ==
    /\ issued < MaxTokens
    /\ store' = Stored("api", u, ApiLifetime)
    /\ issued' = issued + 1
    /\ UNCHANGED <<now, web, asks, revoked, callbacks, logins, require>>

\* AuthenticatedUser: the token is looked up,
ReadApiToken(r, t) ==
    /\ asks[r] = None
    /\ Holds(t, "api")
    /\ asks' = [asks EXCEPT ![r] = [token |-> t, cid |-> store[t].cid, extended |-> FALSE]]
    /\ UNCHANGED <<now, store, issued, web, revoked, callbacks, logins, require>>

\* and its lifetime starts again, which may fail.
ExtendApiToken(r) ==
    /\ asks[r] # None
    /\ ~asks[r].extended
    /\ asks' = [asks EXCEPT ![r].extended = TRUE]
    /\ store' \in {store, Expire(asks[r].token, asks[r].cid)}
    /\ UNCHANGED <<now, issued, web, revoked, callbacks, logins, require>>

\* The request itself: /auth/user, /auth/logout or /ws/token.
ServeRequest(r) ==
    /\ asks[r] # None
    /\ asks[r].extended
    /\ asks' = [asks EXCEPT ![r] = None]
    /\ \/ UNCHANGED <<store, issued, revoked>>
       \/ /\ store' = Without(asks[r].token)
          /\ revoked' = revoked \cup {asks[r].token}
          /\ UNCHANGED issued
       \/ /\ issued < MaxTokens
          /\ store' = Stored("ws", asks[r].cid, WsLifetime)
          /\ issued' = issued + 1
          /\ UNCHANGED revoked
    /\ UNCHANGED <<now, web, callbacks, logins, require>>

-----------------------------------------------------------------------------
(* The websocket login.                                                     *)

\* resolve_vatsim_position, once VATSIM has named the controller and the network
\* its positions: the client only chooses where there is a choice.
Resolve(found, chosen) ==
    IF Cardinality(found) = 1
    THEN CHOOSE p \in found : TRUE
    ELSE IF found = {} THEN None ELSE chosen

\* process_login_request: what the client gets with a token that is accepted, when
\* it asks for a position and VATSIM connects it to those found. Several matches
\* without a valid choice are refused.
WsLogin(t, found, chosen) ==
    /\ Holds(t, "ws")
    /\ require /\ Cardinality(found) > 1 => chosen \in found
    /\ logins' = {[token |-> t, age |-> now - store[t].made, found |-> found, active |-> require,
                   position |-> IF require THEN Resolve(found, chosen) ELSE chosen]}
    /\ UNCHANGED <<now, store, issued, web, asks, revoked, callbacks, require>>

Next ==
    \/ Tick
    \/ \E t \in DOMAIN store : DropExpired(t)
    \/ \E s \in Sessions : StartLogin(s) \/ Logout(s) \/ SessionWsToken(s)
    \/ \E s \in Sessions, n \in Tokens : Callback(s, n)
    \/ \E u \in Users : VatsimToken(u)
    \/ \E r \in Requests : ExtendApiToken(r) \/ ServeRequest(r)
    \/ \E r \in Requests, t \in Tokens : ReadApiToken(r, t)
    \/ \E t \in Tokens, found \in SUBSET Positions, chosen \in Positions \cup {None} :
         WsLogin(t, found, chosen)

Spec == Init /\ [][Next]_vars

-----------------------------------------------------------------------------
(* Properties.                                                              *)

TypeOK ==
    /\ DOMAIN store \subseteq 1 .. issued
    /\ \A t \in DOMAIN store : store[t].kind \in {"ws", "api"} /\ store[t].cid \in Users
    /\ \A s \in Sessions : web[s].user \in Users \cup {None}

\* A token whose owner has logged out is gone for good: another request that had
\* read it before, and extends its lifetime after, does not bring it back.
RevokedTokensStayRevoked ==
    revoked \cap DOMAIN store = {}

\* A browser login is completed by the answer to the request that this session
\* sent last, and one answer completes one login.
CallbacksAreAnswers ==
    \A c, d \in callbacks : c.state = d.state => c = d

\* Whoever is let in on the websocket was given the token no longer ago than it
\* may live, and works a position that their VATSIM connection gives them.
LoginsAreAuthorised ==
    \A l \in logins :
        /\ l.age <= WsLifetime
        /\ l.active /\ l.found # {} => l.position \in l.found
        /\ l.active /\ l.found = {} => l.position = None

=============================================================================
