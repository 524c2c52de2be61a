---------------------------- MODULE AccessTokens ----------------------------
(***************************************************************************)
(* Access tokens: who gets one, how long it is accepted, and what may be   *)
(* done with it.  AuthService and ExtendedAuthService of smp-auth-ts, over *)
(* its clients of Keycloak, Redis and the policy engine, and the REST and  *)
(* GraphQL routes of mu-auth that call them.                               *)
(*                                                                         *)
(* Time is counted in steps.  The answers of Keycloak to a login are in    *)
(* its token: the roles of the user at that instant, and when it ends.     *)
(* The service decodes a token itself, caches that it was valid, and       *)
(* caches what the policy decided of its user: all three go stale, and the *)
(* module is about for how long.  One resource and one action are asked    *)
(* about, and the policy allows them to who has one role.                  *)
(***************************************************************************)
EXTENDS Integers

CONSTANTS
    Users,        \* users, and the account of the service itself
    Service,      \* the account of the service: client credentials
    Tokens,       \* access tokens, each with the refresh token issued beside it
    Calls,        \* calls in progress
    None,
    Life,         \* how long Keycloak makes an access token live
    CacheTTL,     \* cacheExpiry: 3600 seconds
    DecisionTTL,  \* 300 seconds
    Lag,          \* the longest a call lasts: requests time out
    MaxTime,      \* bound: instants
    MaxChanges,   \* bound: changes of roles
    Questions     \* bound: what one behaviour asks: "validity", while sessions
                  \* are closed, or "permission", while roles change

ASSUME ServiceAssumption == Service \in Users
ASSUME TimesAssumption ==
    /\ Life \in Nat /\ CacheTTL \in Nat /\ DecisionTTL \in Nat /\ Lag \in Nat
    /\ Lag <= CacheTTL /\ DecisionTTL <= CacheTTL
ASSUME BoundsAssumption ==
    /\ MaxTime \in Nat /\ MaxChanges \in Nat
    /\ Questions \subseteq {"validity", "permission"}

VARIABLES
    now,
    role,       \* Keycloak: whether each user has the role
    lost,       \* history: when each user last ceased to have it, or not to have it
    token,      \* Keycloak: what each token says, or None
    open,       \* Keycloak: whether the session that a token began is open
    closed,     \* history: when that session was closed
    verdicts,   \* Redis, auth:token:validation: until when a verdict is cached
    decisions,  \* Redis, auth:authz: the decision cached of each user
    calls,      \* the calls in progress
    changes,    \* bound
    question    \* bound: the two kinds of question share nothing but tokens

keycloak == <<role, lost, token, open, closed>>
caches == <<verdicts, decisions>>
bounds == <<changes, question>>
vars == <<now, keycloak, caches, calls, bounds>>

Time == Nat
TokenData == [user : Users, role : BOOLEAN, exp : Time, session : Tokens]
Decision == [until : Int, allow : BOOLEAN]
Stages == {"idle", "storing", "looking", "deciding", "valid", "allowed", "refused"}
Call == [stage : Stages, token : Tokens \cup {None}, since : Time]

ASSUME NoneAssumption == None \notin Tokens \cup TokenData

Issued == {t \in Tokens : token[t] # None}

\* Nothing is cached.
Never == -1
\* What was never true was last true before any window began.
LongAgo == -(Life + Lag + CacheTTL) - 1

NoDecision == [until |-> Never, allow |-> FALSE]
Idle == [stage |-> "idle", token |-> None, since |-> 0]

\* What the call has told its caller, whose answer may be long on its way.
Answered(answer, t) == [stage |-> answer, token |-> t, since |-> 0]

\* getCache: an entry past its expiresAt is deleted and not returned.
Readable(until) == now <= until

\* setCache: expiresAt is computed when the write is sent, not when it lands.
ExpiresAt(sent, ttl) == sent + ttl

----------------------------------------------------------------------------
\* Keycloak, as its client sees it.

\* The grants: a token says what role its user has now.
Issue(u, t, session) ==
    /\ token[t] = None
    /\ token' = [token EXCEPT ![t] =
           [user |-> u, role |-> role[u], exp |-> now + Life, session |-> session]]

\* grant_type password: a session begins.
PasswordGrant(u, t) ==
    /\ u # Service
    /\ Issue(u, t, t)
    /\ open' = [open EXCEPT ![t] = TRUE]

\* Faulty variant: a refresh token outlives its session.
RefreshOffline(t, fresh) ==
    /\ token[t].user # Service
    /\ Issue(token[t].user, fresh, token[t].session)

\* grant_type refresh_token: while the session is open.
RefreshGrant(t, fresh) ==
    /\ token[t].user # Service
    /\ open[token[t].session]
    /\ Issue(token[t].user, fresh, token[t].session)

\* grant_type client_credentials: a token of the service, nothing to refresh.
ClientCredentials(t) ==
    /\ Issue(Service, t, t)
    /\ open' = [open EXCEPT ![t] = TRUE]

\* validateToken: a token is decoded here and its exp compared; one that has
\* expired is introspected, and Keycloak answers that it is not active.
Decodes(t) == now <= token[t].exp

\* logout: Keycloak ends the session of a refresh token.
EndSession(t) ==
    /\ open' = [open EXCEPT ![token[t].session] = FALSE]
    /\ closed' = [closed EXCEPT ![token[t].session] = now]

\* An administrator gives a user the role or takes it away.
ChangeRole(u) ==
    /\ u # Service
    /\ changes < MaxChanges /\ question = "permission"
    /\ changes' = changes + 1 /\ question' = question
    /\ role' = [role EXCEPT ![u] = ~ @]
    /\ lost' = [lost EXCEPT ![u][role[u]] = now]
    /\ UNCHANGED <<now, token, open, closed, caches, calls>>

----------------------------------------------------------------------------
(* AuthService: tokens.                                                    *)

\* login: no verdict is cached, and no session is recorded in Redis.
Login(u, t) ==
    /\ PasswordGrant(u, t)
    /\ UNCHANGED <<now, role, lost, closed, caches, calls, bounds>>

\* refreshToken.
Refresh(t, fresh) ==
    /\ t \in Issued
    /\ RefreshGrant(t, fresh)
    /\ UNCHANGED <<now, role, lost, open, closed, caches, calls, bounds>>

\* getClientCredentialsToken.
ServiceToken(t) ==
    /\ ClientCredentials(t)
    /\ UNCHANGED <<now, role, lost, closed, caches, calls, bounds>>

\* logout.  Keycloak takes a refresh token, and refuses an access token: the
\* error is logged.  invalidateTokenCache is empty, and no session of Redis
\* is there to close.
Logout(t) ==
    /\ t \in Issued
    /\ \/ /\ token[t].user # Service /\ open[token[t].session]
          /\ question = "validity"
          /\ EndSession(t)
       \/ UNCHANGED <<open, closed>>
    /\ UNCHANGED <<now, role, lost, token, caches, calls, bounds>>

----------------------------------------------------------------------------
(* AuthService: the validation of a token.  A call is in the model from    *)
(* the moment Redis has answered whether a verdict is cached.              *)

Enter(c, call) ==
    /\ calls[c] = Idle
    /\ calls' = [calls EXCEPT ![c] = call]

\* The verdict on a token that decodes is on its way to the cache.
Storing(t) == [stage |-> "storing", token |-> t, since |-> now]

\* Faulty variant: a verdict that is read is cached anew.
ValidateSliding(c, t) ==
    /\ question = "validity"
    /\ t \in Issued
    /\ \/ Readable(verdicts[t]) /\ Enter(c, Storing(t))
       \/ Decodes(t) /\ Enter(c, Storing(t))
       \/ ~ Decodes(t) /\ Enter(c, Idle)
    /\ UNCHANGED <<now, keycloak, caches, bounds>>

\* validateToken: the cached verdict if there is one (getCachedTokenValidation
\* takes an error of Redis for none), and else that of the Keycloak client.
\* The answer that a token is not valid ends the call.
ValidateToken(c, t) ==
    /\ question = "validity"
    /\ t \in Issued
    /\ \/ Readable(verdicts[t]) /\ Enter(c, Answered("valid", t))
       \/ Decodes(t) /\ Enter(c, Storing(t))
       \/ ~ Decodes(t) /\ Enter(c, Idle)
    /\ UNCHANGED <<now, keycloak, caches, bounds>>

\* cacheTokenValidation: an error of Redis is logged, and the answer is given.
CacheVerdict(c) ==
    LET call == calls[c] IN
    /\ call.stage = "storing"
    /\ verdicts' \in {verdicts, 
           [verdicts EXCEPT ![call.token] = ExpiresAt(call.since, CacheTTL)]}
    /\ calls' = [calls EXCEPT ![c] = Answered("valid", call.token)]
    /\ UNCHANGED <<now, keycloak, decisions, bounds>>

----------------------------------------------------------------------------
(* AuthService: checkPermissionDetailed.                                   *)

\* The token is decoded, and not looked up: one that has ended is an error,
\* and the answer to every error is a refusal, which tells nothing of the
\* user and ends the call.
CheckPermission(c, t) ==
    /\ question = "permission"
    /\ t \in Issued
    /\ Enter(c, IF Decodes(t)
                THEN [stage |-> "looking", token |-> t, since |-> now]
                ELSE Idle)
    /\ UNCHANGED <<now, keycloak, caches, bounds>>

Decided(allow) == IF allow THEN "allowed" ELSE "refused"

\* Faulty variant: the user is left out of the key.
LookUpAnyDecision(c) ==
    LET call == calls[c] IN
    /\ call.stage = "looking"
    /\ \/ \E u \in Users :
             /\ Readable(decisions[u].until)
             /\ calls' = [calls EXCEPT ![c] =
                    Answered(Decided(decisions[u].allow), call.token)]
       \/ calls' = [calls EXCEPT ![c].stage = "deciding"]
    /\ UNCHANGED <<now, keycloak, caches, bounds>>

\* getCachedAuthorizationResult: the decision is cached by user, resource and
\* action; an error of Redis is taken for none.
LookUpDecision(c) ==
    LET call == calls[c]
        cached == decisions[token[call.token].user] IN
    /\ call.stage = "looking"
    /\ \/ /\ Readable(cached.until)
          /\ calls' = [calls EXCEPT ![c] = Answered(Decided(cached.allow), call.token)]
       \/ calls' = [calls EXCEPT ![c].stage = "deciding"]
    /\ UNCHANGED <<now, keycloak, caches, bounds>>

\* OPAClient.checkPermission: its own cache is keyed by the whole input, with
\* the date to the millisecond, and is never hit; the policy is asked, and
\* looks at the roles in the token.
Policy(t) == token[t].role

\* The decision is cached, or is not, an error of Redis being logged, and
\* answered; an error of the policy engine is one more refusal.
Decide(c) ==
    LET call == calls[c]
        user == token[call.token].user
        decision == [until |-> ExpiresAt(now, DecisionTTL), allow |-> Policy(call.token)] IN
    /\ call.stage = "deciding"
    /\ \/ /\ decisions' \in {decisions, [decisions EXCEPT ![user] = decision]}
          /\ calls' = [calls EXCEPT ![c] = Answered(Decided(decision.allow), call.token)]
       \/ /\ calls' = [calls EXCEPT ![c] = Idle]
          /\ UNCHANGED decisions
    /\ UNCHANGED <<now, keycloak, verdicts, bounds>>

----------------------------------------------------------------------------
(* AuthService of mu-auth, which the routes call.                          *)

\* login, refreshToken and logout: an event each, and the call of the library.
\* An error of logout is swallowed.
Sessions ==
    \/ \E u \in Users, t \in Tokens : Login(u, t)
    \/ \E t, fresh \in Tokens : Refresh(t, fresh)
    \/ \E t \in Tokens : Logout(t)

\* completeMFALogin: what a verified challenge earns is a token of the service.
CompleteMFALogin(t) == ServiceToken(t)

\* getApplicationToken: the grant is made to the application's own client, and
\* its token is, like the service's, of no user.  storeApplicationToken and
\* updateApplicationToken store nothing.
ApplicationToken(t) == ServiceToken(t)

\* authenticateApp: for an application that is listed.
AuthenticateApp(t) == ApplicationToken(t)

\* refreshApplicationAccessToken: of whichever session the token is; one that
\* is of no user has none to refresh, and is refused.
RefreshApp(t, fresh) == Refresh(t, fresh)

\* logoutApp: an event is logged.
LogoutApp(t) == t \in Issued /\ UNCHANGED vars

\* validateApplicationToken: any token that is valid is an application's.
ValidateApp(c, t) == ValidateToken(c, t)

\* checkPermission and checkPermissionDetailed.
Permissions(c) == \E t \in Tokens : CheckPermission(c, t)

----------------------------------------------------------------------------
(* The routes: AuthController over REST, and AuthResolver over GraphQL.    *)

SessionRoutes == Sessions

MFARoute == \E t \in Tokens : CompleteMFALogin(t)

AdminTokenRoute == \E t \in Tokens : ServiceToken(t)

\* validate, and validate-enriched, which gives the user's data beside it.
ValidationRoutes(c) == \E t \in Tokens : ValidateToken(c, t)

PermissionRoute(c) == Permissions(c)

ApplicationRoutes ==
    \/ \E t \in Tokens : AuthenticateApp(t)
    \/ \E t, fresh \in Tokens : RefreshApp(t, fresh)
    \/ \E t \in Tokens : LogoutApp(t)

SessionMutations == Sessions \/ \E t \in Tokens : ServiceToken(t)

MFAMutation == \E t \in Tokens : CompleteMFALogin(t)

ValidationQueries(c) == \E t \in Tokens : ValidateToken(c, t)

PermissionQuery(c) == Permissions(c)

ApplicationMutations ==
    \/ \E t \in Tokens : AuthenticateApp(t)
    \/ \E t, fresh \in Tokens : RefreshApp(t, fresh)
    \/ \E t \in Tokens : LogoutApp(t)

ApplicationValidation(c) == \E t \in Tokens : ValidateApp(c, t)

REST(c) == ValidationRoutes(c) \/ PermissionRoute(c) \/ ApplicationValidation(c)
GraphQL(c) == ValidationQueries(c) \/ PermissionQuery(c)
Grants ==
    \/ SessionRoutes \/ MFARoute \/ AdminTokenRoute \/ ApplicationRoutes
    \/ SessionMutations \/ MFAMutation \/ ApplicationMutations

----------------------------------------------------------------------------
\* The caller has its answer.
Return(c) ==
    /\ calls[c].stage \in {"valid", "allowed", "refused"}
    /\ calls' = [calls EXCEPT ![c] = Idle]
    /\ UNCHANGED <<now, keycloak, caches, bounds>>

\* An entry of Redis that is past its time.
Kept(until) == IF until < now + 1 THEN Never ELSE until

Working(call) == call.stage \in {"storing", "looking", "deciding"}

\* Time passes, and not while a call is in progress that has lasted Lag.
Tick ==
    /\ now < MaxTime
    /\ \A c \in Calls : Working(calls[c]) => now < calls[c].since + Lag
    /\ now' = now + 1
    /\ verdicts' = [t \in Tokens |-> Kept(verdicts[t])]
    /\ decisions' = [u \in Users |->
           IF decisions[u].until < now + 1 THEN NoDecision ELSE decisions[u]]
    /\ UNCHANGED <<keycloak, calls, bounds>>

Init ==
    /\ now = 0
    /\ role \in {r \in [Users -> BOOLEAN] : ~ r[Service]}
    /\ lost = [u \in Users |-> [b \in BOOLEAN |-> LongAgo]]
    /\ token = [t \in Tokens |-> None]
    /\ open = [t \in Tokens |-> FALSE]
    /\ closed = [t \in Tokens |-> LongAgo]
    /\ verdicts = [t \in Tokens |-> Never]
    /\ decisions = [u \in Users |-> NoDecision]
    /\ calls = [c \in Calls |-> Idle]
    /\ changes = 0
    /\ question \in Questions

Step(c) == CacheVerdict(c) \/ LookUpDecision(c) \/ Decide(c) \/ Return(c)

Next ==
    \/ Grants
    \/ \E c \in Calls : REST(c) \/ GraphQL(c) \/ Step(c)
    \/ \E u \in Users : ChangeRole(u)
    \/ Tick

Spec == Init /\ [][Next]_vars

----------------------------------------------------------------------------
(* Properties.                                                             *)

TypeOK ==
    /\ now \in Time
    /\ role \in [Users -> BOOLEAN]
    /\ lost \in [Users -> [BOOLEAN -> Int]]
    /\ token \in [Tokens -> TokenData \cup {None}]
    /\ open \in [Tokens -> BOOLEAN]
    /\ closed \in [Tokens -> Int]
    /\ verdicts \in [Tokens -> Int]
    /\ decisions \in [Users -> Decision]
    /\ calls \in [Calls -> Call]
    /\ changes \in Nat /\ question \in Questions

\* The answers under way.
Told(answer) == {calls[c].token : c \in {d \in Calls : calls[d].stage = answer}}
ToldValid == Told("valid")

\* When each token was last valid: Keycloak has issued it and it has not ended.
LastValid == [t \in Tokens |->
    IF token[t] = None THEN LongAgo
    ELSE IF token[t].exp < now THEN token[t].exp ELSE now]

\* validateToken answers that a token is valid while it is, and not longer
\* than cacheExpiry after it ended.
Validity == INSTANCE Freshness WITH
    Claims <- Tokens, Window <- CacheTTL, held <- LastValid, told <- ToldValid
ValidityIsFresh == Validity!Spec

\* When each session was last open.
LastOpen == [t \in Tokens |-> IF open[t] THEN now ELSE closed[t]]
ToldOpen == {token[t].session : t \in ToldValid}

\* A user who has left is taken for present, on the tokens of the session he
\* closed, for the life of a token and cacheExpiry, and not longer: nothing
\* that logout does shortens it, and no refresh prolongs it.
Presence == INSTANCE Freshness WITH
    Claims <- Tokens, Window <- Life + CacheTTL, held <- LastOpen, told <- ToldOpen
PresenceIsFresh == Presence!Spec

\* When each user last had the role, and last did not have it.
Claims == Users \X BOOLEAN
LastHad == [k \in Claims |-> IF role[k[1]] = k[2] THEN now ELSE lost[k[1]][k[2]]]
ToldAllowed ==
    {<<token[t].user, TRUE>> : t \in Told("allowed")}
    \cup {<<token[t].user, FALSE>> : t \in Told("refused")}

\* checkPermission answers, of the user of the token it is sent, what the
\* policy says of his role now or at an instant in the last Life, of the
\* token, and 300 seconds, of the cached decision, and the time of a call.
Permission == INSTANCE Freshness WITH
    Claims <- Claims, Window <- Life + Lag + DecisionTTL,
    held <- LastHad, told <- ToldAllowed
PermissionIsFresh == Permission!Spec
=============================================================================
