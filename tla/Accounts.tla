------------------------------ MODULE Accounts ------------------------------
(***************************************************************************)
(* The accounts of users, as the service reaches them: through the admin   *)
(* API of Keycloak, with an admin token that KeycloakClient keeps, and a   *)
(* cache in Redis of what it learnt of each user.  Registration and the    *)
(* changes of an account, what is told of a user, and the sessions that    *)
(* mu-auth keeps in an encrypted cookie.                                   *)
(*                                                                         *)
(* A call takes one step for every request it waits for.  Keycloak may be  *)
(* out of reach for a time, and accounts may be deleted in it.  A user of  *)
(* whom Keycloak says nothing is made up, with no roles and his id for a   *)
(* name, is cached like any other, and copied to PostgreSQL.  Who is asked *)
(* for by the id of his row there is told from the row, and from nothing   *)
(* else.                                                                   *)
(***************************************************************************)
EXTENDS Integers

CONSTANTS
    Users,
    Cookies,      \* browsers, each with one session cookie
    Calls,        \* calls in progress
    None,
    AdminLife,    \* expires_in of an admin token
    Margin,       \* 60 seconds, by which an admin token is given up early
    CacheTTL,     \* cacheExpiry: 3600 seconds
    SessionTTL,   \* 24 hours
    Lag,          \* the longest a call waits for one answer: the time-out of requests
                  \* to Keycloak, and as much for a command of Redis
    Clients       \* bound: who calls in one behaviour, for how many instants, and with
                  \* how many outages of Keycloak and deletions of accounts:
                  \* "applicants", by the routes that register or change an account,
                  \* "applications", by those that ask for users, or "browsers", by
                  \* those of sessions

ASSUME TimesAssumption ==
    /\ AdminLife \in Nat /\ Margin \in Nat /\ CacheTTL \in Nat
    /\ SessionTTL \in Nat /\ Lag \in Nat
\* Ten seconds (KEYCLOAK_TIMEOUT) against sixty, and against the life of a token that was
\* just granted: a call that makes one request with its admin token makes it in time.
ASSUME MarginAssumption == 2 * Lag <= Margin
ASSUME LifeAssumption == 2 * Lag < AdminLife
ASSUME BoundsAssumption ==
    Clients \subseteq [who : {"applicants", "applications", "browsers"}, time : Nat, faults : Nat]

VARIABLES
    now,
    exists,   \* Keycloak: whether each user has an account
    up,       \* Keycloak answers
    seen, missed, down,  \* when each user last had an account, and had none, and
                         \* when Keycloak was last out of reach
    admin,    \* adminTokenCache of KeycloakClient
    infos,    \* Redis, auth:user:info: what is cached of each user
    rows,     \* PostgreSQL, users: the row of each user's id of Keycloak
    cookies,  \* the session in each browser's cookie
    calls,    \* the calls in progress
    faults,   \* bound
    clients   \* bound: who calls

keycloak == <<exists, up, seen, missed, down>>
bounds == <<faults, clients>>
vars == <<now, keycloak, admin, infos, rows, cookies, calls, bounds>>

Never == -1
LongAgo == -(4 * Lag + CacheTTL) - 1

InfoOps == {"info", "session", "validate"}
Ops == InfoOps \cup {"token", "register", "reset", "change"}
Kinds == {"real", "made"}
ASSUME NoneAssumption == None \notin Users \cup Cookies \cup Kinds

\* The id a user is asked for by: that of the account, or of the row in PostgreSQL.
Names == {"account", "row"}

\* What a call waits for: an admin token, while it is asked of Keycloak and when
\* Keycloak has granted it; a request made with one; Redis.  At last it has told what
\* it knows of a user, or that a session is valid.
Stages == {"idle", "fetching", "granted", "asking", "storing", "told", "valid"}

\* What the admin token is for, or the request that goes with it: registerUser takes one
\* for itself, "own", and makes six requests, of which the first two take one each again.
Goals == {"none", "user", "introspect", "own", "email", "name", "create",
          "roles", "assign", "mail", "change"}

Call == [op : Ops \cup {"none"}, stage : Stages, goal : Goals, user : Users \cup {None},
         cookie : Cookies \cup {None}, since : Nat,
         held : Int,                      \* when the admin token of the request ends
         own : Int,                       \* when that of registerUser does
         kind : Kinds \cup {"none"}, by : Names \cup {"none"}]

Idle == [op |-> "none", stage |-> "idle", goal |-> "none", user |-> None, cookie |-> None,
         since |-> 0, held |-> Never, own |-> Never, kind |-> "none", by |-> "none"]

\* A call that begins now, and one that has told of a user, or of a session.
Calling(op, u, k) == [Idle EXCEPT !.op = op, !.user = u, !.cookie = k]
Telling(u, kind, by) == [Idle EXCEPT !.stage = "told", !.user = u, !.kind = kind, !.by = by]
Valid(k) == [Idle EXCEPT !.stage = "valid", !.cookie = k]

NoInfo == [until |-> Never, kind |-> "made"]
NoAdmin == [until |-> Never, exp |-> Never]

\* getCache: an entry past its expiresAt is not returned.
Readable(until) == now <= until

----------------------------------------------------------------------------
(* Keycloak.  It decides a request at some instant between its sending and  *)
(* its answer: what it answers was so at one of them.                       *)

\* When a user last had an account, and last had none; when it was last out of reach.
LastSeen(u) == IF exists[u] THEN now ELSE seen[u]
LastMissed(u) == IF exists[u] THEN missed[u] ELSE now
LastOut == IF up THEN down ELSE now

\* When a claim of a user was last true: that he has an account, or that Keycloak
\* could not say so, being out of reach or having none.
Claims == Users \X Kinds
LastTrue == [k \in Claims |->
    IF k[2] = "real" THEN LastSeen(k[1])
    ELSE IF LastMissed(k[1]) < LastOut THEN LastOut ELSE LastMissed(k[1])]

\* A request, sent with a token that had not ended, may have been heard; one may have
\* been lost, or refused because its token had ended.
Heard(call) == up /\ call.since < call.held
Lost(call) == call.since <= LastOut
Refused(call) == Lost(call) \/ call.held <= now

----------------------------------------------------------------------------
(* KeycloakClient.                                                         *)

\* Faulty variant: the sixty seconds are forgotten.
AdminReceivedLate(exp) == [until |-> now + AdminLife, exp |-> exp]

\* The token is cached when it arrives, for expires_in counted from then.
AdminReceived(exp) == [until |-> now + AdminLife - Margin, exp |-> exp]

\* A request begins now, with an admin token in hand.
Asking(call, goal, exp) ==
    [call EXCEPT !.stage = "asking", !.goal = goal, !.since = now, !.held = exp]

\* getAdminToken: a call takes the token in the cache, until that is given up, or asks
\* Keycloak for one.
TakeToken(call, goal, cache) ==
    IF now < cache.until THEN Asking(call, goal, cache.exp)
    ELSE [call EXCEPT !.stage = "fetching", !.goal = goal, !.since = now, !.held = Never]

\* registerUser has its token: getUserByEmail takes one again.
Registering(call, exp, cache) == TakeToken([call EXCEPT !.own = exp], "email", cache)

\* What is learnt of a user is on its way to the cache.
Learnt(call, kind) ==
    [call EXCEPT !.stage = "storing", !.goal = "none", !.since = now, !.held = Never, !.kind = kind]

\* getUserInfo without the user's data has the admin token introspected, for which it
\* takes one again.  It is never the user's, and at last the user is made up.
Fallback(call) ==
    IF call.goal = "user" THEN TakeToken(call, "introspect", admin) ELSE Learnt(call, "made")

\* Keycloak grants a token, which lives from now,
Grant(c) ==
    /\ calls[c].stage = "fetching"
    /\ up
    /\ calls' = [calls EXCEPT ![c] = [@ EXCEPT !.stage = "granted", !.held = now + AdminLife]]
    /\ UNCHANGED <<now, keycloak, admin, infos, rows, cookies, bounds>>

\* and it arrives, and replaces what another call may have cached meanwhile.
ReceiveToken(c) ==
    LET call == calls[c]  received == AdminReceived(call.held) IN
    /\ call.stage = "granted"
    /\ admin' = received
    /\ calls' = [calls EXCEPT ![c] =
           IF call.goal = "own" THEN Registering(call, call.held, received)
           ELSE Asking(call, call.goal, call.held)]
    /\ UNCHANGED <<now, keycloak, infos, rows, cookies, bounds>>

\* No token arrives.  Nothing that needs one goes on, but for getUserInfo.
LoseToken(c) ==
    LET call == calls[c] IN
    /\ call.stage \in {"fetching", "granted"}
    /\ Lost(call)
    /\ calls' = [calls EXCEPT ![c] = IF call.op \in InfoOps THEN Fallback(call) ELSE Idle]
    /\ UNCHANGED <<now, keycloak, admin, infos, rows, cookies, bounds>>

Asks(c, goal) == calls[c].stage = "asking" /\ calls[c].goal = goal

\* getUserInfo: the user's data,
AskForUser(c) ==
    LET call == calls[c] IN
    /\ Asks(c, "user")
    /\ \/ /\ Heard(call) /\ call.since <= LastSeen(call.user)
          /\ calls' = [calls EXCEPT ![c] = Learnt(call, "real")]
       \/ /\ Refused(call) \/ call.since <= LastMissed(call.user)
          /\ calls' = [calls EXCEPT ![c] = Fallback(call)]
    /\ UNCHANGED <<now, keycloak, admin, infos, rows, cookies, bounds>>

\* and without them an introspection, whose answer makes no difference.
Introspect(c) ==
    /\ Asks(c, "introspect")
    /\ calls' = [calls EXCEPT ![c] = Fallback(calls[c])]
    /\ UNCHANGED <<now, keycloak, admin, infos, rows, cookies, bounds>>

\* getUserByEmail, for registerUser, which goes on if there is nobody, and for
\* resetPassword, which goes on if there is somebody.
LookUpEmail(c) ==
    LET call == calls[c] IN
    /\ Asks(c, "email")
    /\ \/ /\ Heard(call) /\ call.op = "register" /\ call.since <= LastMissed(call.user)
          /\ calls' = [calls EXCEPT ![c] = TakeToken(call, "name", admin)]
       \/ /\ Heard(call) /\ call.op = "reset" /\ call.since <= LastSeen(call.user)
          /\ calls' = [calls EXCEPT ![c] = TakeToken(call, "change", admin)]
       \/ /\ \/ Refused(call)
             \/ call.op = "register" /\ call.since <= LastSeen(call.user)
             \/ call.op = "reset" /\ call.since <= LastMissed(call.user)
          /\ calls' = [calls EXCEPT ![c] = Idle]
    /\ UNCHANGED <<now, keycloak, admin, infos, rows, cookies, bounds>>

\* getUserByUsername.  The creation goes with the token registerUser took first.
LookUpName(c) ==
    LET call == calls[c] IN
    /\ Asks(c, "name")
    /\ \/ /\ Heard(call) /\ call.since <= LastMissed(call.user)
          /\ calls' = [calls EXCEPT ![c] =
                 Asking([call EXCEPT !.own = Never], "create", call.own)]
       \/ /\ Refused(call) \/ call.since <= LastSeen(call.user)
          /\ calls' = [calls EXCEPT ![c] = Idle]
    /\ UNCHANGED <<now, keycloak, admin, infos, rows, cookies, bounds>>

\* The account is created, if nobody has created it since the look-ups.  The answer may
\* still be lost.
CreateAccount(c) ==
    LET call == calls[c]  u == call.user IN
    /\ Asks(c, "create")
    /\ \/ /\ up /\ now < call.held /\ ~ exists[u]
          /\ exists' = [exists EXCEPT ![u] = TRUE]
          /\ missed' = [missed EXCEPT ![u] = now]
          /\ calls' \in {[calls EXCEPT ![c] = Asking(call, "roles", call.held)],
                        [calls EXCEPT ![c] = Idle]}
       \/ /\ Refused(call) \/ call.since <= LastSeen(u)
          /\ calls' = [calls EXCEPT ![c] = Idle]
          /\ UNCHANGED <<exists, missed>>
    /\ UNCHANGED <<now, up, seen, down, admin, infos, rows, cookies, bounds>>

\* syncUserToPostgres, in the background: a row is created of what is known of
\* the user, unless there is one of his id, or, as the email addresses of rows
\* are unique, another of a user who was made up and has none.  An error is logged.
Copied(u, kind) ==
    IF rows[u] = None /\ ~ (kind = "made" /\ \E v \in Users : rows[v] = "made")
    THEN [rows EXCEPT ![u] = kind] ELSE rows

\* assignDefaultRoles and sendVerificationEmail: the roles are asked for and assigned,
\* and the email is sent unless the address is verified; errors are swallowed.  Who is
\* registered is copied to PostgreSQL.
Equip(c) ==
    LET call == calls[c]
        next == CASE call.goal = "roles" -> {"assign", "mail"}
                  [] call.goal = "assign" -> {"mail"}
                  [] OTHER -> {} IN
    /\ call.stage = "asking" /\ call.goal \in {"roles", "assign", "mail"}
    /\ \/ \E goal \in next :
             /\ goal = "assign" => Heard(call)
             /\ calls' = [calls EXCEPT ![c] = Asking(call, goal, call.held)]
             /\ UNCHANGED rows
       \/ /\ calls' = [calls EXCEPT ![c] = Idle]
          /\ rows' \in {rows, Copied(call.user, "real")}
    /\ UNCHANGED <<now, keycloak, admin, infos, cookies, bounds>>

\* verifyEmail, resetPassword, changePassword: the request that changes the account,
\* which the model follows no further.
Change(c) ==
    /\ Asks(c, "change")
    /\ calls' = [calls EXCEPT ![c] = Idle]
    /\ UNCHANGED <<now, keycloak, admin, infos, rows, cookies, bounds>>

----------------------------------------------------------------------------
(* AuthService: what is told of a user, and SessionService, which asks it. *)

Enter(c, call) ==
    /\ calls[c] = Idle
    /\ calls' = [calls EXCEPT ![c] = call]

\* encryptSessionToCookie: the session in the cookie ends SessionTTL from now.
Cookie(u, by) == [user |-> u, by |-> by, expires |-> now + SessionTTL]

\* What a call does once it knows of the user: getUserInfo tells it,
\* createSession and refreshSession write the cookie, and validateSession,
\* which only asks whether anything is known, answers that the session is valid.
Finish(c, call, kind, by) ==
    /\ calls' = [calls EXCEPT ![c] = CASE
           call.op = "info" -> Telling(call.user, kind, by)
           [] call.op = "validate" -> Valid(call.cookie)
           [] OTHER -> Idle]
    /\ cookies' = IF call.op = "session"
                  THEN [cookies EXCEPT ![call.cookie] = Cookie(call.user, by)]
                  ELSE cookies

\* What was told of an account is copied.
Copies(call, kind) ==
    rows' \in {rows} \cup IF call.op \in InfoOps THEN {Copied(call.user, kind)} ELSE {}

\* getUserInfo of mu-auth asks PostgreSQL first, by the id of a row, and tells the row,
\* however old it is.  Where PostgreSQL does not answer, that id is asked for like any
\* other that is of no account.
TellRow(c, op, u, k) ==
    /\ calls[c] = Idle
    /\ rows[u] # None
    /\ Finish(c, Calling(op, u, k), rows[u], "row")
    /\ UNCHANGED <<now, keycloak, admin, infos, rows, bounds>>

\* Faulty variant: what is read from the cache is cached anew.
AskUserInfoSliding(c, op, u, k) ==
    LET call == Calling(op, u, k) IN
    /\ \/ /\ Readable(infos[u].until) /\ calls[c] = Idle
          /\ Finish(c, call, infos[u].kind, "account") /\ Copies(call, infos[u].kind)
          /\ infos' = [infos EXCEPT ![u].until = now + CacheTTL]
       \/ Enter(c, TakeToken(call, "user", admin)) /\ UNCHANGED <<rows, cookies, infos>>
    /\ UNCHANGED <<now, keycloak, admin, bounds>>

\* getUserInfo by the id of an account: from the cache, or from Keycloak by way of an
\* admin token; an error of Redis is taken for an empty cache.
AskUserInfo(c, op, u, k) ==
    LET call == Calling(op, u, k) IN
    /\ \/ /\ Readable(infos[u].until) /\ calls[c] = Idle
          /\ Finish(c, call, infos[u].kind, "account") /\ Copies(call, infos[u].kind)
       \/ Enter(c, TakeToken(call, "user", admin)) /\ UNCHANGED <<rows, cookies>>
    /\ UNCHANGED <<now, keycloak, admin, infos, bounds>>

AskInfo(c, op, u, by, k) ==
    IF by = "row" THEN TellRow(c, op, u, k) ELSE AskUserInfo(c, op, u, k)

\* cacheUserInfo: an error of Redis is logged.
StoreInfo(c) ==
    LET call == calls[c]
        info == [until |-> now + CacheTTL, kind |-> call.kind] IN
    /\ call.stage = "storing"
    /\ infos' \in {infos, [infos EXCEPT ![call.user] = info]}
    /\ Finish(c, call, call.kind, "account") /\ Copies(call, call.kind)
    /\ UNCHANGED <<now, keycloak, admin, bounds>>

\* refreshToken: Keycloak has answered for an account in the last Lag, and what the new
\* token says of its user is cached.
RefreshToken(c, u) ==
    /\ up /\ now <= LastSeen(u) + Lag
    /\ Enter(c, Learnt(Calling("token", u, None), "real"))
    /\ UNCHANGED <<now, keycloak, admin, infos, rows, cookies, bounds>>

\* createSession.
CreateSession(c, u, by, k) == AskInfo(c, "session", u, by, k)

\* decryptCookieToSession and validateSession: the session in the cookie has
\* not ended.
Alive(k) == cookies[k] # None /\ now <= cookies[k].expires

ValidateSession(c, k) == Alive(k) /\ AskInfo(c, "validate", cookies[k].user, cookies[k].by, k)

\* The route refreshes a session it finds valid.  Neither the user's data nor
\* the age of the session are looked at again.
RefreshSession(c, k) == Alive(k) /\ AskInfo(c, "session", cookies[k].user, cookies[k].by, k)

\* logout and logoutAll: invalidateSession and invalidateAllUserSessions do
\* nothing; the browser forgets its cookie.
EndSession(k) ==
    /\ cookies' = [cookies EXCEPT ![k] = None]
    /\ UNCHANGED <<now, keycloak, admin, infos, rows, calls, bounds>>

----------------------------------------------------------------------------
(* AuthService of mu-auth and its routes.                                  *)

\* registerUser: what is checked before, the form of the data and whether
\* registration is open, refuses or does not.
RegisterUser(c, u) ==
    LET call == Calling("register", u, None) IN
    /\ Enter(c, IF now < admin.until THEN Registering(call, admin.exp, admin)
                ELSE TakeToken(call, "own", admin))
    /\ UNCHANGED <<now, keycloak, admin, infos, rows, cookies, bounds>>

\* verifyEmail and changePassword; resendVerificationEmail of AuthService does nothing.
ChangeAccount(c, u) ==
    /\ Enter(c, TakeToken(Calling("change", u, None), "change", admin))
    /\ UNCHANGED <<now, keycloak, admin, infos, rows, cookies, bounds>>

ResetPassword(c, u) ==
    /\ Enter(c, TakeToken(Calling("reset", u, None), "email", admin))
    /\ UNCHANGED <<now, keycloak, admin, infos, rows, cookies, bounds>>

GetUserInfo(c, u, by) == AskInfo(c, "info", u, by, None)

RegistrationRoutes(c) ==
    \E u \in Users : RegisterUser(c, u) \/ ChangeAccount(c, u) \/ ResetPassword(c, u)

UserRoute(c) == \E u \in Users, by \in Names : GetUserInfo(c, u, by)

\* SessionController: create, validate, refresh, and logout, which first
\* validates the session and then does nothing with the answer.
SessionController(c) ==
    \E k \in Cookies :
        \/ \E u \in Users, by \in Names : CreateSession(c, u, by, k)
        \/ ValidateSession(c, k)
        \/ RefreshSession(c, k)
        \/ EndSession(k)

RegistrationMutations(c) ==
    \E u \in Users : RegisterUser(c, u) \/ ChangeAccount(c, u) \/ ResetPassword(c, u)

UserQuery(c) == \E u \in Users, by \in Names : GetUserInfo(c, u, by)

----------------------------------------------------------------------------
\* The caller has its answer.
Return(c) ==
    /\ calls[c].stage \in {"told", "valid"}
    /\ calls' = [calls EXCEPT ![c] = Idle]
    /\ UNCHANGED <<now, keycloak, admin, infos, rows, cookies, bounds>>

\* An administrator deletes an account.
DeleteAccount(u) ==
    /\ faults < clients.faults /\ exists[u]
    /\ exists' = [exists EXCEPT ![u] = FALSE]
    /\ seen' = [seen EXCEPT ![u] = now]
    /\ faults' = faults + 1
    /\ UNCHANGED <<now, up, missed, down, admin, infos, rows, cookies, calls, clients>>

Outage ==
    /\ faults < clients.faults /\ up
    /\ up' = FALSE /\ faults' = faults + 1
    /\ UNCHANGED <<now, exists, seen, missed, down, admin, infos, rows, cookies, calls, clients>>

Recovery ==
    /\ ~ up
    /\ up' = TRUE /\ down' = now
    /\ UNCHANGED <<now, exists, seen, missed, admin, infos, rows, cookies, calls, bounds>>

Working(call) == call.stage \in {"fetching", "granted", "asking", "storing"}

\* Time passes, and not while a call has waited Lag for an answer.  What
\* is past its time counts for nothing, and a browser drops the cookie.
Tick ==
    /\ now < clients.time
    /\ \A c \in Calls : Working(calls[c]) => now < calls[c].since + Lag
    /\ now' = now + 1
    /\ infos' = [u \in Users |-> IF infos[u].until < now + 1 THEN NoInfo ELSE infos[u]]
    /\ cookies' = [k \in Cookies |->
           IF cookies[k] # None /\ cookies[k].expires < now + 1 THEN None ELSE cookies[k]]
    /\ admin' = IF admin.until <= now + 1 THEN NoAdmin ELSE admin
    /\ UNCHANGED <<keycloak, rows, calls, bounds>>

Init ==
    /\ now = 0
    /\ exists \in [Users -> BOOLEAN]
    /\ up = TRUE
    /\ seen = [u \in Users |-> LongAgo]
    /\ missed = [u \in Users |-> LongAgo]
    /\ down = LongAgo
    /\ admin = NoAdmin
    /\ infos = [u \in Users |-> NoInfo]
    /\ rows = [u \in Users |-> None]
    /\ cookies = [k \in Cookies |-> None]
    /\ calls = [c \in Calls |-> Idle]
    /\ faults = 0
    /\ clients \in Clients

Routes(c) ==
    \/ clients.who = "applicants" /\ (RegistrationRoutes(c) \/ RegistrationMutations(c))
    \/ /\ clients.who = "applications"
       /\ UserRoute(c) \/ UserQuery(c) \/ \E u \in Users : RefreshToken(c, u)
    \/ clients.who = "browsers" /\ SessionController(c)

Step(c) ==
    \/ Grant(c) \/ ReceiveToken(c) \/ LoseToken(c)
    \/ AskForUser(c) \/ Introspect(c)
    \/ LookUpEmail(c) \/ LookUpName(c) \/ CreateAccount(c) \/ Equip(c) \/ Change(c)
    \/ StoreInfo(c) \/ Return(c)

Next ==
    \/ \E c \in Calls : Routes(c) \/ Step(c)
    \/ \E u \in Users : DeleteAccount(u)
    \/ Outage \/ Recovery \/ Tick

Spec == Init /\ [][Next]_vars

----------------------------------------------------------------------------
(* Properties.                                                             *)

Info == [until : Int, kind : Kinds]
CookieData == [user : Users, by : Names, expires : Int]

TypeOK ==
    /\ now \in Nat
    /\ exists \in [Users -> BOOLEAN] /\ up \in BOOLEAN
    /\ seen \in [Users -> Int] /\ missed \in [Users -> Int] /\ down \in Int
    /\ admin \in [until : Int, exp : Int]
    /\ infos \in [Users -> Info]
    /\ rows \in [Users -> Kinds \cup {None}]
    /\ cookies \in [Cookies -> CookieData \cup {None}]
    /\ calls \in [Calls -> Call]
    /\ faults \in Nat /\ clients \in Clients

\* How many waits a token may have been through when the request it goes with ends,
\* since getAdminToken gave it; and whether its sixty seconds are worth so many, with
\* one more for the wait in which it was granted.
Waits(goal) ==
    CASE goal = "create" -> 5 [] goal = "roles" -> 6 [] goal = "assign" -> 7
      [] goal = "mail" -> 8 [] OTHER -> 1
Covered(n) == (n + 1) * Lag <= Margin /\ (n + 1) * Lag < AdminLife

\* getAdminToken gives a token up sixty seconds before it ends, counted from when it
\* arrived.  As far as they cover the waits between, and whatever other calls fetch and
\* cache meanwhile, no request is under way with a token that has ended; with the
\* time-out of ten seconds they cover all but the last three of a registration.
AdminTokenLive ==
    \A c \in Calls :
        calls[c].stage = "asking" /\ Covered(Waits(calls[c].goal)) => now < calls[c].held

ToldInfo(kind) ==
    {<<calls[c].user, kind>> : c \in {d \in Calls :
        calls[d].stage = "told" /\ calls[d].by = "account" /\ calls[d].kind = kind}}
LastTrueOf(kind) == [k \in Users \X {kind} |-> LastTrue[k]]

\* getUserInfo, asked by the id of an account, tells that there is one only if there was
\* in the last cacheExpiry and the time of two waits: Keycloak's answer and its caching.
Accounted == INSTANCE Freshness WITH
    Claims <- Users \X {"real"}, Window <- CacheTTL + 2 * Lag,
    held <- LastTrueOf("real"), told <- ToldInfo("real")
InfoIsFresh == Accounted!Spec

\* And it tells a user who was made up, with no roles, only if Keycloak could not say
\* better in the last cacheExpiry and the time of four waits: an outage is forgotten.
Imagined == INSTANCE Freshness WITH
    Claims <- Users \X {"made"}, Window <- CacheTTL + 4 * Lag,
    held <- LastTrueOf("made"), told <- ToldInfo("made")
GhostsFade == Imagined!Spec

\* A row in PostgreSQL, and so what is told by its id without any limit of time, was
\* once true of its account: it was there, or Keycloak could not say so.  No order of
\* calls, and no admin token that has ended, makes a row of a user who never was missing.
RowsHaveCause ==
    \A u \in Users : rows[u] # None => LastTrue[<<u, rows[u]>>] # LongAgo
=============================================================================
