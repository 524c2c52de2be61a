------------------------------- MODULE OAuth -------------------------------
(***************************************************************************)
(* Signing in with Google or GitHub, the tokens that they give, and the    *)
(* accounts that are linked.  OAuthServiceImpl and the two providers of    *)
(* smp-auth-ts; OAuthService of mu-auth, which runs it under time-outs and *)
(* tries again; and the routes.                                            *)
(*                                                                         *)
(* A call that times out is not stopped: it goes on beside the attempt     *)
(* that replaces it, and its answer is dropped.  An attempt is what runs   *)
(* between two awaits; a flow is one state, generated for one redirection, *)
(* with the code that the provider sends back with it.                     *)
(***************************************************************************)
EXTENDS Naturals

CONSTANTS
    Users,         \* people: their address at the providers and in Keycloak
    Accounts,      \* accounts at a provider that are linked by hand
    Flows,
    Attempts,      \* attempts in progress
    None,
    Enabled,       \* initializeProviders: those that are configured
    RetryAttempts, \* TIMEOUTS.RETRY_ATTEMPTS: 3
    MaxFaults,     \* bound: failures and restarts
    Linked,        \* bound: providers whose accounts are linked
    Works          \* bound: what one behaviour does: "flows" or "links"

ASSUME NoneAssumption ==
    None \notin Users \cup Accounts \cup Flows \cup {"renewable", "plain"}
ASSUME EnabledAssumption == Enabled \subseteq {"google", "github"}
ASSUME BoundsAssumption ==
    /\ RetryAttempts \in Nat \ {0} /\ MaxFaults \in Nat /\ Linked \subseteq Enabled
    /\ Works \subseteq {"flows", "links"}

VARIABLES
    service,   \* OAuthService: whether it is initialized
    starts,    \* how many times that has failed
    flows,     \* the state in Redis, and the code at the provider
    known,     \* Keycloak: users with an account
    tokens,    \* Redis, oauth:tokens
    links,     \* Redis, oauth:linked: the account each user has linked
    index,     \* Redis, oauth:user: the user each account is linked to
    excused,   \* history: links and index have had a cause to disagree
    attempts,
    faults,    \* bound
    work       \* bound

redis == <<tokens, links, index>>
bounds == <<faults, work>>
vars == <<service, starts, flows, known, redis, excused, attempts, bounds>>

Ops == {"callback", "refresh", "link", "unlink"}
\* What an attempt awaits.
Stages == {"idle", "reading", "deleting", "exchanging", "exchangingAgain",
           "fetching", "finding", "creating", "storing", "granting",
           "looking", "renewing", "saving", "linking", "indexing",
           "resolving", "unlinking", "droppingLink", "droppingIndex"}
TokenData == {"renewable", "plain"}   \* with a refresh token, or without
Flow == [state : {"none", "stored", "gone"}, provider : Enabled \cup {None},
         code : {"none", "issued", "used"}, user : Users \cup {None},
         logins : Nat]                \* history: how often it signed its user in
Attempt == [op : Ops \cup {"none"}, stage : Stages, provider : Enabled \cup {None},
            flow : Flows \cup {None}, user : Users \cup {None},
            account : Accounts \cup {None},
            try : Nat, awaited : BOOLEAN]  \* the caller still waits for this one

Idle == [op |-> "none", stage |-> "idle", provider |-> None, flow |-> None,
         user |-> None, account |-> None, try |-> 0, awaited |-> FALSE]
NoFlow == [state |-> "none", provider |-> None, code |-> "none", user |-> None,
           logins |-> 0]

\* The attempt goes on to its next await, or ends.
Goto(i, stage) == attempts' = [attempts EXCEPT ![i].stage = stage]
End(i) == attempts' = [attempts EXCEPT ![i] = Idle]

At(i, stage) == attempts[i].stage = stage

----------------------------------------------------------------------------
(* OAuthServiceImpl: states.                                               *)

\* getAuthorizationUrl, generateAndStoreState: a new state is written with the
\* provider it is for, and a time to live of ten minutes.
StoreState(f, p) ==
    /\ flows[f].state = "none"
    /\ flows' = [flows EXCEPT ![f].state = "stored", ![f].provider = p]

\* The URL of generateAuthUrl bears the state.  A user who follows it comes
\* back with the code that the provider has issued.
Authorize(f, u) ==
    /\ flows[f].state # "none" /\ flows[f].code = "none"
    /\ flows' = [flows EXCEPT ![f].code = "issued", ![f].user = u]
    /\ UNCHANGED <<service, starts, known, redis, excused, attempts, bounds>>

\* The state and the tokens have a time to live.
LapseState(f) ==
    /\ flows[f].state = "stored"
    /\ flows' = [flows EXCEPT ![f].state = "gone"]
    /\ UNCHANGED <<service, starts, known, redis, excused, attempts, bounds>>

LapseTokens(u, p) ==
    /\ tokens[u][p] # None
    /\ tokens' = [tokens EXCEPT ![u][p] = None]
    /\ UNCHANGED <<service, starts, flows, known, links, index, excused, attempts, bounds>>

\* validateAndRetrieveState: the state is read,
ReadState(i) ==
    /\ At(i, "reading")
    /\ IF flows[attempts[i].flow].state = "stored" THEN Goto(i, "deleting") ELSE End(i)
    /\ UNCHANGED <<service, starts, flows, known, redis, excused, bounds>>

\* Faulty variant: that the state could not be deleted is not minded.
DeleteIfPossible(i) ==
    LET f == attempts[i].flow IN
    /\ At(i, "deleting")
    /\ \/ flows' = [flows EXCEPT ![f].state = "gone"] /\ Goto(i, "exchanging")
       \/ flows' = flows /\ Goto(i, "exchanging")
    /\ UNCHANGED <<service, starts, known, redis, excused, bounds>>

\* and deleted; then it is compared with the provider of the callback.
DeleteState(i) ==
    LET f == attempts[i].flow IN
    /\ At(i, "deleting")
    /\ flows' = [flows EXCEPT ![f].state = "gone"]
    /\ IF flows[f].provider = attempts[i].provider THEN Goto(i, "exchanging") ELSE End(i)
    /\ UNCHANGED <<service, starts, known, redis, excused, bounds>>

----------------------------------------------------------------------------
(* The providers.                                                          *)

\* A provider takes a code once.
TakeCode(f) ==
    /\ flows[f].code = "issued"
    /\ flows' = [flows EXCEPT ![f].code = "used"]

\* exchangeCodeForToken of Google: one request.
ExchangeGoogle(i) ==
    /\ At(i, "exchanging") /\ attempts[i].provider = "google"
    /\ \/ TakeCode(attempts[i].flow) /\ (Goto(i, "fetching") \/ End(i))
       \/ flows[attempts[i].flow].code = "used" /\ flows' = flows /\ End(i)
    /\ UNCHANGED <<service, starts, known, redis, excused, bounds>>

\* exchangeCodeForToken of GitHub: makeTokenRequestNative, which gives up after
\* fifteen seconds, whether or not GitHub has taken the code;
ExchangeNative(i) ==
    /\ At(i, "exchanging") /\ attempts[i].provider = "github"
    /\ \/ TakeCode(attempts[i].flow) /\ (Goto(i, "fetching") \/ Goto(i, "exchangingAgain"))
       \/ flows' = flows /\ Goto(i, "exchangingAgain")
    /\ UNCHANGED <<service, starts, known, redis, excused, bounds>>

\* and makeTokenRequestAxios, with the same code.
ExchangeAxios(i) ==
    /\ At(i, "exchangingAgain")
    /\ \/ TakeCode(attempts[i].flow) /\ (Goto(i, "fetching") \/ End(i))
       \/ flows[attempts[i].flow].code = "used" /\ flows' = flows /\ End(i)
    /\ UNCHANGED <<service, starts, known, redis, excused, bounds>>

\* getUserInfo, which fails if the provider does: when GitHub tells no address,
\* when Google tells that the domain is another.  Neither insists that an
\* address which the profile shows has been verified.
FetchUser(i) ==
    /\ At(i, "fetching")
    /\ \/ attempts' = [attempts EXCEPT ![i].stage = "finding",
                                       ![i].user = flows[attempts[i].flow].user]
       \/ End(i)
    /\ UNCHANGED <<service, starts, flows, known, redis, excused, bounds>>

----------------------------------------------------------------------------
(* OAuthServiceImpl: handleKeycloakIntegration.  An error ends it, and     *)
(* handleCallback then succeeds without tokens of Keycloak.                *)

\* getUserByEmail.  The attributes of a user who is found are not updated:
\* updateUserOAuthAttributes logs that it would.
FindUser(i) ==
    /\ At(i, "finding")
    /\ Goto(i, IF attempts[i].user \in known THEN "storing" ELSE "creating")
    /\ UNCHANGED <<service, starts, flows, known, redis, excused, bounds>>

\* registerUser, which refuses an address that Keycloak has come to know since;
\* and getUserByEmail again.
CreateUser(i) ==
    LET u == attempts[i].user IN
    /\ At(i, "creating")
    /\ known' = known \cup {u}
    /\ IF u \in known THEN End(i) ELSE Goto(i, "storing")
    /\ UNCHANGED <<service, starts, flows, redis, excused, bounds>>

\* storeUserTokens: what the provider gave is stored as it is, with a refresh
\* token or without, in the place of what was there.
StoreTokens(i) ==
    LET a == attempts[i] IN
    /\ At(i, "storing")
    /\ \E data \in TokenData : tokens' = [tokens EXCEPT ![a.user][a.provider] = data]
    /\ Goto(i, "granting")
    /\ UNCHANGED <<service, starts, flows, known, links, index, excused, bounds>>

\* Faulty variant: a grant whose answer is lost is asked for again.
GrantAgain(i) ==
    /\ At(i, "granting")
    /\ flows' = [flows EXCEPT ![attempts[i].flow].logins = @ + 1]
    /\ attempts' \in {attempts, [attempts EXCEPT ![i] = Idle]}
    /\ UNCHANGED <<service, starts, known, redis, excused, bounds>>

\* createKeycloakSessionForUser: the user is given a token of the service.
Grant(i) ==
    /\ At(i, "granting")
    /\ flows' = [flows EXCEPT ![attempts[i].flow].logins = @ + 1]
    /\ End(i)
    /\ UNCHANGED <<service, starts, known, redis, excused, bounds>>

----------------------------------------------------------------------------
(* OAuthServiceImpl: refreshProviderToken.                                 *)

\* Faulty variant: only tokens without a refresh token are refused.
LookUpAny(i) ==
    LET a == attempts[i] IN
    /\ At(i, "looking")
    /\ IF tokens[a.user][a.provider] # "plain" /\ a.provider # "github"
       THEN Goto(i, "renewing") ELSE End(i)
    /\ UNCHANGED <<service, starts, flows, known, redis, excused, bounds>>

\* Only tokens that were stored with a refresh token are renewed, and GitHub
\* renews none: refreshToken throws.
LookUpTokens(i) ==
    LET a == attempts[i] IN
    /\ At(i, "looking")
    /\ IF tokens[a.user][a.provider] = "renewable" /\ a.provider # "github"
       THEN Goto(i, "renewing") ELSE End(i)
    /\ UNCHANGED <<service, starts, flows, known, redis, excused, bounds>>

RenewTokens(i) ==
    /\ At(i, "renewing")
    /\ Goto(i, "saving") \/ End(i)
    /\ UNCHANGED <<service, starts, flows, known, redis, excused, bounds>>

\* refreshToken of Google gives a new refresh token, or the old one if Google
\* tells none; the tokens are stored, whatever is stored there by now.
SaveTokens(i) ==
    LET a == attempts[i] IN
    /\ At(i, "saving")
    /\ tokens' = [tokens EXCEPT ![a.user][a.provider] = "renewable"]
    /\ End(i)
    /\ UNCHANGED <<service, starts, flows, known, links, index, excused, bounds>>

----------------------------------------------------------------------------
(* OAuthServiceImpl: linkAccount and unlinkAccount.                        *)

\* A link that takes an account from another user, or replaces the one that
\* the user has linked, leaves behind what it does not look up.
Displaces(a) ==
    \/ links[a.user][a.provider] \notin {None, a.account}
    \/ index[a.provider][a.account] \notin {None, a.user}

LinkAccount(i) ==
    LET a == attempts[i] IN
    /\ At(i, "linking")
    /\ links' = [links EXCEPT ![a.user][a.provider] = a.account]
    /\ excused' = (excused \/ Displaces(a))
    /\ Goto(i, "indexing")
    /\ UNCHANGED <<service, starts, flows, known, tokens, index, bounds>>

IndexAccount(i) ==
    LET a == attempts[i] IN
    /\ At(i, "indexing")
    /\ index' = [index EXCEPT ![a.provider][a.account] = a.user]
    /\ End(i)
    /\ UNCHANGED <<service, starts, flows, known, tokens, links, excused, bounds>>

\* getLinkedAccount: which account it is.
FindLink(i) ==
    LET a == attempts[i] IN
    /\ At(i, "resolving")
    /\ attempts' = [attempts EXCEPT ![i] =
           IF links[a.user][a.provider] = None THEN Idle
           ELSE [a EXCEPT !.stage = "unlinking", !.account = links[a.user][a.provider]]]
    /\ UNCHANGED <<service, starts, flows, known, redis, excused, bounds>>

\* Faulty variant: the index is not looked after.
DropLinkOnly(i) ==
    LET a == attempts[i] IN
    /\ a.stage \in {"unlinking", "droppingLink"}
    /\ links' = [links EXCEPT ![a.user][a.provider] = None]
    /\ End(i)
    /\ UNCHANGED <<service, starts, flows, known, tokens, index, excused, bounds>>

\* Promise.all: the link and the entry of the index are deleted in either order.
DropLink(i) ==
    LET a == attempts[i] IN
    /\ a.stage \in {"unlinking", "droppingLink"}
    /\ links' = [links EXCEPT ![a.user][a.provider] = None]
    /\ IF a.stage = "unlinking" THEN Goto(i, "droppingIndex") ELSE End(i)
    /\ UNCHANGED <<service, starts, flows, known, tokens, index, excused, bounds>>

DropIndex(i) ==
    LET a == attempts[i] IN
    /\ a.stage \in {"unlinking", "droppingIndex"}
    /\ index' = [index EXCEPT ![a.provider][a.account] = None]
    /\ IF a.stage = "unlinking" THEN Goto(i, "droppingLink") ELSE End(i)
    /\ UNCHANGED <<service, starts, flows, known, tokens, links, excused, bounds>>

----------------------------------------------------------------------------
(* OAuthService of mu-auth.                                                *)

\* initializeSmpAuthOAuthWithRetry: the clients are created, or an error is
\* tried again, RetryAttempts times in all; initializeService then leaves the
\* service disabled, and nothing initializes it again.
Initialize ==
    /\ service = "starting"
    /\ \/ service' = "ready" /\ starts' = 0
       \/ /\ starts' = starts + 1
          /\ service' = IF starts' < RetryAttempts THEN "starting" ELSE "off"
    /\ UNCHANGED <<flows, known, redis, excused, attempts, bounds>>

\* ensureInitialized, and the first attempt of a call.
Begin(i, op, stage, p, f, u, a) ==
    /\ service = "ready"
    /\ attempts[i] = Idle
    /\ attempts' = [attempts EXCEPT ![i] =
           [op |-> op, stage |-> stage, provider |-> p, flow |-> f, user |-> u,
            account |-> a, try |-> 1, awaited |-> TRUE]]

\* getAuthorizationUrl.
GetAuthorizationUrl(f, p) ==
    /\ work = "flows" /\ service = "ready"
    /\ StoreState(f, p)
    /\ UNCHANGED <<service, starts, known, redis, excused, attempts, bounds>>

\* handleCallback: of a flow whose code has come back; for whichever provider.
HandleCallback(i, f, p) ==
    /\ work = "flows" /\ flows[f].code # "none"
    /\ Begin(i, "callback", "reading", p, f, None, None)
    /\ UNCHANGED <<service, starts, flows, known, redis, excused, bounds>>

RefreshProviderToken(i, u, p) ==
    /\ work = "flows"
    /\ Begin(i, "refresh", "looking", p, None, u, None)
    /\ UNCHANGED <<service, starts, flows, known, redis, excused, bounds>>

\* Another request about links is in progress.  An attempt that repeats the
\* request, because it timed out, is none.
Overlaps(op, u, a) ==
    \E j \in Attempts :
        LET b == attempts[j] IN
        /\ b # Idle
        /\ ~ (b.op = op /\ b.user = u /\ (op = "link" => b.account = a))

Link(i, u, a, p) ==
    /\ work = "links"
    /\ Begin(i, "link", "linking", p, None, u, a)
    /\ excused' = (excused \/ Overlaps("link", u, a))
    /\ UNCHANGED <<service, starts, flows, known, redis, bounds>>

Unlink(i, u, p) ==
    /\ work = "links"
    /\ Begin(i, "unlink", "resolving", p, None, u, None)
    /\ excused' = (excused \/ Overlaps("unlink", u, None))
    /\ UNCHANGED <<service, starts, flows, known, redis, bounds>>

\* Where an attempt of a call begins.
First(a) ==
    [a EXCEPT !.stage = CASE a.op = "callback" -> "reading" [] a.op = "refresh" -> "looking"
                          [] a.op = "link" -> "linking" [] OTHER -> "resolving",
              !.user = IF a.op = "callback" THEN None ELSE a.user,
              !.account = IF a.op = "unlink" THEN None ELSE a.account,
              !.try = a.try + 1]

\* An attempt that goes on after the caller has ceased to wait for it.
Dropped(a) == [a EXCEPT !.awaited = FALSE, !.try = 0]

\* executeWithRetry: the attempt is not awaited any more, and the next is made,
\* which isErrorRetryable grants a time-out; after the last the call has failed.
\* Errors of the library do not come here: it has made answers of them.
TimeOut(i) ==
    /\ attempts[i].awaited
    /\ IF attempts[i].try < RetryAttempts
       THEN \E j \in Attempts :
                /\ attempts[j] = Idle
                /\ attempts' = [attempts EXCEPT ![i] = Dropped(@), ![j] = First(attempts[i])]
       ELSE attempts' = [attempts EXCEPT ![i] = Dropped(@)]
    /\ UNCHANGED <<service, starts, flows, known, redis, excused, bounds>>

----------------------------------------------------------------------------
(* The routes: OAuthController over REST, and OAuthResolver over GraphQL.  *)

AuthorizeRoute == \E f \in Flows, p \in Enabled : GetAuthorizationUrl(f, p)

\* The callback of a browser, and that of an application.
CallbackRoutes == \E i \in Attempts, f \in Flows, p \in Enabled : HandleCallback(i, f, p)

\* The account is whichever the caller names.
LinkRoutes ==
    \E i \in Attempts, u \in Users, p \in Linked :
        (\E a \in Accounts : Link(i, u, a, p)) \/ Unlink(i, u, p)

RefreshRoute == \E i \in Attempts, u \in Users, p \in Enabled : RefreshProviderToken(i, u, p)

\* What is configured, and what is linked, changes by none of the queries.
StatusRoutes == UNCHANGED vars
LinkedRoute == UNCHANGED vars

GenerateOAuthUrl == \E f \in Flows, p \in Enabled : GetAuthorizationUrl(f, p)

\* The mutation gives up after thirty seconds; the call goes on.
HandleOAuthCallback ==
    \E i \in Attempts, f \in Flows, p \in Enabled : HandleCallback(i, f, p)

LinkMutations ==
    \E i \in Attempts, u \in Users, p \in Linked :
        (\E a \in Accounts : Link(i, u, a, p)) \/ Unlink(i, u, p)

RefreshMutation ==
    \E i \in Attempts, u \in Users, p \in Enabled : RefreshProviderToken(i, u, p)

OAuthQueries == UNCHANGED vars

REST ==
    \/ AuthorizeRoute \/ CallbackRoutes \/ LinkRoutes \/ RefreshRoute
    \/ StatusRoutes \/ LinkedRoute
GraphQL ==
    \/ GenerateOAuthUrl \/ HandleOAuthCallback \/ LinkMutations \/ RefreshMutation
    \/ OAuthQueries

----------------------------------------------------------------------------
\* A request that an attempt awaits fails, and the attempt ends, but for the
\* other of two deletions.
Fail(i) ==
    /\ attempts[i] # Idle
    /\ faults < MaxFaults /\ faults' = faults + 1
    /\ excused' = (excused \/ work = "links")
    /\ IF At(i, "unlinking") THEN Goto(i, "droppingLink") \/ Goto(i, "droppingIndex")
       ELSE End(i)
    /\ UNCHANGED <<service, starts, flows, known, redis, work>>

\* The process ends and starts again.
Restart ==
    /\ faults < MaxFaults /\ faults' = faults + 1
    /\ service' = "starting" /\ starts' = 0
    /\ attempts' = [i \in Attempts |-> Idle]
    /\ excused' = (excused \/ work = "links")
    /\ UNCHANGED <<flows, known, redis, work>>

Init ==
    /\ service = "starting" /\ starts = 0
    /\ flows = [f \in Flows |-> NoFlow]
    /\ known \in SUBSET Users
    /\ tokens = [u \in Users |-> [p \in Enabled |-> None]]
    /\ links = [u \in Users |-> [p \in Enabled |-> None]]
    /\ index = [p \in Enabled |-> [a \in Accounts |-> None]]
    /\ excused = FALSE
    /\ attempts = [i \in Attempts |-> Idle]
    /\ faults = 0
    /\ work \in Works

Step(i) ==
    \/ ReadState(i) \/ DeleteState(i)
    \/ ExchangeGoogle(i) \/ ExchangeNative(i) \/ ExchangeAxios(i) \/ FetchUser(i)
    \/ FindUser(i) \/ CreateUser(i) \/ StoreTokens(i) \/ Grant(i)
    \/ LookUpTokens(i) \/ RenewTokens(i) \/ SaveTokens(i)
    \/ LinkAccount(i) \/ IndexAccount(i)
    \/ FindLink(i) \/ DropLink(i) \/ DropIndex(i)
    \/ TimeOut(i) \/ Fail(i)

Next ==
    \/ Initialize
    \/ REST \/ GraphQL
    \/ \E i \in Attempts : Step(i)
    \/ \E f \in Flows, u \in Users : work = "flows" /\ Authorize(f, u)
    \/ \E f \in Flows : LapseState(f)
    \/ \E u \in Users, p \in Enabled : LapseTokens(u, p)
    \/ Restart

Spec == Init /\ [][Next]_vars

----------------------------------------------------------------------------
(* Properties.                                                             *)

TypeOK ==
    /\ service \in {"starting", "ready", "off"} /\ starts \in 0..RetryAttempts
    /\ flows \in [Flows -> Flow]
    /\ known \in SUBSET Users
    /\ tokens \in [Users -> [Enabled -> TokenData \cup {None}]]
    /\ links \in [Users -> [Enabled -> Accounts \cup {None}]]
    /\ index \in [Enabled -> [Accounts -> Users \cup {None}]]
    /\ excused \in BOOLEAN
    /\ attempts \in [Attempts -> Attempt]
    /\ faults \in 0..MaxFaults /\ work \in Works

\* "one-time use": an attempt that has been let through by a state has taken it
\* from Redis, whatever failed on the way and however many others there are: no
\* callback that comes later is let through by it.
Passed == {"exchanging", "exchangingAgain", "fetching", "finding", "creating",
           "storing", "granting"}
StateSpent ==
    \A i \in Attempts : attempts[i].stage \in Passed =>
        flows[attempts[i].flow].state = "gone"

\* Two callbacks that read a state before either deletes it are both let
\* through, and so are a callback that timed out and the one that replaces it:
\* still a flow signs its user in once, the provider taking the code once.
OneLoginPerCode == \A f \in Flows : flows[f].logins <= 1

\* With no request about links in progress, a user has linked an account if
\* and only if the index says so, unless two different requests overlapped, a
\* request was cut short, or one displaced another link.  Time-outs, and the
\* attempts that they leave running beside the next, are no such cause.
LinksAgree ==
    (~ excused /\ \A i \in Attempts : attempts[i] = Idle) =>
        \A u \in Users, p \in Enabled, a \in Accounts :
            links[u][p] = a <=> index[p][a] = u

\* A renewal stores its tokens without a look at what is stored by then: tokens
\* that have lapsed are there again, and those of a sign-in in between are
\* replaced.  Whoever stored them, and however late, in an attempt that nobody
\* waits for or after a restart, the tokens of a user at a provider go back to a
\* flow begun for that provider whose code it took when this user came back.
TokensHaveFlow ==
    \A u \in Users, p \in Enabled : tokens[u][p] # None =>
        \E f \in Flows :
            flows[f].provider = p /\ flows[f].user = u /\ flows[f].code = "used"
=============================================================================
