# A formal model of the authentication platform

The repository is a platform of four services: a TypeScript library (`smp-auth-ts`)
with the clients of Redis, Keycloak and Open Policy Agent and the services built on
them; a NestJS service (`mu-auth`) that exposes the library over REST and GraphQL and
keeps users in PostgreSQL; a Node service for organizations (`mu-organization`); and a
gateway (`federation`) in front of them that asks the policies (`opa-policies`).

The code that decides who gets in is asynchronous JavaScript over shared stores. There
are no locks and, in the Redis part, no transactions: every operation reads a value,
awaits, and writes it back whole. What can go wrong is therefore rarely inside one
call. It is in the order in which the awaits of several calls are resumed, in keys that
expire between two of them, in calls that time out and are repeated beside themselves,
in answers that are cached, and in calls of a store of which some throw and some quietly
answer "nothing". This project models that.

## 1. Inventory

| component | state it keeps | operations | what makes it hard | what makes it correct | module |
|---|---|---|---|---|---|
| Magic links (`services/magic-link.service.ts`, with the integration service and routes of mu-auth) | `magic_link:<id>`, `:token:<t>`, `:email:<e>`, `:daily:<e>:<day>`, all with a time to live | generate, verify, resend, revoke, clean up | read-modify-write across awaits, mail in between, expiry, silent failures | one entry per link, closed stays closed, one usable link per address, counting | `MagicLink` |
| Second factors (`services/mfa.service.ts`) | methods and their index, challenges, rate counter | set up, confirm, remove, set primary, challenge, verify | stale copies written back, counters, two actors on one user | bounded guesses, one acceptance, the last method is kept, one primary | `Mfa` |
| Backup codes and trusted devices (same file) | the codes and the used ones, devices and their list | generate, use; trust, check, list, revoke | one value written whole by all, a device written back without a time to live | a code passes once, a revoked device is refused | `Recovery` |
| Access tokens (`services/auth.service.ts` of both, clients of Keycloak and OPA) | cache of verdicts, cache of decisions | login, refresh, logout, validate, permissions | caches that nothing invalidates, calls that outlast what they cache | an answer is not older than promised | `AccessTokens` |
| Accounts and sessions (`keycloak.client.ts`, `auth.service.ts`, `session/`) | admin token, cache of users, rows, session cookies | register, change, tell of a user, sessions | an outage, users who are made up, a token fetched by several calls | told facts are fresh, made-up rows have a cause | `Accounts` |
| OAuth (`services/oauth.service.ts` of both, two providers) | one-time states, tokens, links and reverse links | authorize, callback, link, unlink, refresh, initialize | get-then-delete, two keys for one fact, time-outs that stop nothing | a state is spent, one login per code, link and index agree | `OAuth` |
| Synchronisation (`keycloak-postgres-sync.service.ts`) | a flag in memory, sync logs, mappings, users | full sync, cancel, admin operations | cancellation that does not stop anything, failure between steps, unique keys | one sync at a time, logs tell what happened, one user per identity | `UserSync` |
| Organizations (`mu-organization`) | rows of seven kinds, one JSON column of invitations, events, a pool of connections | create, update, delete, find; invite, join, leave, roles | read-modify-write of a column, event against row, transactions nobody ends | no lost invitation, one membership, events tell the rows | `Organizations` |
| Redis client, Keycloak client, policy client | connections, caches | what the services above call | which of their calls throw, which swallow | parts of the modules above | all |
| Registration checks, authorization of mu-auth, event log, e-mail, gateway, policies | none that is read to decide | | | | not modelled (section 7) |

The components interact by calls (the routes call mu-auth, mu-auth calls the library, the
gateway calls the services) and through shared stores: several processes of mu-auth share
one Redis server, one Keycloak and one database. `PROJECT.json` lists every component,
those not modelled too, and the hazards of the code at their lines.

## 2. How the modules are cut

A module holds the state that some set of operations shares, and every operation on that
state, from the route to the store: the routes of REST and GraphQL are the disjuncts that
begin calls, a call goes from one `await` to the next, and any other call may run between
two of its steps. That is the concurrency of the code: JavaScript runs the code between
awaits in one go, and other processes interleave at the calls of the stores. Keys that no
two modules share are cut apart (Redis keys of second factors and of backup codes, of
links and of tokens); what two modules share is in both, as far as each can see it: the
rows that registration creates in the background are an actor of `UserSync`, the rows made
from a user's information are in `Accounts`.

`Freshness` is an abstract specification: a service that answers from caches tells what was
true at some instant of the last `Window`. `AccessTokens` implements it three times (tokens
told valid, sessions told open, roles told by decisions), `Accounts` twice (users told to
exist, users made up), each by `INSTANCE Freshness WITH` a mapping of claims, of the last
instant at which each claim was true and of what answers now tell. The five windows are the
sums of times to live that the code gives in effect, which are longer than each cache
suggests.

The rules the guarantees have without exception are stated so. Where the code has
exceptions (two overlapping calls), the property names them, and a history variable records
exactly the overlap: what is checked and proved is that there is no *other* way to break
the guarantee. Such a property does not detect the overlap it excuses: that the overlap does
break the guarantee is known from the code, and said in section 6 and beside the property.

## 3. Modules

### MagicLink

A call of the service is a member of `Requests` with a program counter and its local
variables (`req`). A step of a request is one call of Redis, Keycloak or the mail
provider together with the synchronous code up to the next `await`; between two steps
any other request may run. That is exactly the concurrency of the code: JavaScript runs
the code between awaits atomically, and other processes interleave at the calls.

| variable | in the code |
|---|---|
| `store`, `storeTTL` | the status in the value of `magic_link:<id>` and the key's remaining lifetime |
| `tokenTTL` | `magic_link:token:<token>` (identifier and token are drawn together, so the link's name stands for both) |
| `index`, `indexTTL` | the set `magic_link:email:<email>` |
| `daily` | `magic_link:daily:<email>:<today>` |
| `left` | `expiresAt` minus now |
| `info` | the fields of a link that never change |
| `accounts` | whether Keycloak knows the address |
| `delivered` | which mails have reached their reader |
| `counted`, `conflict`, `unsettled` | history, see below |

Each handler is the chain of actions its awaits make: `generateMagicLink` is
`StartGenerate`, `CheckLimit`, `Lookup`, `Members`, `Scan`, `ReadForStatus`,
`WriteStatus`, `StoreLink`, `StoreToken`, `StoreIndex`, `ExpireIndex`, `CountRead`,
`CountWrite`, `Mail`, `MailWrite`, `Emit`; the others are shorter. `updateLinkStatus`
(`ReadForStatus`, `WriteStatus`) is shared by four callers, `AfterStatus` is what each
goes on with. With `RedisMayFail`, `get`, `set` and `delete` may throw, which ends a
call through its `catch` (`Throw`), and `sMembers`, `sAdd`, `expire`, `sRem`, `keys` and
the `get` inside `getMagicLink` may answer as if there were nothing. `Tick` is the clock
and the expiry of keys, `Midnight` the change of the date in the counter's key.

The guarantees a reader expects (a link works once, revoked is revoked) do not hold of
this code without exception: two verifications that both read before either writes get
in with one link, and a mailer that holds a copy writes a used link back. The
properties therefore name the exceptions, and the history variables record them:
`Overlap(id)` is true in a state where two calls hold link `id` in such a way, and
`conflict[id]` remembers it. What is checked and proved is that these overlaps are the
*only* way to break the guarantees. `Unsettled(e)` does the same for the rule that an
address has one usable link.

`MagicLinkInvariant` holds the inductive invariants, `MagicLinkProofs` the proofs,
`MCMagicLink` the symmetry for TLC.

### Mfa

The methods and the challenges of one user (the keys of two users are disjoint). Calls
are modelled as above, but a request becomes idle again when its call has answered, so
that long histories fit in two requests; what the properties need of finished calls is
in history variables (`wrong`, `wins`, `removed`, `started`).

| variable | in the code |
|---|---|
| `method` | `mfa:method:<id>`: stored, `isEnabled` (which `isVerified` follows), `isPrimary` |
| `members` | the set `mfa:user:<user>:methods` |
| `setupCode` | `mfa:challenge:setup:<id>` |
| `challenge` | `mfa:challenge:<id>`: stored, `attemptsRemaining` |
| `rate` | `mfa:rate_limit:<user>` |
| `late`, `renewed` | challenges whose `expiresAt` is past; whose key was rewritten with a new time to live |

`getUserMFAMethods` is the loop `Members`, `Read` with the continuation `AfterList` of
its callers. `setPrimaryMFAMethod` rewrites what it has listed in the order of the
sorted list (`Rewrite`), also as the tail of `removeMFAMethod`. Times are not counted:
any deadline may pass at any step after it was set (`MethodLapses`, `Deadline`,
`ChallengeLapses`, `RateLapses`), which includes every real timing. A code is right or
wrong by choice. `resendMFACode` changes nothing and is left out; `generateBackupCodes`
and `trustDevice`, when called from here, write keys that nothing in this module reads.

Again the properties name the overlaps that break them: `contested` (two verifications
hold one challenge), `crossed` (two removals decide at once), `mixed` (two calls that
write methods overlap, or a failure was taken for an empty answer), `stale` (a method
is deleted while another call holds a copy of it), `rushed` (two calls between reading
and writing the rate).

### UserSync

The synchronisation of Keycloak and PostgreSQL. Calls of `performFullSync` are members of
`Syncs`; `pc` is the phase of a call, `job[s][n]` what the call does of the user named `n`
at that moment: the users of a batch are handled by concurrent promises
(`Promise.allSettled`), so each name goes its own way through `FindMapping`, `FindRow`,
`UpdateExistingUser`, `UpdateMapping`, `CreateNewUser`, `CreateMapping`. The rows of
phase 2 are handled one after the other (`Push`, `Link`, `CreateMapping`).

| variable | in the code |
|---|---|
| `kc` | the accounts of Keycloak |
| `pg` | the table `users`: data, whether `keycloakId` is set, whether it was written in the last hour |
| `mapping` | the table `sync_mappings`: `syncHash` |
| `log` | the table `sync_logs`: `status` |
| `isSyncing` | the field of the service |
| `admin` | a call of `cancelRunningSync` |
| `adopting` | background creations of rows by `AuthService` |
| `touched`, `torn`, `overridden`, `leaked`, `quiet` | history, see below |

A user name is unique on both sides and nothing renames or deletes users (the service that
deletes rows has no caller), so an account, its row and its mapping are known by the name.
The data of a user is a pair, the attributes with a column (`Core`) and the custom ones
(`Custom`), because the hash of the code depends on the first only: `generateSyncHash` gives
`JSON.stringify` the sorted outer keys as a filter, and the filter also drops the keys
inside `customAttributes`. An attribute an account lacks is `Cleared`: it is `undefined` in
the data, so a new row has NULL there, but an update of a row leaves the column as it was
(`Merged`), while the mapping gets the hash of the new data. Columns with a default
(clearance level, employment type and others) get a value either way and are not modelled,
nor are first and last name, which are fields of the account itself. The hash that phase 2
stores is that of a whole row, which no account has (`RowHash`). Email addresses count where
they collide: `''` stands for none and is unique as well (`Mailless`, `Taken`).

Every call of a store may fail before it has an effect; an answer lost after the effect is
the failure of the next call. The roles and organizations that are written in the same
steps behave like such a failure when they throw. `Restart` loses the flag, the calls and
the background work.

Beside the service run administrators of Keycloak (`WriteAccount`), `AuthService`
(`StartAdoption`, `Adopt`: rows without a mapping), `PostgresUserService` (`CreateUser`,
`UpdateUser`) and the admin controller (`Wipe`, `DeleteMapping`, and the options of
`Begin`). That controller is in no Nest module at this commit: the model takes its
handlers to be called as they are written.

The properties name their exceptions through history: a cancellation (`overridden`), a call
that threw before its `try` (`leaked`), rows changed by `updateUser` (`touched`), rows
written when their mapping was not (`torn`), names someone else wrote while a call was under
way (`quiet` holds the others). `SyncCatchesUp` is about what a reader would take for
granted and what the code gives only under these conditions: after an error-free pass the
row has whatever its account has, and is equal to it, as far as the hash can see, if the
pass also pushed the row. What an account has cleared is the exception, in `HashTellsRow`
too: the row keeps the old value, and either the same pass pushes it back into the account
(the row was just written) or, when that push fails and an hour goes by, the two stay
different while every later pass finds the hash it knows and passes over the user. The model
also shows, outside the properties, that a change of custom attributes alone is never copied
to PostgreSQL, that a local change older than an hour is never copied to Keycloak, and that
rows created at registration never get a mapping.

`UserSyncProofs` holds the inductive invariants and the proofs.

### Recovery

The codes and the devices of one user. A write of Redis that throws may have been carried
out, and both outcomes are followed; the calls on sets swallow a failure.

| variable | in the code |
|---|---|
| `backup` | `mfa:backup_codes:<user>`: which set of codes, and which of them are used |
| `device`, `listed` | `mfa:device:<id>`, with a time to live ("lapsing") or without ("lasting"); `mfa:user:<user>:devices` |
| `print`, `past` | the fingerprint of a device; devices whose `expiresAt` is past |
| `newest`, `held`, `passed`, `repeated`, `mixed`, `revoked`, `raced` | history |

`generateBackupCodes` replaces the set whole: for a user, who sees it, or at the end of the
set-up of an authenticator, whose answer leaves the codes out. `useBackupCode` reads
and writes back (`Load`, `Mark`): a use that is under way when the set is replaced writes the
old one back, and its codes pass again. A set that was replaced is refused unless a use held a
copy of it at that moment (`held`). `isDeviceTrusted` writes `lastUsedAt` without a time to live
(`Touch`), `getTrustedDevices` revokes what is past its time. Two calls that hold a copy of
one set (`mixed`) can pass one code twice; a device deleted under a check that is about to
write it (`raced`) comes back. `loginWithMFA` asks for trust and begins a challenge in any
case at this commit: that a device is trusted is answered and not used.

### AccessTokens

Keycloak's sessions and the tokens of each, the roles of users, and the two caches.

| variable | in the code |
|---|---|
| `open`, `closed` | sessions of Keycloak; when each was last open |
| `role`, `lost` | the role of each user; when each last had each |
| `token` | what a token tells: its user, a role, its end, its session |
| `verdicts` | Redis, `auth:token:*`: until when a verdict may be used |
| `decisions` | Redis, `auth:decision:*`: until when, and what |
| `calls` | validations and permissions in progress |

`ValidateToken` answers from the cache or asks Keycloak and stores the verdict
(`CacheVerdict`) for `CacheTTL` counted from when the call began storing it;
`CheckPermission` validates, looks a decision up (`LookUpDecision`) or has one made of the
role the token tells (`Decide`). `invalidateTokenCache` is empty: no logout touches the
caches. `Lag` bounds how long a call lasts; the clients give up after ten and five seconds
(`keycloak.client.ts:29`, `opa.client.ts:27`), so there is such a bound. The cache of the
policy client is left out: its key contains the time in milliseconds and so never answers.
The REST logout passes the access token where Keycloak wants the refresh token; Keycloak
refuses, mu-auth goes on, and the session stays open, which the model follows.

### Accounts

| variable | in the code |
|---|---|
| `exists`, `up` | accounts in Keycloak; whether it answers |
| `admin` | `adminTokenCache` of `KeycloakClient`: until when it is used, when the token ends |
| `infos` | Redis, `auth:user:info`: what is cached of a user, told by Keycloak ("real") or made up ("made") |
| `rows` | PostgreSQL, `users`, by the id of Keycloak |
| `cookies` | the session in each browser's encrypted cookie |
| `calls` | calls in progress: what each waits for, and the admin tokens in its hands |
| `seen`, `missed`, `down` | history: when each account was last there, when not, when Keycloak was last out of reach |

A call takes one step for every request it waits for; Keycloak decides a request at some
instant between its sending and its answer. What needs Keycloak first needs an admin token
(`TakeToken`, `Grant`, `ReceiveToken`), which overlapping calls fetch and cache at once.
`registerUser` takes a token for itself, looks the address and the name up, each with a call
that takes one again, and then creates the account, asks for the roles, assigns them and has
the mail sent with the token it took first; `resetPassword` makes two requests with a token
each; `resendVerificationEmail` of `AuthService` does nothing.

`getUserInfo` by the id of an account never fails: a user Keycloak does not tell of is made
up (`Fallback`), cached for `CacheTTL` and copied to PostgreSQL (`Copied`), where the address
`''` is unique: one such row at most. mu-auth's `getUserInfo` asks PostgreSQL first, by the
id of a row, and tells the row however old it is (`TellRow`); where PostgreSQL fails the id
is one of no account. `InfoIsFresh` and `GhostsFade` are therefore about ids of accounts;
of what is told by the id of a row `RowsHaveCause` says that it was once true. A session is
its cookie: `validateSession` asks for the user, who is always found, `refreshSession` extends
what is valid, and `invalidateSession` does nothing.

`Lag` bounds one wait: the time-out is set per request to Keycloak (ten seconds,
`keycloak.client.ts:29`), and the same is assumed of a command of Redis, for whose client
the code sets a time-out of connecting only. A call has no time-out as a whole. The
assumptions are `2 * Lag <= Margin` (the sixty seconds by which an admin token is given up
early are worth a wait and the one in which the token was granted) and `2 * Lag <
AdminLife`. That covers a request with a token of its own. The requests of a registration
use one token through several waits (`Waits`): `Covered` says for which of them the margin
is enough, and the invariant `AdminTokenLive` speaks of those. With ten against sixty
seconds, and tokens that live longer than these, that is all up to `create` and not the last
three. `OAuthService` of mu-auth has a `KeycloakClient` of its own with a time-out of sixty
seconds, the whole margin: the assumption does not hold for it, and nothing is claimed of
its requests.

### OAuth

An attempt is a run of the library's code for one operation; a flow is one state with the
code the provider sends back. `OAuthService` of mu-auth runs an operation under a time-out
and, when it fires, makes the next attempt while the first goes on (`TimeOut`): both write.

| variable | in the code |
|---|---|
| `service`, `starts` | whether `OAuthService` is initialized, and the tries that failed |
| `flows` | `oauth:state:<state>`, the provider's code, the user behind it |
| `tokens`, `links`, `index` | `oauth:tokens:*`, `oauth:linked:*`, `oauth:user:*` |
| `known` | addresses with an account in Keycloak |
| `excused`, and `logins` of a flow | history |

States are read and then deleted (`ReadState`, `DeleteState`); GitHub's code is tried twice
(`ExchangeNative`, `ExchangeAxios`) although a provider takes it once (`TakeCode`);
`handleKeycloakIntegration` is `FindUser`, `CreateUser`, `StoreTokens`, `Grant`. A renewal
reads the tokens (`LookUpTokens`), asks the provider and stores what it gets (`SaveTokens`)
without another look: tokens that lapsed meanwhile are there again, and those of a sign-in
in between are replaced. `TokensHaveFlow` says what stays true of tokens whoever stores
them. `linkAccount` writes link and index one after the other, `unlinkAccount` deletes them
in either order (`DropLink`, `DropIndex`). The service is off after its last failed try
until the process restarts. What the model shows on the way: every authorization asks for
access type `online`, so Google normally gives no refresh token and refreshing is refused;
GitHub's `refreshToken` throws always; a callback that lasts longer than all time-outs ends
as a failure although it may have signed its user in; a callback whose Keycloak integration
fails answers success without tokens.

### Organizations

| variable | in the code |
|---|---|
| `rows`, `member` | the rows of the six tables; user, organization and role of a membership |
| `column` | `advancedAttributes.invitations` of an organization |
| `open` | transactions, each with a connection of the pool |
| `told` | the last event published about a record |
| `pc`, `call` | calls with their arguments and copies |
| `mailed`, `spent`, `crossed`, `raced`, `unsaid`, `lapsed` | history and the age of tokens |

A create or update opens a transaction and hands it to `saveAndPublishEntity` of the
framework, which commits and publishes (external code, modelled from its use). Four of the
seven resolver files call it without importing it: the call throws and the transaction stays
open, until no connection is left (`LeaksAreKnown`). FAQ records are rows of the table of
organizations, because `src/index.js` builds their model from the wrong definition
(`TableOf`). A stray `z` in `createIndustry` throws before anything. A deletion destroys the
row and then publishes. Members: every function reads the organization with its JSON column,
awaits, and writes the column whole; memberships are looked up and then created. An update
of a membership may bring whatever user, organization and role the client gives (`Reassign`:
the resolver passes the input on and the utility copies the identifiers) and looks for no
other membership, so that a single update can make a user a member twice; the user then
counts as raced, like one for whom two calls looked and created at once. The branch that
deletes an expired invitation on verification compares two values that are equal and is
never taken; `handleUserCreatedForOrganization` is commented out.

## 4. Runs

| run | what it asks | bounds |
|---|---|---|
| `magic_link_safety` | `TypeOK`, `SingleUse`, `RevocationHolds`, `CleanupSparesLive`, `ClosedStaysClosed` | 3 calls of any kind, 1 link, Redis fails anywhere |
| `magic_link_addresses` | `OneUsableLink`, `CounterNeverOvercharges` | 2 generations or resends, 2 links, 1 address, keys expire, Redis fails |
| `magic_link_answers` | `EveryCallAnswers` | 2 calls of any kind and any action of a link, fairness |
| `mfa_methods` | `OnePrimary`, `RemovedStaysRemoved`, `KeepsAMethod` | 2 calls at a time, 2 methods, unlimited sequences, Redis fails |
| `mfa_challenges` | `GuessesBounded`, `AcceptedOnce`, `RateHolds` | 2 calls at a time but one set-up or confirmation (`OneSetUp`), 1 method, 2 challenges, limits of 1, Redis fails |
| `recovery` | `CodePassesOnce`, `ReplacedIsRefused`, `RevokedIsRefused`, `NothingForgotten` | 2 calls at a time, 2 sets of 2 codes, 2 devices and 2 fingerprints, Redis fails |
| `access_tokens` | the refinements `ValidityIsFresh`, `PresenceIsFresh`, `PermissionIsFresh` | a user and the service, 2 tokens, 2 calls, 1 change of a role, 5 instants |
| `accounts` | `AdminTokenLive`, `RowsHaveCause`, and the refinements `InfoIsFresh` and `GhostsFade` | 1 user, 1 browser, 2 calls; registrations and changes for 8 instants without a fault and for 4 with an outage or a deletion, users told for 8 and sessions for 2 with one |
| `oauth` | `StateSpent`, `OneLoginPerCode`, `LinksAgree`, `TokensHaveFlow` | 2 attempts, 2 flows, 2 users, 2 accounts, both providers, 1 failure or restart |
| `user_sync` | `TypeOK`, `OneAtATime`, `FlagTells`, `NoOrphans`, `HashTellsRow`, `SyncCatchesUp` | 2 calls, 1 name, a column with 2 values or cleared, 2 acts from outside, 1 failure or crash |
| `user_sync_rebuild` | finds users whose mapping a rebuild loses | violation of "Recréer tous les mappings" |
| `organizations` | `TypeOK`, `EventsTellRows`, `MemberOnce`, `InvitationsExact`, `LeaksAreKnown` | 3 calls, one of them about any record, 2 users, 2 connections, failures and restarts |

Why these bounds are enough to find what they look for: every overlap that can break a
property of `MagicLink` needs at most one creator or mailer, one verifier and one
further verifier or revoker of a single link, which is three calls on one link; the
rule for addresses needs two links and two generations; a lifetime of one tick already
makes every key expire between any two steps. `Expiry`, `MaxUsesPerDay`, `MaxAttempts`
and `RateLimit` are small so that limits are met. In `Mfa`, set-ups and challenges are
bounded by the identifiers left, everything else may go on for ever; so may everything in
`Recovery` but the drawing of sets and devices. Names of `UserSync` meet only in `Taken`; two
calls, one failure and two acts from outside are what each exception of its properties
needs. The caches of `AccessTokens` and `Accounts` are kept for one instant, calls of the one
and waits of the other last one instant, and the clock runs long enough for the longest window
to close and for a registration to use up the margin of its token, which is the sixfold of a
wait as in the code. One change of a
role, one fault of Keycloak and two calls are what a stale answer takes. In `OAuth` two
attempts are two callbacks, two requests about links or one request and its repetition;
that a third attempt may run beside two is left to the argument of section 5.
`Organizations` needs two calls to overlap and a third to find what they left. `Questions`,
`Clients` and `Works` split the behaviours of three modules by what is asked in them: what is
split shares no variable that one side writes and the other reads. What is proved holds for
all values.

Symmetry is used in the runs that check safety only. `CHECK_DEADLOCK` is turned off for
`UserSync` and for others only where their configuration says so: where every call may have
ended and the acts from outside are used up.

Fairness (`FairSpec` of `MagicLink`): weak fairness of `Work(r)`, the next step of a call
that has begun. The runtime resumes a call when the awaited answer or failure has come,
and the clients of Redis, Keycloak and the mail provider have time limits, so an answer
or a failure comes. Nothing is assumed of clients (no call has to be made), of mails (they
may never arrive) or of the clock. The other modules are about safety: their calls are
chains of awaits without loops that others feed, and end by the same argument.

Every property of a passing run has a mutant in `PROJECT.json`: a definition of the code
with a plausible fault (marked "Faulty variant" in the modules) under which TLC finds the
property violated. The types of `Mfa`, `Recovery`, `AccessTokens`, `Accounts` and `OAuth` are in
no run: they are theorems.

## 5. Proofs

`MagicLinkProofs` proves, for any number of calls, links and addresses, any lifetime
and limit:

- `TypeCorrect`: `TypeOK`, with the fact that a key is absent exactly when it has no
  lifetime left;
- `SingleUseHolds`, `RevocationIsFinal`: the invariants `SingleUse` and
  `RevocationHolds`;
- `ClosedLinksStayClosed`: the action property `ClosedStaysClosed`;
- `CounterIsFair`, `CleanupIsSafe`, `OneUsableLinkHolds`: the invariants
  `CounterNeverOvercharges`, `CleanupSparesLive` and `OneUsableLink`.

Only the first is inductive. For the next three the invariant `IInv` adds which call is at
which step (`ControlOK`), that nobody knows a link before it is stored and no two
generations draw the same (`FreshLinks`), that a current overlap is recorded
(`OverlapNoted`), that "expired" is only written of links past their time and mailers hold
pending copies only (`ExpiryOK`), and the heart (`Exclusive`): without a recorded overlap, a
call that was let in is alone with a link that is shut, a revoked link has no mailer left
that could write it back, and a mailer's link is pending or gone. Each of the six parts has
a lemma per group of actions; `Invariance` puts them together.

The last three stand on invariants of their own. `CounterIsFair`: a generation that has read
the counter writes no more than it counts (`CountsBehind`). The other two share `LinksInv`,
which adds to `IInv` that what the clean-up deletes was stored once and is over
(`KnownLinks`, from which `CleanupIsSafe` follows), that no link has a token before its
generation stores it (`FreshTokens`), that a generation works for the address of its link
(`OwnAddress`), and `OneLiveEach`. `OneUsableLink` speaks of mails that arrived; what a step
preserves is said of every link whose token is stored, mailed or not: an address that was
never unsettled has one such link, the index holds it as long as its token lives, or its
generation is on the way there, and a generation for the address has it on the list of what
it still has to revoke, until the list is done and its own link may be stored (`OneLive`).
The assumptions are those on the constants in `MagicLink` (`Expiry` and the limit positive,
`None` a fresh value).

`MfaProofs` proves of `Mfa`, for any number of calls, methods and challenges and any limits,
`TypesHold`, `GuessesStayBounded`, `AcceptedAtMostOnce`, `RateAlwaysHolds`,
`RemovedStayRemoved`, `AMethodIsKept` and `OnePrimaryAlways`. The invariant says what a
request needs at its step (`Fits`), that a challenge that was not drawn is known to nobody
(`Undrawn`), and of a challenge whose verifications never overlapped that the attempts left,
in the key and in the one copy, and the wrong codes told make no more than the bound
(`Left`), and that at most one request accepts it, after which it is spent (`Once`). Of the
counter: the one request about to write it read no less than what was let through
(`RateInv`). Of methods: nobody holds a copy of one that was removed, or is about to be
taken off the list, and was not marked stale when it was deleted (`Gone`). One lemma per
action says what it does (`Moves`, `Data` for every action, and its own effect for those
that judge, count or remove); each part of the invariant is then kept by those facts alone,
whichever action it was.

The last two theorems need `MethodsInv`, four parts more. What was confirmed, whether it is
listed, waits in a challenge or is in somebody's copy, is enabled as long as it is stored
(`ConfirmedInv`). What a removal has seen of other methods is still active, unless two removals
crossed (`LeavingInv`): this is `KeepsAMethod` from the removal's point of view. Only an
enabled method is primary (`PlainInv`). And `PrimaryInv`: while nothing has mixed, the enabled
methods are listed or about to be, the store has at most one primary, and what a call has read
equals the store (`Holding`), so that `setPrimaryMFAMethod`, which takes the mark from the old
primary before it gives it to the new one, never makes two. Here too each action is first
brought to a shape (`Does`), and two lemmas say what any shape does to copies
(`Learns`) and to the store (`Settles`).

`UserSyncProofs` proves the invariants of `UserSync`, for any number of calls, names, edits
and failures: `TypesHold`, `OneSyncAtATime`, `FlagIsRight`, `MappingsPointAtUsers`,
`HashesTellRows`, `UndisturbedNamesCatchUp`. Its invariant `IInv` adds that a call at work
holds the flag (`WorkHoldsFlag`), where a call is and what it may rely on for each name,
namely that what it has read once has not gone away (`StagesOK`, with the lemma
`StoresGrow`: accounts, rows and links only ever appear), and that between the writing of a
row and of its mapping the row has what was written (`RowHolds`). The last needs
`OneAtATime`: two calls that write one row would break it, and only a cancellation lets two
run. The lemmas `FlagStep`, `StagesStep`, `NoOrphansStep` and `DataStep` take one step of
the system each for their part. `UndisturbedNamesCatchUp` (the property `SyncCatchesUp`)
needs `SyncInv` (theorem `SyncInvariance`): whatever is linked, or about to be adopted, has
an account (`Linked`), and at every stage of a call that nothing disturbed for a name, the
call's copy and the two stores agree as far as the stage has come: on the way down from
Keycloak but for what is cleared (`Carried`), on the way up altogether (`Synced`). The
assumptions are those on the constants (`None` and `RowHash` are not data, and `None` is not
a call).

`AccessTokensProofs` proves, for any number of users, tokens and calls, any times to live and
any order of logins, logouts, changes of roles and answers: `TypesHold`, and that
`AccessTokens` implements `Freshness` in its three ways (`ValidityStaysFresh`,
`PresenceStaysFresh`, `PermissionStaysFresh`). The invariant behind them (`Invariance`) says
what each thing that is kept tells of the past: a token ends within `Life` of an instant at
which its session was open and its role held (`TokensTell`), a verdict is cached for
`CacheTTL` after that at most (`VerdictsTell`), a decision for `DecisionTTL` after a call
that began while its token was valid (`DecisionsTell`, `CallsTell`). Sums of these are the
windows. A step is then one of three (lemma `Steps`): it marks claims that are true now
(`Pass` or `Turn` of `Freshness`), or one call answers something fresh (`Tell`), or nothing
that `Freshness` sees.

`AccountsProofs` does the same for `Accounts`: `AdminTokensLive`, `RowsAlwaysHaveCauses`,
`InfoStaysFresh` and `GhostsAlwaysFade`. Its invariant says of each call (`Sound`) that what it
is about to store was so when the wait began in which it learnt it, or so many waits earlier
as were spent in vain; and that an admin token in its hands was, so many waits ago, granted
or found in the cache (`Lasts`, with `OwnWaits` for the one `registerUser` keeps through its
look-ups). An entry of the cache of users ends within `CacheTTL` and two waits of an instant
at which it was so, or four if the user was made up (`InfosTell`, `Span`); a row was true once
(`RowsTell`); and a cached admin token is given up `Margin` less one wait before it ends
(`Lasting`). Both modules use the assumptions on the constants that they name.

`OAuthProofs` proves, for any number of users, accounts, flows and attempts and whichever
providers are configured: `TypesHold`, `StatesAreSpent`, `OneLoginAlways`,
`LinksAlwaysAgree` and `TokensAlwaysHaveFlows`. The invariant (`Invariance`) has five parts.
What the stage of an attempt needs (`Fitting`). Who has the code of a flow (`CodesOnce`): the
provider, or one attempt, or nobody any more; attempts that one state let through are told
apart by it. `StateSpent`, which is inductive beside these. And, until something has given
them a cause, which attempt answers for each difference between links and index (`LInv`): all
attempts make one request (`OneRequest`), a link without its entry is about to get it or to be
dropped and the other way round (`Pairs`), and what an attempt has done half still stands
(`Halves`), whichever of its fellows write in between. When no attempt is left no difference
can be. And what an attempt may say of tokens (`FInv`): a callback let through is for the
provider of its flow, one that knows its user signs in the user of the flow, a renewal under
way has read tokens that a flow accounts for, and what a flow has is never set anew
(`FlowsLast`). Each action has a lemma for each part that it disturbs.

`RecoveryProofs` proves all four properties of `Recovery` and its types, for any number of
calls, codes, sets, devices and fingerprints, with or without failures of Redis: `TypesHold`,
`CodesPassOnce`, `ReplacedAreRefused`, `RevokedAreRefused`, `NothingIsForgotten`. Of codes the
invariant says that a set which is not written yet is with one call and none of its codes
passed (`WritersApart`), and that a code that passed is among those used, where its set is
stored and in every copy that a call is about to store (`PassedIsUsed`); and that what is
stored is the newest set, or one a use held when it was replaced, which only that use can have
written back (`StoredIsNew`). Of devices: one that
is about to be stored for the first time is known to nobody else (`NewDevices`), what was
revoked, and what is about to be taken off the list, is away (`RevokedIsAway`), and what a
check is about to write is there and listed (`TouchedIsThere`), each with the race as the
only exception. A lemma per group of steps says what it changes in calls and keys, and the
invariant is kept by those facts alone.

`OrganizationsProofs` proves all five properties of `Organizations`, for any number of calls
and users and any size of the pool: `TypeCorrect`, `EventsTellRowsAlways`,
`MemberOnceAlways`, `InvitationsExactAlways`, `LeaksAreKnownAlways`. `LeaksAreKnown` is
inductive as it stands. The others rest on what a call is doing at a step (`Fits`) and on
parts that do not need one another. For events: of a row that exists, no call is about to
say that it is gone (`Ended`); of one that is gone, every call that still holds it is about
to say so, or the last event says it already, and a row yet to be made was told of by nobody
(`Heard`). For members: a call that looked for a membership and found none is right
(`Alone`) as long as no two calls raced for that user and no update gave him a membership of
the organization. For invitations: tokens come from invitations that are over (`Sent`), and
unless two calls crossed on the column, the copy a call holds is the column up to what the
call itself has changed in it (`Exact`). One lemma per action (those called `...Does`) says
what it does to the call and to what it shares; each part is then kept by these effects.

## 6. What the code does and one may not expect

Met while modelling, visible in the models, and not run as violations unless a run says so:

- A magic link can be used twice, and the daily limit passed, by calls that overlap
  (`SingleUse` and its history name exactly when). Two removals that overlap leave a user
  without a second factor.
- mu-auth runs two instances of the magic-link service: REST and the mutations that revoke
  and clean up use keys under `mu:auth:magic:`, the GraphQL mutations that generate and verify
  use `mu:auth:`. A link of one is "not found" in the other, revoking a GraphQL link answers
  success and changes nothing, the daily counts are separate, and GraphQL links are never
  cleaned up. The module is one instance of the service.
- An attribute removed in Keycloak is not removed from its row: the same synchronisation
  puts the old value back into Keycloak, or the two sides differ for good and the hash hides it.
- A rebuild of the mappings loses users (run `user_sync_rebuild`).
- Logging out over REST leaves the session of Keycloak open; no logout empties the caches.
- A session cookie stays good after `logout`, `logoutAll` and the deletion of its user.
- Users are made up in an outage and their rows stay after it.
- What is told of a user by the id of his row is as old as the row, whatever has become of
  the account.
- The last requests of a registration may go out with an admin token that has ended: the
  time-outs are per request, and the token is not taken again.
- Confirming a second authenticator replaces the backup codes of the first, and its answer
  leaves the new ones out.
- A renewal that answers late stores tokens that have lapsed, or replaces those of a sign-in
  in between.
- Each create or update of a tag, topic or question, and each update of an industry, costs a
  connection of the pool; the create of an industry throws before it takes one.
- One update of a membership can make a user a member of an organization twice.

## 7. Only model-checked, and not modelled

Every invariant and action property of a passing run, and the three refinements of
`AccessTokens` and the two of `Accounts`, are theorems (section 5). `EveryCallAnswers` is
liveness under fairness, which the proof system does not reach: TLC checks it on small
instances and no more is claimed.

Of the synchronisation the phase of roles and organizations is not modelled, nor
`syncSpecificUser`: it enters the Keycloak id where `sync_logs` has a foreign key to
`users.id`, and so throws at its first step.

Not modelled: the content of mails and pages, logging, device fingerprints beyond their
equality, the numbers inside tokens and codes (right or wrong only), the one-year lifetime of
confirmed methods, several users of `Mfa` and `Recovery` at once (their keys are disjoint),
the connection life cycle of the Redis client (every call may fail at any time instead), and
the components `PROJECT.json` marks `not_modelled`: registration checks and the
authorization service of mu-auth keep no state and decide on one look, the gateway and the
policies are functions of a request, the event log is written and not read, and the legacy
entry of mu-auth is not reached.
