--------------------------------- MODULE Mfa ---------------------------------
(***************************************************************************)
(* Second factors: MFAServiceImpl of smp-auth-ts/src/services/             *)
(* mfa.service.ts, its methods and its challenges.                         *)
(*                                                                         *)
(* A call of the service is a request that advances from one await to the  *)
(* next; requests of any number of processes share one Redis server.  The  *)
(* keys of two users are disjoint, so one user stands for all.  The        *)
(* trusted devices and the backup codes live under keys of their own that  *)
(* no step of this module reads: only the calls that write them remain.    *)
(***************************************************************************)
EXTENDS Integers, FiniteSets

CONSTANTS
    Requests,      \* calls in progress
    Methods,       \* identifiers of methods the generator may draw
    Challenges,    \* identifiers of challenges the generator may draw
    MethodTypes,   \* the types users set up
    Kinds,         \* the calls an instance makes
    MaxAttempts,   \* maxAttempts
    RateLimit,     \* rateLimit.maxAttempts
    RedisMayFail,  \* may a Redis call fail?
    None

Sent == {"sms", "email"}   \* types whose code is stored and sent

Ops == {"setup", "confirm", "remove", "primary", "challenge", "verify"}

ASSUME TypesAssumption == MethodTypes \subseteq Sent \cup {"totp", "webauthn"}
ASSUME KindsAssumption == Kinds \subseteq Ops
ASSUME AttemptsAssumption == MaxAttempts \in Nat \ {0}
ASSUME RateAssumption == RateLimit \in Nat \ {0}
ASSUME FailureAssumption == RedisMayFail \in BOOLEAN
ASSUME NoneAssumption == None \notin Methods \cup Challenges \cup MethodTypes \cup Ops

VARIABLES
    method,     \* mfa:method:<id>
    members,    \* mfa:user:<user>:methods
    setupCode,  \* methods with a key mfa:challenge:setup:<id>
    challenge,  \* mfa:challenge:<id>
    rate,       \* mfa:rate_limit:<user>, 0 when absent
    kind,       \* type of each method, None before its setup
    about,      \* method of each challenge, None before it is drawn
    late,       \* challenges whose expiresAt is past
    renewed,    \* challenges whose key was written again, with a new TTL
    req,        \* the requests and their local variables
    wrong,      \* history: wrong codes told of each challenge
    wins,       \* history: successful verifications of each challenge
    removed,    \* history: methods that were deleted and unlisted
    started,    \* history: requests let through since the counter lapsed
    mixed, crossed, rushed, contested, stale   \* history: see the overlaps below

redis == <<method, members, setupCode, challenge, rate>>
facts == <<kind, about, late, renewed>>
told == <<wrong, wins, removed, started>>
overlaps == <<mixed, crossed, rushed, contested, stale>>
vars == <<redis, facts, req, told, overlaps>>

\* The values of a method that change; isVerified follows isEnabled.
Absent == [stored |-> FALSE, enabled |-> FALSE, primary |-> FALSE]
NoChallenge == [stored |-> FALSE, attempts |-> 0]

Idle ==
    [pc |-> "idle", op |-> None, m |-> None, c |-> None,
     copy |-> Absent,                       \* the request's copy of method m
     found |-> [m \in Methods |-> Absent],  \* what getUserMFAMethods has read
     todo |-> {},                           \* identifiers still to be read
     pend |-> {},                           \* methods still to be rewritten
     target |-> None,                       \* the method to be made primary
     count |-> 0,                           \* attempts or rate as read
     swallowed |-> FALSE]                   \* a failed call was taken for an answer

Become(r, q) == req' = [req EXCEPT ![r] = q]

\* A call that answers, or throws, leaves nothing behind.
Answer(r) == Become(r, Idle)

Throw(r) == RedisMayFail /\ Answer(r) /\ UNCHANGED <<redis, facts, told>>

Start(r, op, pc, m, c) ==
    /\ op \in Kinds /\ req[r].pc = "idle"
    /\ Become(r, [Idle EXCEPT !.pc = pc, !.op = op, !.m = m, !.c = c])

-----------------------------------------------------------------------------
(* getUserMFAMethods, and what its four callers do with the list.          *)

Listed(q) == {m \in Methods : q.found[m].stored}
Usable(q) == {m \in Listed(q) : q.found[m].enabled}

\* Faulty variant: the method to be removed counts among those left.
AfterListItself(q) ==
    IF q.target # None
    THEN {IF Listed(q) = {} THEN Idle ELSE [q EXCEPT !.pc = "rewrite", !.pend = Listed(q)]}
    ELSE CASE q.op = "confirm" -> {[q EXCEPT !.pc = "confirmStore"]}
           [] q.op = "remove" -> {IF Usable(q) = {} THEN Idle ELSE [q EXCEPT !.pc = "delete"]}
           [] OTHER -> IF Usable(q) = {} THEN {Idle}
                       ELSE {[q EXCEPT !.pc = "rateRead", !.m = m, !.found = Idle.found]
                                : m \in Usable(q)}

\* setPrimaryMFAMethod rewrites what was listed; removeMFAMethod refuses to
\* remove the last active method; a challenge takes the requested type, the
\* primary or the first method: any active one here.
AfterList(q) ==
    IF q.target # None
    THEN {IF Listed(q) = {} THEN Idle ELSE [q EXCEPT !.pc = "rewrite", !.pend = Listed(q)]}
    ELSE CASE q.op = "confirm" -> {[q EXCEPT !.pc = "confirmStore"]}
           [] q.op = "remove" -> {IF Usable(q) \ {q.m} = {} THEN Idle
                                  ELSE [q EXCEPT !.pc = "delete"]}
           [] OTHER -> IF Usable(q) = {} THEN {Idle}
                       ELSE {[q EXCEPT !.pc = "rateRead", !.m = m, !.found = Idle.found]
                                : m \in Usable(q)}

ReadOn(q) == IF q.todo = {} THEN AfterList(q) ELSE {[q EXCEPT !.pc = "read"]}

\* sMembers answers [] when Redis fails.
Members(r) ==
    /\ req[r].pc = "members"
    /\ \E ids \in {members} \cup (IF RedisMayFail THEN {{}} ELSE {}) :
       \E q \in ReadOn([req[r] EXCEPT !.todo = ids, !.found = Idle.found,
                                      !.swallowed = @ \/ ids # members]) :
          Become(r, q)
    /\ UNCHANGED <<redis, facts, told>>

Read(r) ==
    /\ req[r].pc = "read"
    /\ \/ /\ \E m \in req[r].todo :
             \E q \in ReadOn([req[r] EXCEPT !.todo = @ \ {m}, !.found[m] = method[m]]) :
                Become(r, q)
          /\ UNCHANGED <<redis, facts, told>>
       \/ Throw(r)

-----------------------------------------------------------------------------
(* setupMFAMethod, verifyMFASetup.                                         *)

\* Bound: no more set-ups than identifiers are left.
StartSetup(r) ==
    /\ Cardinality({s \in Requests : req[s].pc = "setupStore"})
          < Cardinality({m \in Methods : kind[m] = None})
    /\ Start(r, "setup", "setupStore", None, None)
    /\ UNCHANGED <<redis, facts, told>>

SetupStore(r) ==
    /\ req[r].pc = "setupStore"
    /\ \/ \E m \in Methods, t \in MethodTypes :
          /\ kind[m] = None
          /\ kind' = [kind EXCEPT ![m] = t]
          /\ method' = [method EXCEPT ![m] = [Absent EXCEPT !.stored = TRUE]]
          /\ Become(r, IF t \in Sent THEN [req[r] EXCEPT !.pc = "setupCode", !.m = m] ELSE Idle)
          /\ UNCHANGED <<members, setupCode, challenge, rate, about, late, renewed, told>>
       \/ Throw(r)

SetupCode(r) ==
    /\ req[r].pc = "setupCode"
    /\ \/ /\ setupCode' = setupCode \cup {req[r].m}
          /\ Answer(r)
          /\ UNCHANGED <<method, members, challenge, rate, facts, told>>
       \/ Throw(r)

\* setupMFAMethod has answered: its caller knows the identifier.
Known(m) == kind[m] # None /\ \A s \in Requests : req[s].pc = "setupCode" => req[s].m # m

StartConfirm(r) ==
    /\ \E m \in Methods : Known(m) /\ Start(r, "confirm", "confirmRead", m, None)
    /\ UNCHANGED <<redis, facts, told>>

\* Faulty variant: a method that is gone is not noticed.
ConfirmReadBlind(r) ==
    /\ req[r].pc = "confirmRead"
    /\ Become(r, [req[r] EXCEPT !.pc = "members", !.copy = method[req[r].m]])
    /\ UNCHANGED <<redis, facts, told>>

\* The code of an authenticator is compared at once, it may be wrong.
ConfirmRead(r) ==
    /\ req[r].pc = "confirmRead"
    /\ LET m == req[r].m
           seen == [req[r] EXCEPT !.copy = method[m]] IN
       \/ ~method[m].stored /\ Answer(r)
       \/ /\ method[m].stored /\ kind[m] \in Sent
          /\ Become(r, [seen EXCEPT !.pc = "confirmCode"])
       \/ /\ method[m].stored /\ kind[m] \notin Sent
          /\ Become(r, [seen EXCEPT !.pc = "members"])
       \/ (RedisMayFail \/ kind[m] \notin Sent) /\ Answer(r)
    /\ UNCHANGED <<redis, facts, told>>

ConfirmCode(r) ==
    /\ req[r].pc = "confirmCode"
    /\ \/ req[r].m \in setupCode /\ Become(r, [req[r] EXCEPT !.pc = "members"])
       \/ Answer(r)
    /\ UNCHANGED <<redis, facts, told>>

\* The copy is enabled, and primary when no method was listed.
ConfirmStore(r) ==
    /\ req[r].pc = "confirmStore"
    /\ \/ LET q == req[r] IN
          /\ method' = [method EXCEPT ![q.m] = [stored |-> TRUE, enabled |-> TRUE,
                            primary |-> q.copy.primary \/ Listed(q) = {}]]
          /\ Become(r, [q EXCEPT !.pc = "confirmAdd", !.copy = Absent, !.found = Idle.found])
          /\ UNCHANGED <<members, setupCode, challenge, rate, facts, told>>
       \/ Throw(r)

\* sAdd does not report a failure.
ConfirmAdd(r) ==
    /\ req[r].pc = "confirmAdd"
    /\ \/ /\ members' = members \cup {req[r].m}
          /\ Become(r, [req[r] EXCEPT !.pc = "confirmClean"])
       \/ /\ RedisMayFail
          /\ Become(r, [req[r] EXCEPT !.pc = "confirmClean", !.swallowed = TRUE])
          /\ UNCHANGED members
    /\ UNCHANGED <<method, setupCode, challenge, rate, facts, told>>

\* generateBackupCodes writes a key of its own, for TOTP; it may throw.
ConfirmClean(r) ==
    /\ req[r].pc = "confirmClean"
    /\ \/ /\ setupCode' = setupCode \ {req[r].m}
          /\ Answer(r)
          /\ UNCHANGED <<method, members, challenge, rate, facts, told>>
       \/ Throw(r)

-----------------------------------------------------------------------------
(* removeMFAMethod, setPrimaryMFAMethod.                                   *)

StartRemove(r) ==
    /\ \E m \in Methods : Known(m) /\ Start(r, "remove", "removeRead", m, None)
    /\ UNCHANGED <<redis, facts, told>>

RemoveRead(r) ==
    /\ req[r].pc = "removeRead"
    /\ LET m == req[r].m IN
       \/ method[m].stored /\ Become(r, [req[r] EXCEPT !.pc = "members", !.copy = method[m]])
       \/ ~method[m].stored /\ Answer(r)
       \/ RedisMayFail /\ Answer(r)
    /\ UNCHANGED <<redis, facts, told>>

Delete(r) ==
    /\ req[r].pc = "delete"
    /\ \/ /\ method' = [method EXCEPT ![req[r].m] = Absent]
          /\ Become(r, [req[r] EXCEPT !.pc = "unlist"])
          /\ UNCHANGED <<members, setupCode, challenge, rate, facts, told>>
       \/ Throw(r)

\* sRem does not report a failure.  The removal of the primary goes on with
\* setPrimaryMFAMethod of the newest active method, any of them here.
Unlist(r) ==
    /\ req[r].pc = "unlist"
    /\ LET q == req[r] IN
       /\ \/ members' = members \ {q.m}
          \/ RedisMayFail /\ UNCHANGED members
       /\ removed' = removed \cup {q.m}
       /\ IF q.copy.primary
          THEN \E t \in Usable(q) \ {q.m} :
                  Become(r, [q EXCEPT !.pc = "members", !.target = t])
          ELSE Answer(r)
    /\ UNCHANGED <<method, setupCode, challenge, rate, facts, wrong, wins, started>>

StartPrimary(r) ==
    /\ \E m \in Methods :
          /\ Known(m)
          /\ "primary" \in Kinds /\ req[r].pc = "idle"
          /\ Become(r, [Idle EXCEPT !.pc = "members", !.op = "primary", !.target = m])
    /\ UNCHANGED <<redis, facts, told>>

\* Faulty variant: the list is taken in any order.
RewriteUnsorted(r) ==
    /\ req[r].pc = "rewrite"
    /\ \/ \E m \in req[r].pend :
          LET q == req[r]
              rest == q.pend \ {m} IN
          /\ method' = [method EXCEPT ![m] = [q.found[m] EXCEPT !.primary = (m = q.target)]]
          /\ IF rest = {} THEN Answer(r) ELSE Become(r, [q EXCEPT !.pend = rest])
          /\ UNCHANGED <<members, setupCode, challenge, rate, facts, told>>
       \/ Throw(r)

\* The list is sorted, primary methods first; one SET for each of them.
Rewrite(r) ==
    /\ req[r].pc = "rewrite"
    /\ \/ \E m \in req[r].pend :
          LET q == req[r]
              rest == q.pend \ {m} IN
          /\ q.found[m].primary \/ \A n \in q.pend : ~q.found[n].primary
          /\ method' = [method EXCEPT ![m] = [q.found[m] EXCEPT !.primary = (m = q.target)]]
          /\ IF rest = {} THEN Answer(r) ELSE Become(r, [q EXCEPT !.pend = rest])
          /\ UNCHANGED <<members, setupCode, challenge, rate, facts, told>>
       \/ Throw(r)

-----------------------------------------------------------------------------
(* initiateMFAChallenge, checkRateLimit.                                   *)

\* Bound: no more challenges than identifiers are left.
StartChallenge(r) ==
    /\ Cardinality({s \in Requests : req[s].op = "challenge"})
          < Cardinality({c \in Challenges : about[c] = None})
    /\ Start(r, "challenge", "members", None, None)
    /\ UNCHANGED <<redis, facts, told>>

\* Faulty variant: off by one at the limit.
RateReadOver(r) ==
    /\ req[r].pc = "rateRead"
    /\ \/ rate > RateLimit /\ Answer(r)
       \/ rate <= RateLimit /\ Become(r, [req[r] EXCEPT !.pc = "rateWrite", !.count = rate])
       \/ RedisMayFail /\ Answer(r)
    /\ UNCHANGED <<redis, facts, told>>

RateRead(r) ==
    /\ req[r].pc = "rateRead"
    /\ \/ rate >= RateLimit /\ Answer(r)
       \/ rate < RateLimit /\ Become(r, [req[r] EXCEPT !.pc = "rateWrite", !.count = rate])
       \/ RedisMayFail /\ Answer(r)
    /\ UNCHANGED <<redis, facts, told>>

RateWrite(r) ==
    /\ req[r].pc = "rateWrite"
    /\ \/ /\ rate' = req[r].count + 1
          /\ started' = started + 1
          /\ Become(r, [req[r] EXCEPT !.pc = "challengeStore", !.count = 0])
          /\ UNCHANGED <<method, members, setupCode, challenge, facts, wrong, wins, removed>>
       \/ Throw(r)

ChallengeStore(r) ==
    /\ req[r].pc = "challengeStore"
    /\ \/ \E c \in Challenges :
          /\ about[c] = None
          /\ about' = [about EXCEPT ![c] = req[r].m]
          /\ challenge' = [challenge EXCEPT ![c] = [stored |-> TRUE, attempts |-> MaxAttempts]]
          /\ Answer(r)
          /\ UNCHANGED <<method, members, setupCode, rate, kind, late, renewed, told>>
       \/ Throw(r)

-----------------------------------------------------------------------------
(* verifyMFAChallenge.                                                     *)

StartVerify(r) ==
    /\ \E c \in Challenges : about[c] # None /\ Start(r, "verify", "loadChallenge", None, c)
    /\ UNCHANGED <<redis, facts, told>>

LoadChallenge(r) ==
    /\ req[r].pc = "loadChallenge"
    /\ LET c == req[r].c
           found == challenge[c].stored IN
       \/ ~found /\ Answer(r)
       \/ found /\ c \in late /\ Become(r, [req[r] EXCEPT !.pc = "dropLate"])
       \/ found /\ c \notin late /\ challenge[c].attempts <= 0 /\ Answer(r)
       \/ /\ found /\ c \notin late /\ challenge[c].attempts > 0
          /\ Become(r, [req[r] EXCEPT !.pc = "loadMethod", !.count = challenge[c].attempts,
                                      !.m = about[c]])
       \/ RedisMayFail /\ Answer(r)
    /\ UNCHANGED <<redis, facts, told>>

DropLate(r) ==
    /\ req[r].pc = "dropLate"
    /\ \/ /\ challenge' = [challenge EXCEPT ![req[r].c] = NoChallenge]
          /\ Answer(r)
          /\ UNCHANGED <<method, members, setupCode, rate, facts, told>>
       \/ Throw(r)

\* The code is compared right after this read.
LoadMethod(r) ==
    /\ req[r].pc = "loadMethod"
    /\ LET m == req[r].m IN
       \/ ~method[m].stored /\ Answer(r)
       \/ /\ method[m].stored
          /\ \E judged \in {"drop", "charge"} :
                Become(r, [req[r] EXCEPT !.pc = judged, !.copy = method[m]])
       \/ RedisMayFail /\ Answer(r)
    /\ UNCHANGED <<redis, facts, told>>

\* Faulty variant: an accepted challenge stays.
DropNothing(r) ==
    /\ req[r].pc = "drop"
    /\ Become(r, [req[r] EXCEPT !.pc = "touch"])
    /\ UNCHANGED <<redis, facts, told>>

\* The right code: the challenge goes, lastUsedAt is written, and the device
\* may be trusted, which writes other keys and may throw.
Drop(r) ==
    /\ req[r].pc = "drop"
    /\ \/ /\ challenge' = [challenge EXCEPT ![req[r].c] = NoChallenge]
          /\ Become(r, [req[r] EXCEPT !.pc = "touch"])
          /\ UNCHANGED <<method, members, setupCode, rate, facts, told>>
       \/ Throw(r)

Touch(r) ==
    /\ req[r].pc = "touch"
    /\ \/ /\ method' = [method EXCEPT ![req[r].m] = req[r].copy]
          /\ Become(r, [req[r] EXCEPT !.pc = "trust", !.copy = Absent])
          /\ UNCHANGED <<members, setupCode, challenge, rate, facts, told>>
       \/ Throw(r)

Trust(r) ==
    /\ req[r].pc = "trust"
    /\ \/ /\ wins' = [wins EXCEPT ![req[r].c] = @ + 1]
          /\ Answer(r)
          /\ UNCHANGED <<redis, facts, wrong, removed, started>>
       \/ Throw(r)

\* Faulty variant: the wrong code costs nothing.
ChargeNothing(r) ==
    /\ req[r].pc = "charge"
    /\ LET c == req[r].c IN
       /\ challenge' = [challenge EXCEPT ![c] = [stored |-> TRUE, attempts |-> req[r].count]]
       /\ renewed' = renewed \cup {c}
       /\ wrong' = [wrong EXCEPT ![c] = @ + 1]
    /\ Answer(r)
    /\ UNCHANGED <<method, members, setupCode, rate, kind, about, late, wins, removed, started>>

\* A wrong code: the copy is written with one attempt less and a new TTL.
Charge(r) ==
    /\ req[r].pc = "charge"
    /\ \/ LET c == req[r].c IN
          /\ challenge' = [challenge EXCEPT ![c] = [stored |-> TRUE, attempts |-> req[r].count - 1]]
          /\ renewed' = renewed \cup {c}
          /\ wrong' = [wrong EXCEPT ![c] = @ + 1]
          /\ Answer(r)
          /\ UNCHANGED <<method, members, setupCode, rate, kind, about, late, wins, removed, started>>
       \/ Throw(r)

-----------------------------------------------------------------------------
(* Time.  A verified method lives for a year and does not expire here.     *)

MethodLapses(m) ==
    /\ method[m].stored /\ ~method[m].enabled
    /\ method' = [method EXCEPT ![m] = Absent]
    /\ UNCHANGED <<members, setupCode, challenge, rate, facts, req, told>>

SetupCodeLapses(m) ==
    /\ m \in setupCode
    /\ setupCode' = setupCode \ {m}
    /\ UNCHANGED <<method, members, challenge, rate, facts, req, told>>

\* expiresAt passes; the key goes with it unless it was written again.
Deadline(c) ==
    /\ about[c] # None /\ c \notin late
    /\ late' = late \cup {c}
    /\ challenge' = IF c \in renewed THEN challenge ELSE [challenge EXCEPT ![c] = NoChallenge]
    /\ UNCHANGED <<method, members, setupCode, rate, kind, about, renewed, req, told>>

ChallengeLapses(c) ==
    /\ c \in late /\ challenge[c].stored
    /\ challenge' = [challenge EXCEPT ![c] = NoChallenge]
    /\ UNCHANGED <<method, members, setupCode, rate, facts, req, told>>

\* windowMinutes after the last count.
RateLapses ==
    /\ rate > 0
    /\ rate' = 0 /\ started' = 0
    /\ UNCHANGED <<method, members, setupCode, challenge, facts, req, wrong, wins, removed>>

Time ==
    \/ \E m \in Methods : MethodLapses(m) \/ SetupCodeLapses(m)
    \/ \E c \in Challenges : Deadline(c) \/ ChallengeLapses(c)
    \/ RateLapses

-----------------------------------------------------------------------------
(* The overlaps that break the guarantees of the service, as history.      *)

\* r has read method m and may write what it has read.
Holds(r, m) ==
    \/ /\ req[r].op = "confirm" /\ req[r].m = m
       /\ req[r].pc \in {"confirmCode", "members", "read", "confirmStore"}
    \/ /\ req[r].target # None
       /\ \/ req[r].pc = "read" /\ req[r].found[m].stored
          \/ req[r].pc = "rewrite" /\ m \in req[r].pend
    \/ req[r].op = "verify" /\ req[r].m = m /\ req[r].pc \in {"drop", "touch"}

\* Method m is about to be deleted while another call holds a copy of it.
Stale(m) ==
    \E r, s \in Requests :
        req[r].op = "remove" /\ req[r].m = m /\ req[r].pc = "delete" /\ Holds(s, m)

\* r decides, or has decided, that another method is left when m is gone.
Leaving(r) == req[r].op = "remove" /\ req[r].target = None /\ req[r].pc \in {"read", "delete", "unlist"}

Crossed == \E r, s \in Requests : Leaving(r) /\ Leaving(s) /\ req[r].m # req[s].m

\* r reads or writes which method is the primary.
Mixing(r) ==
    \/ /\ req[r].op = "confirm"
       /\ req[r].pc \in {"confirmCode", "members", "read", "confirmStore", "confirmAdd"}
    \/ req[r].target # None
    \/ /\ req[r].op = "remove"
       /\ req[r].pc \in {"members", "read", "delete", "unlist"}
    \/ req[r].op = "verify" /\ req[r].pc \in {"drop", "touch"}

Mixed ==
    \/ \E r, s \in Requests : /\ r # s /\ Mixing(r) /\ Mixing(s)
                              /\ req[r].op # "verify"
    \/ \E r \in Requests : req[r].op = "confirm" /\ req[r].swallowed

Rushed == \E r, s \in Requests : r # s /\ req[r].pc = "rateWrite" /\ req[s].pc = "rateWrite"

\* r has loaded challenge c and will decide on what it has loaded.
Judging(r, c) == req[r].op = "verify" /\ req[r].c = c /\ req[r].pc \in {"loadMethod", "drop", "charge"}

Contested(c) == \E r, s \in Requests : r # s /\ Judging(r, c) /\ Judging(s, c)

History ==
    /\ mixed' = (mixed \/ Mixed')
    /\ crossed' = (crossed \/ Crossed')
    /\ rushed' = (rushed \/ Rushed')
    /\ contested' = contested \cup {c \in Challenges : Contested(c)'}
    /\ stale' = stale \cup {m \in Methods : Stale(m)'}

-----------------------------------------------------------------------------

Init ==
    /\ method = [m \in Methods |-> Absent]
    /\ members = {} /\ setupCode = {}
    /\ challenge = [c \in Challenges |-> NoChallenge]
    /\ rate = 0
    /\ kind = [m \in Methods |-> None]
    /\ about = [c \in Challenges |-> None]
    /\ late = {} /\ renewed = {}
    /\ req = [r \in Requests |-> Idle]
    /\ wrong = [c \in Challenges |-> 0]
    /\ wins = [c \in Challenges |-> 0]
    /\ removed = {} /\ started = 0
    /\ mixed = FALSE /\ crossed = FALSE /\ rushed = FALSE
    /\ contested = {} /\ stale = {}

\* The routes of mu-auth, which ExtendedAuthService passes on; a login waits
\* for its challenge, a verification for its outcome.  Only the library offers
\* setPrimaryMFAMethod.
MethodRoutes(r) == StartSetup(r) \/ StartConfirm(r) \/ StartRemove(r)
LoginRoutes(r) == StartChallenge(r) \/ StartVerify(r)
Arrive(r) == MethodRoutes(r) \/ LoginRoutes(r) \/ StartPrimary(r)

Advance(r) ==
    \/ SetupStore(r) \/ SetupCode(r) \/ ConfirmRead(r) \/ ConfirmCode(r)
    \/ Members(r) \/ Read(r) \/ ConfirmStore(r) \/ ConfirmAdd(r) \/ ConfirmClean(r)
    \/ RemoveRead(r) \/ Delete(r) \/ Unlist(r) \/ Rewrite(r)
    \/ RateRead(r) \/ RateWrite(r) \/ ChallengeStore(r)
    \/ LoadChallenge(r) \/ DropLate(r) \/ LoadMethod(r)
    \/ Drop(r) \/ Touch(r) \/ Trust(r) \/ Charge(r)

Next == ((\E r \in Requests : Arrive(r) \/ Advance(r)) \/ Time) /\ History

Spec == Init /\ [][Next]_vars

-----------------------------------------------------------------------------
(* Properties.                                                             *)

PCs == {"idle", "setupStore", "setupCode", "confirmRead", "confirmCode", "members", "read",
        "confirmStore", "confirmAdd", "confirmClean", "removeRead", "delete", "unlist",
        "rewrite", "rateRead", "rateWrite", "challengeStore", "loadChallenge", "dropLate",
        "loadMethod", "drop", "touch", "trust", "charge"}

Value == [stored : BOOLEAN, enabled : BOOLEAN, primary : BOOLEAN]

Request ==
    [pc : PCs, op : Ops \cup {None}, m : Methods \cup {None}, c : Challenges \cup {None},
     copy : Value, found : [Methods -> Value], todo : SUBSET Methods, pend : SUBSET Methods,
     target : Methods \cup {None}, count : Nat, swallowed : BOOLEAN]

\* Types; attemptsRemaining never goes below zero.
TypeOK ==
    /\ method \in [Methods -> Value]
    /\ members \subseteq Methods /\ setupCode \subseteq Methods
    /\ challenge \in [Challenges -> [stored : BOOLEAN, attempts : 0..MaxAttempts]]
    /\ rate \in Nat
    /\ kind \in [Methods -> MethodTypes \cup {None}]
    /\ about \in [Challenges -> Methods \cup {None}]
    /\ late \subseteq Challenges /\ renewed \subseteq Challenges
    /\ req \in [Requests -> Request]
    /\ wrong \in [Challenges -> Nat] /\ wins \in [Challenges -> Nat]
    /\ removed \subseteq Methods /\ started \in Nat
    /\ {mixed, crossed, rushed} \subseteq BOOLEAN
    /\ contested \subseteq Challenges /\ stale \subseteq Methods

\* The methods a user can pass a challenge with.
Active == {m \in members : method[m].stored /\ method[m].enabled}

\* maxAttempts: unless two verifications of a challenge overlap, it takes at
\* most that many wrong codes, even after it expired or a write failed.
GuessesBounded == \A c \in Challenges \ contested : wrong[c] <= MaxAttempts

\* verifyMFAChallenge deletes the challenge it accepts: unless verifications
\* overlap, a challenge is accepted once.
AcceptedOnce == \A c \in Challenges \ contested : wins[c] <= 1

\* removeMFAMethod: a deleted method is not written back, so that challenges
\* for it fail, unless another call held a copy of it at that moment.
RemovedStaysRemoved == \A m \in removed \ stale : ~method[m].stored

\* removeMFAMethod, "Cannot remove the last active MFA method": a user who
\* has an active method keeps one, unless two removals overlap.
KeepsAMethod == [][Active # {} /\ ~crossed' => Active' # {}]_vars

\* At most one method is the primary, whatever fails half-way, unless two
\* calls that write methods overlap or a failure was taken for an answer.
OnePrimary ==
    ~mixed => \A m, n \in Active : method[m].primary /\ method[n].primary => m = n

\* checkRateLimit: between two lapses of the counter no more challenges are
\* let through than the limit, unless two calls read the same count.
RateHolds == ~rushed => started <= RateLimit
=============================================================================
