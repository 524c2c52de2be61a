--------------------------- MODULE AccountsProofs ---------------------------
(***************************************************************************)
(* Theorems about Accounts, for every value of its constants.              *)
(***************************************************************************)
EXTENDS Accounts, TLAPS

-----------------------------------------------------------------------------
(* The inductive invariant.                                                *)

\* When a user last was what is told of him: known to Keycloak, or not.
TrueAt(u, kind) ==
    IF kind = "real" THEN LastSeen(u)
    ELSE IF LastMissed(u) < LastOut THEN LastOut ELSE LastMissed(u)

PastIsPast == down <= now /\ \A u \in Users : seen[u] <= now /\ missed[u] <= now

\* Waits that pass before what was learnt of a user is in the cache.
Span(kind) == IF kind = "real" THEN 2 * Lag ELSE 4 * Lag

\* A token that ends at exp, and that when the wait which began at `at` is over has been
\* through n of them: it came out of the cache, or was granted in a wait before the first.
Lasts(exp, at, n) ==
    \/ at + Margin < exp + n * Lag
    \/ at + AdminLife <= exp + n * Lag

\* A cached admin token is given up sixty seconds before it ends, but for the wait in
\* which it arrived.
Lasting(token) == token.until = Never \/ token.until + Margin <= token.exp + Lag

\* Waits of registerUser for the look-ups, before its own token is used.
OwnWaits(call) ==
    IF call.goal = "email" THEN IF call.stage = "asking" THEN 2 ELSE 1
    ELSE IF call.stage = "asking" THEN 4 ELSE 3

\* How far a call at work has come: what it is about to tell was so when the wait began in
\* which it learnt it, and the admin tokens in its hands have been through the waits since.
Sound(call) ==
    /\ Working(call) => /\ call.user \in Users
                        /\ call.since <= now /\ now <= call.since + Lag
    /\ call.stage = "granted" => call.since + AdminLife <= call.held
    /\ call.stage = "asking" => Lasts(call.held, call.since, Waits(call.goal))
    /\ Working(call) /\ (call.goal = "name" \/ (call.goal = "email" /\ call.op = "register"))
         => Lasts(call.own, call.since, OwnWaits(call))
    /\ call.stage \in {"fetching", "granted"} =>
         /\ call.goal \notin {"create", "roles", "assign", "mail"}
         /\ call.op \in InfoOps => call.goal \in {"user", "introspect"}
    /\ call.stage \in {"fetching", "granted"} /\ call.goal = "introspect"
         => call.since <= TrueAt(call.user, "made") + Lag
    /\ call.stage = "asking" /\ call.goal = "introspect"
         => call.since <= TrueAt(call.user, "made") + 2 * Lag
    /\ call.stage = "storing" => /\ call.kind \in Kinds
                                 /\ call.since + Lag <= TrueAt(call.user, call.kind) + Span(call.kind)
    /\ call.stage = "asking" /\ call.goal \in {"roles", "assign", "mail"}
         => LongAgo < TrueAt(call.user, "real")
    /\ call.stage = "told" => call.user \in Users /\ call.kind \in Kinds

CallsSound == \A c \in Calls : Sound(calls[c])

InfoTells(u, info) ==
    info.until # Never => info.until <= TrueAt(u, info.kind) + CacheTTL + Span(info.kind)
InfosTell == \A u \in Users : InfoTells(u, infos[u])

RowTells(u, row) == row # None => LongAgo < TrueAt(u, row)
RowsTell == \A u \in Users : RowTells(u, rows[u])

IInv ==
    /\ TypeOK /\ PastIsPast /\ Lasting(admin)
    /\ CallsSound /\ InfosTell /\ RowsTell

-----------------------------------------------------------------------------
(* Types.                                                                  *)

LEMMA Times ==
    /\ AdminLife \in Nat /\ Margin \in Nat /\ CacheTTL \in Nat
    /\ SessionTTL \in Nat /\ Lag \in Nat
    /\ 2 * Lag <= Margin /\ 2 * Lag < AdminLife
    /\ \A kind : Span(kind) \in Nat /\ 2 * Lag <= Span(kind) /\ Span(kind) <= 4 * Lag
    /\ LongAgo \in Int /\ LongAgo = 0 - (4 * Lag + CacheTTL) - 1
<1>1. /\ AdminLife \in Nat /\ Margin \in Nat /\ CacheTTL \in Nat
      /\ SessionTTL \in Nat /\ Lag \in Nat /\ 2 * Lag <= Margin /\ 2 * Lag < AdminLife
  BY TimesAssumption, MarginAssumption, LifeAssumption
<1> QED BY <1>1 DEF Span, LongAgo

LEMMA Words ==
    /\ {"idle", "fetching", "granted", "asking", "storing", "told", "valid"} = Stages
    /\ {"real", "made"} = Kinds
    /\ {"info", "session", "validate"} = InfoOps
    /\ InfoOps \cup {"token", "register", "reset", "change"} = Ops
    /\ {"none", "user", "introspect", "own", "email", "name", "create",
        "roles", "assign", "mail", "change"} = Goals
    /\ {"account", "row"} = Names
    /\ Waits("create") = 5 /\ Waits("roles") = 6 /\ Waits("assign") = 7 /\ Waits("mail") = 8
    /\ \A goal : goal \notin {"create", "roles", "assign", "mail"} => Waits(goal) = 1
  BY DEF Stages, Kinds, InfoOps, Ops, Goals, Names, Waits

LEMMA CallTypes ==
    ASSUME NEW call \in Call
    PROVE  /\ call.op \in Ops \cup {"none"} /\ call.stage \in Stages /\ call.goal \in Goals
           /\ call.user \in Users \cup {None} /\ call.cookie \in Cookies \cup {None}
           /\ call.since \in Nat /\ call.held \in Int /\ call.own \in Int
           /\ call.kind \in Kinds \cup {"none"} /\ call.by \in Names \cup {"none"}
  BY DEF Call

\* What is left of a call that is about another answer now.
Same(next, call) ==
    /\ next.op = call.op /\ next.user = call.user /\ next.cookie = call.cookie
    /\ next.by = call.by

LEMMA IdleType == Idle \in Call /\ Idle.stage = "idle"
  BY Words DEF Idle, Call, Never

LEMMA AskingType ==
    ASSUME NEW call \in Call, NEW goal \in Goals, NEW exp \in Int, now \in Nat
    PROVE  /\ Asking(call, goal, exp) \in Call /\ Same(Asking(call, goal, exp), call)
           /\ Asking(call, goal, exp).stage = "asking" /\ Asking(call, goal, exp).goal = goal
           /\ Asking(call, goal, exp).since = now /\ Asking(call, goal, exp).held = exp
           /\ Asking(call, goal, exp).own = call.own
<1>1. "asking" \in Stages
  BY DEF Stages
<1>2. Asking(call, goal, exp) \in Call
  BY <1>1 DEF Asking, Call
<1> QED BY <1>2 DEF Asking, Call, Same

Fetching(call, goal) ==
    [call EXCEPT !.stage = "fetching", !.goal = goal, !.since = now, !.held = Never]

LEMMA FetchingType ==
    ASSUME NEW call \in Call, NEW goal \in Goals, now \in Nat
    PROVE  /\ Fetching(call, goal) \in Call /\ Same(Fetching(call, goal), call)
           /\ Fetching(call, goal).stage = "fetching" /\ Fetching(call, goal).goal = goal
           /\ Fetching(call, goal).since = now /\ Fetching(call, goal).own = call.own
<1>1. "fetching" \in Stages /\ Never \in Int
  BY DEF Stages, Never
<1>2. Fetching(call, goal) \in Call
  BY <1>1 DEF Fetching, Call
<1>3. Same(Fetching(call, goal), call)
  BY DEF Fetching, Call, Same
<1>4. /\ Fetching(call, goal).stage = "fetching" /\ Fetching(call, goal).goal = goal
      /\ Fetching(call, goal).since = now /\ Fetching(call, goal).own = call.own
  BY DEF Fetching, Call
<1> QED BY <1>2, <1>3, <1>4

Granted(call, exp) == [call EXCEPT !.stage = "granted", !.held = exp]

LEMMA GrantedType ==
    ASSUME NEW call \in Call, NEW exp \in Int
    PROVE  /\ Granted(call, exp) \in Call /\ Same(Granted(call, exp), call)
           /\ Granted(call, exp).stage = "granted" /\ Granted(call, exp).goal = call.goal
           /\ Granted(call, exp).since = call.since /\ Granted(call, exp).held = exp
           /\ Granted(call, exp).own = call.own
<1>1. "granted" \in Stages
  BY DEF Stages
<1>2. Granted(call, exp) \in Call
  BY <1>1 DEF Granted, Call
<1> QED BY <1>2 DEF Granted, Call, Same

LEMMA OwnType ==
    ASSUME NEW call \in Call, NEW exp \in Int, NEW next, next = [call EXCEPT !.own = exp]
    PROVE  next \in Call /\ Same(next, call) /\ next.own = exp
  BY DEF Call, Same

LEMMA LearntType ==
    ASSUME NEW call \in Call, NEW kind \in Kinds, now \in Nat
    PROVE  /\ Learnt(call, kind) \in Call /\ Same(Learnt(call, kind), call)
           /\ Learnt(call, kind).stage = "storing" /\ Learnt(call, kind).kind = kind
           /\ Learnt(call, kind).since = now /\ Learnt(call, kind).goal = "none"
<1>1. "storing" \in Stages /\ Never \in Int /\ "none" \in Goals
  BY DEF Stages, Never, Goals
<1>2. Learnt(call, kind) \in Call
  BY <1>1 DEF Learnt, Call
<1>3. Same(Learnt(call, kind), call)
  BY DEF Learnt, Call, Same
<1>4. /\ Learnt(call, kind).stage = "storing" /\ Learnt(call, kind).kind = kind
      /\ Learnt(call, kind).since = now /\ Learnt(call, kind).goal = "none"
  BY DEF Learnt, Call
<1> QED BY <1>2, <1>3, <1>4

LEMMA NewCalls ==
    ASSUME NEW u \in Users, NEW k \in Cookies \cup {None}
    PROVE  /\ \A op \in Ops : /\ Calling(op, u, k) \in Call
                              /\ Calling(op, u, k).op = op /\ Calling(op, u, k).user = u
                              /\ Calling(op, u, k).cookie = k
           /\ \A kind \in Kinds, by \in Names :
                  /\ Telling(u, kind, by) \in Call /\ Telling(u, kind, by).stage = "told"
                  /\ Telling(u, kind, by).user = u /\ Telling(u, kind, by).kind = kind
                  /\ Telling(u, kind, by).by = by
           /\ Valid(k) \in Call /\ Valid(k).stage = "valid"
<1>1. ASSUME NEW op \in Ops
      PROVE  /\ Calling(op, u, k) \in Call
             /\ Calling(op, u, k).op = op /\ Calling(op, u, k).user = u
             /\ Calling(op, u, k).cookie = k
  BY IdleType DEF Calling, Call, Idle
<1>2. ASSUME NEW kind \in Kinds, NEW by \in Names
      PROVE  /\ Telling(u, kind, by) \in Call /\ Telling(u, kind, by).stage = "told"
             /\ Telling(u, kind, by).user = u /\ Telling(u, kind, by).kind = kind
             /\ Telling(u, kind, by).by = by
  BY IdleType, Words DEF Telling, Call, Idle
<1>3. Valid(k) \in Call /\ Valid(k).stage = "valid"
  BY IdleType, Words DEF Valid, Call, Idle
<1> QED BY <1>1, <1>2, <1>3

LEMMA Instants ==
    ASSUME TypeOK
    PROVE  /\ now \in Nat /\ down \in Int
           /\ \A u \in Users : seen[u] \in Int /\ missed[u] \in Int
           /\ LastOut \in Int
           /\ \A u \in Users : LastSeen(u) \in Int /\ LastMissed(u) \in Int
           /\ \A u \in Users : \A kind : TrueAt(u, kind) \in Int
           /\ admin \in [until : Int, exp : Int]
           /\ \A c \in Calls : calls[c] \in Call
           /\ \A u \in Users : infos[u].until \in Int /\ infos[u].kind \in Kinds
           /\ \A u \in Users : rows[u] # None => rows[u] \in Kinds
           /\ \A k \in Cookies : cookies[k] # None =>
                  cookies[k].user \in Users /\ cookies[k].by \in Names
<1>1. now \in Nat /\ down \in Int /\ \A u \in Users : seen[u] \in Int /\ missed[u] \in Int
  BY DEF TypeOK
<1>2. LastOut \in Int /\ \A u \in Users : LastSeen(u) \in Int /\ LastMissed(u) \in Int
  BY <1>1 DEF LastOut, LastSeen, LastMissed
<1>3. \A u \in Users : \A kind : TrueAt(u, kind) \in Int
  BY <1>2 DEF TrueAt
<1>4. admin \in [until : Int, exp : Int] /\ \A c \in Calls : calls[c] \in Call
  BY DEF TypeOK
<1>5. \A u \in Users : infos[u].until \in Int /\ infos[u].kind \in Kinds
  BY DEF TypeOK, Info
<1>6. \A u \in Users : rows[u] # None => rows[u] \in Kinds
  BY DEF TypeOK
<1>7. \A k \in Cookies : cookies[k] # None => cookies[k].user \in Users /\ cookies[k].by \in Names
  BY DEF TypeOK, CookieData
<1> QED BY <1>1, <1>2, <1>3, <1>4, <1>5, <1>6, <1>7

-----------------------------------------------------------------------------
(* Admin tokens.                                                           *)

\* A wait takes Lag at most.
LEMMA LastsOn ==
    ASSUME NEW exp \in Int, NEW at \in Int, NEW next \in Int, NEW n \in Nat,
           Lasts(exp, at, n), next <= at + Lag
    PROVE  Lasts(exp, next, n + 1)
<1>1. (n + 1) * Lag = n * Lag + Lag /\ n * Lag \in Int
  BY Times
<1> QED BY <1>1, Times DEF Lasts

LEMMA LastsMore ==
    ASSUME NEW exp \in Int, NEW at \in Int, NEW n \in Nat, Lasts(exp, at, n)
    PROVE  Lasts(exp, at, n + 1)
  BY LastsOn, Times

\* As long as it is covered, a token has not ended.
LEMMA LastsLive ==
    ASSUME NEW exp \in Int, NEW at \in Int, NEW n \in Nat, now \in Nat,
           Lasts(exp, at, n), Covered(n), now <= at + Lag
    PROVE  now < exp
<1>1. (n + 1) * Lag = n * Lag + Lag /\ n * Lag \in Int
  BY Times
<1>2. n * Lag + Lag <= Margin /\ n * Lag + Lag < AdminLife
  BY <1>1 DEF Covered
<1> QED BY <1>1, <1>2, Times DEF Lasts

LEMMA OneIsCovered == Covered(1)
  BY Times DEF Covered

LEMMA ReceivedLasts ==
    ASSUME now \in Nat, NEW exp \in Int, now + AdminLife <= exp + Lag
    PROVE  /\ AdminReceived(exp) \in [until : Int, exp : Int]
           /\ AdminReceived(exp).exp = exp /\ Lasting(AdminReceived(exp))
           /\ Lasts(exp, now, 1)
<1>1. /\ AdminReceived(exp).until = now + AdminLife - Margin /\ AdminReceived(exp).exp = exp
      /\ AdminReceived(exp) \in [until : Int, exp : Int]
  BY Times DEF AdminReceived
<1> QED BY <1>1, Times DEF Lasting, Lasts

LEMMA CachedLasts ==
    ASSUME now \in Nat, NEW token \in [until : Int, exp : Int], Lasting(token), now < token.until
    PROVE  Lasts(token.exp, now, 1)
<1>1. token.until \in Int /\ token.exp \in Int /\ token.until # Never
  BY DEF Never
<1> QED BY <1>1, Times DEF Lasting, Lasts

-----------------------------------------------------------------------------
(* What time and Keycloak do.                                              *)

\* What was so stays marked with the instant at which it last was.
Marks ==
    /\ now' \in {now, now + 1}
    /\ \A u \in Users, kind \in Kinds : TrueAt(u, kind)' \in {TrueAt(u, kind), now'}

LEMMA Past ==
    ASSUME TypeOK, PastIsPast
    PROVE  /\ LastOut <= now
           /\ \A u \in Users : LastSeen(u) <= now /\ LastMissed(u) <= now
           /\ \A u \in Users, kind \in Kinds : TrueAt(u, kind) <= now
  BY Instants DEF TrueAt, LastSeen, LastMissed, LastOut, PastIsPast

\* What made-up users are told for.
LEMMA Reasons ==
    ASSUME TypeOK, NEW u \in Users
    PROVE  /\ LastOut <= TrueAt(u, "made") /\ LastMissed(u) <= TrueAt(u, "made")
           /\ TrueAt(u, "real") = LastSeen(u)
  BY Instants DEF TrueAt

LEMMA MarksStay ==
    ASSUME now' = now, UNCHANGED keycloak
    PROVE  Marks
  BY DEF Marks, TrueAt, LastSeen, LastMissed, LastOut, keycloak

\* Where accounts and outages change as stated, time is marked as it should be.
LEMMA Marking ==
    ASSUME now' = now,
           \A u \in Users : /\ LastSeen(u)' \in {LastSeen(u), now}
                            /\ TrueAt(u, "made")' \in {TrueAt(u, "made"), now}
    PROVE  Marks
<1>1. \A u \in Users : TrueAt(u, "real") = LastSeen(u) /\ TrueAt(u, "real")' = LastSeen(u)'
  BY DEF TrueAt
<1> QED BY <1>1, Words DEF Marks

LEMMA Creating ==
    ASSUME TypeOK, PastIsPast, NEW u \in Users, ~ exists[u],
           exists' = [exists EXCEPT ![u] = TRUE], missed' = [missed EXCEPT ![u] = now],
           UNCHANGED <<now, up, seen, down>>
    PROVE  /\ Marks /\ PastIsPast' /\ TrueAt(u, "real")' = now
           /\ exists' \in [Users -> BOOLEAN] /\ missed' \in [Users -> Int]
<1>1. /\ exists'[u] /\ missed'[u] = now
      /\ \A v \in Users : v # u => exists'[v] = exists[v] /\ missed'[v] = missed[v]
  BY DEF TypeOK
<1>2. /\ now \in Nat /\ down \in Int /\ down <= now
      /\ \A v \in Users : missed[v] \in Int /\ missed[v] <= now /\ seen[v] <= now
  BY Instants DEF PastIsPast
<1>3. LastSeen(u)' = now /\ LastMissed(u)' = now /\ LastMissed(u) = now /\ LastOut' = LastOut
  BY <1>1 DEF LastSeen, LastMissed, LastOut
<1>4. \A v \in Users : v # u => LastSeen(v)' = LastSeen(v) /\ LastMissed(v)' = LastMissed(v)
  BY <1>1 DEF LastSeen, LastMissed
<1>5. \A v \in Users : TrueAt(v, "made")' = TrueAt(v, "made")
  BY <1>3, <1>4 DEF TrueAt
<1>6. Marks
  BY <1>3, <1>4, <1>5, Marking
<1>7. TrueAt(u, "real")' = now
  BY <1>3 DEF TrueAt
<1>8. exists' \in [Users -> BOOLEAN] /\ missed' \in [Users -> Int]
  BY <1>2 DEF TypeOK
<1>9. PastIsPast'
  BY <1>1, <1>2 DEF PastIsPast
<1> QED BY <1>6, <1>7, <1>8, <1>9

LEMMA Faulting ==
    ASSUME TypeOK, PastIsPast, (\E u \in Users : DeleteAccount(u)) \/ Outage \/ Recovery
    PROVE  /\ Marks /\ PastIsPast' /\ TypeOK' /\ now' = now
           /\ UNCHANGED <<admin, infos, rows, cookies, calls>>
<1>1. now \in Nat /\ down \in Int /\ \A u \in Users : seen[u] \in Int /\ missed[u] \in Int
  BY Instants
<1>2. down <= now /\ \A u \in Users : seen[u] <= now /\ missed[u] <= now
  BY DEF PastIsPast
<1>3. ASSUME NEW u \in Users, DeleteAccount(u)
      PROVE  /\ Marks /\ PastIsPast' /\ TypeOK' /\ now' = now
             /\ UNCHANGED <<admin, infos, rows, cookies, calls>>
  <2>1. /\ exists' = [exists EXCEPT ![u] = FALSE] /\ seen' = [seen EXCEPT ![u] = now]
        /\ exists[u] /\ UNCHANGED <<now, up, missed, down>>
    BY <1>3 DEF DeleteAccount
  <2>2. /\ ~ exists'[u] /\ seen'[u] = now
        /\ \A v \in Users : v # u => exists'[v] = exists[v] /\ seen'[v] = seen[v]
    BY <2>1 DEF TypeOK
  <2>3. LastSeen(u)' = now /\ LastMissed(u)' = now /\ LastOut' = LastOut /\ LastOut <= now
    BY <1>1, <1>2, <2>1, <2>2 DEF LastSeen, LastMissed, LastOut
  <2>4. \A v \in Users : v # u => LastSeen(v)' = LastSeen(v) /\ LastMissed(v)' = LastMissed(v)
    BY <2>1, <2>2 DEF LastSeen, LastMissed
  <2>5. \A v \in Users : TrueAt(v, "made")' \in {TrueAt(v, "made"), now}
    <3>1. now \in Int /\ LastOut \in Int
      BY Instants
    <3>2. TrueAt(u, "made")' = now
      BY <2>3, <3>1 DEF TrueAt
    <3> QED BY <2>3, <2>4, <3>2 DEF TrueAt
  <2>6. Marks
    BY <2>1, <2>3, <2>4, <2>5, Marking
  <2>7. PastIsPast'
    BY <1>1, <1>2, <2>1, <2>2 DEF PastIsPast
  <2>8. TypeOK'
    BY <1>1, <1>3, <2>1 DEF TypeOK, DeleteAccount
  <2> QED BY <1>3, <2>1, <2>6, <2>7, <2>8 DEF DeleteAccount
<1>4. CASE Outage
  <2>1. /\ up' = FALSE /\ now' = now /\ exists' = exists /\ seen' = seen /\ missed' = missed
        /\ down' = down
    BY <1>4 DEF Outage
  <2>2. Marks
    <3>1. \A u \in Users : LastSeen(u)' = LastSeen(u) /\ LastMissed(u)' = LastMissed(u)
      BY <2>1 DEF LastSeen, LastMissed
    <3>2. LastOut' = now /\ \A u \in Users : LastMissed(u) <= now /\ LastMissed(u) \in Int
      BY <2>1, Past, Instants DEF LastOut
    <3>3. \A u \in Users : TrueAt(u, "made")' = now
      BY <1>1, <3>1, <3>2 DEF TrueAt
    <3> QED BY <2>1, <3>1, <3>3, Marking
  <2>3. TypeOK'
    <3>0. up' = FALSE
      BY <2>1
    <3>1. up' \in BOOLEAN
      BY <3>0, Zenon
    <3>2. faults' \in Nat
      BY <1>4 DEF TypeOK, Outage
    <3>3. UNCHANGED <<now, exists, seen, missed, down, admin, infos, rows, cookies, calls, clients>>
      BY <1>4 DEF Outage
    <3> QED BY <3>1, <3>2, <3>3 DEF TypeOK
  <2> QED BY <1>4, <2>1, <2>2, <2>3 DEF Outage, PastIsPast
<1>5. CASE Recovery
  <2>1. /\ ~ up /\ up' /\ down' = now
        /\ now' = now /\ exists' = exists /\ seen' = seen /\ missed' = missed
    BY <1>5 DEF Recovery
  <2>2. Marks
    <3>1. \A u \in Users : LastSeen(u)' = LastSeen(u) /\ LastMissed(u)' = LastMissed(u)
      BY <2>1 DEF LastSeen, LastMissed
    <3>2. LastOut' = LastOut
      BY <2>1 DEF LastOut
    <3>3. \A u \in Users : TrueAt(u, "made")' = TrueAt(u, "made")
      BY <3>1, <3>2 DEF TrueAt
    <3> QED BY <2>1, <3>1, <3>3, Marking
  <2>4. TypeOK'
    BY <1>1, <1>5 DEF TypeOK, Recovery, bounds
  <2>5. PastIsPast'
    BY <1>1, <1>2, <2>1 DEF PastIsPast
  <2> QED BY <1>5, <2>1, <2>2, <2>4, <2>5 DEF Recovery
<1> QED BY <1>3, <1>4, <1>5

LEMMA Ticking ==
    ASSUME TypeOK, PastIsPast, Tick
    PROVE  Marks /\ PastIsPast' /\ TypeOK' /\ now' = now + 1 /\ calls' = calls /\ rows' = rows
<1>1. now \in Nat /\ down \in Int /\ \A u \in Users : seen[u] \in Int /\ missed[u] \in Int
  BY Instants
<1>2. /\ now' = now + 1 /\ UNCHANGED <<exists, up, seen, missed, down, rows, calls, faults, clients>>
  BY DEF Tick, keycloak, bounds
<1>3. Marks
  <2>1. \A u \in Users : /\ LastSeen(u)' \in {LastSeen(u), now'}
                         /\ LastMissed(u)' \in {LastMissed(u), now'}
    BY <1>2 DEF LastSeen, LastMissed
  <2>2. LastOut' \in {LastOut, now'}
    BY <1>2 DEF LastOut
  <2>3. ASSUME NEW u \in Users
        PROVE  TrueAt(u, "made")' \in {TrueAt(u, "made"), now'}
    <3>1. /\ LastOut \in Int /\ LastOut <= now /\ LastMissed(u) \in Int /\ LastMissed(u) <= now
      BY Past, Instants
    <3> QED BY <1>1, <1>2, <2>1, <2>2, <3>1 DEF TrueAt
  <2>4. \A u \in Users : TrueAt(u, "real")' \in {TrueAt(u, "real"), now'}
    BY <2>1 DEF TrueAt
  <2> QED BY <1>2, <2>3, <2>4, Words DEF Marks
<1>4. PastIsPast'
  BY <1>1, <1>2 DEF PastIsPast
<1>5. infos' \in [Users -> Info]
  <2>1. NoInfo \in Info
    BY DEF NoInfo, Info, Never, Kinds
  <2> QED BY <2>1 DEF Tick, TypeOK
<1>6. cookies' \in [Cookies -> CookieData \cup {None}]
  BY DEF Tick, TypeOK
<1>7. admin' \in [until : Int, exp : Int]
  BY DEF Tick, TypeOK, NoAdmin, Never
<1> QED BY <1>1, <1>2, <1>3, <1>4, <1>5, <1>6, <1>7 DEF TypeOK

-----------------------------------------------------------------------------
(* What calls become.                                                      *)

\* What may be told of a user.
Fresh(u, kind) == now <= TrueAt(u, kind) + CacheTTL + Span(kind)

\* What a call becomes: something sound, that tells of an account only what is fresh.
Goes(call) ==
    /\ call \in Call /\ Sound(call)
    /\ call.stage = "told" /\ call.by = "account" => Fresh(call.user, call.kind)

LEMMA EndsSound ==
    /\ Goes(Idle)
    /\ \A u \in Users, k \in Cookies \cup {None} : Goes(Valid(k))
    /\ \A u \in Users, kind \in Kinds, by \in Names :
           (by = "account" => Fresh(u, kind)) => Goes(Telling(u, kind, by))
<1>1. Goes(Idle)
  BY IdleType DEF Goes, Sound, Working
<1>2. \A u \in Users, k \in Cookies \cup {None} : Goes(Valid(k))
  BY NewCalls DEF Goes, Sound, Working
<1>3. ASSUME NEW u \in Users, NEW kind \in Kinds, NEW by \in Names, by = "account" => Fresh(u, kind)
      PROVE  Goes(Telling(u, kind, by))
  <2>1. /\ Telling(u, kind, by) \in Call /\ Telling(u, kind, by).stage = "told"
        /\ Telling(u, kind, by).user = u /\ Telling(u, kind, by).kind = kind
        /\ Telling(u, kind, by).by = by
    BY NewCalls
  <2> QED BY <1>3, <2>1 DEF Goes, Sound, Working
<1> QED BY <1>1, <1>2, <1>3

LEMMA LearntSound ==
    ASSUME TypeOK, NEW call \in Call, NEW kind \in Kinds, call.user \in Users,
           now + Lag <= TrueAt(call.user, kind) + Span(kind)
    PROVE  Goes(Learnt(call, kind))
<1>1. now \in Nat
  BY Instants
<1>2. /\ Learnt(call, kind) \in Call /\ Learnt(call, kind).user = call.user
      /\ Learnt(call, kind).stage = "storing" /\ Learnt(call, kind).kind = kind
      /\ Learnt(call, kind).since = now /\ Learnt(call, kind).goal = "none"
  BY <1>1, LearntType DEF Same
<1> QED BY <1>1, <1>2, Times DEF Goes, Sound, Working

\* A request begins.
LEMMA AskSound ==
    ASSUME TypeOK, NEW call \in Call, call.user \in Users, NEW goal \in Goals, NEW exp \in Int,
           Lasts(exp, now, Waits(goal)),
           goal = "email" /\ call.op = "register" => Lasts(call.own, now, 2),
           goal = "name" => Lasts(call.own, now, 4),
           goal = "introspect" => now <= TrueAt(call.user, "made") + 2 * Lag,
           goal \in {"roles", "assign", "mail"} => LongAgo < TrueAt(call.user, "real")
    PROVE  Goes(Asking(call, goal, exp)) /\ Asking(call, goal, exp).stage = "asking"
<1> DEFINE next == Asking(call, goal, exp)
<1>1. now \in Nat
  BY Instants
<1>2. /\ next \in Call /\ next.op = call.op /\ next.user = call.user
      /\ next.stage = "asking" /\ next.goal = goal /\ next.since = now
      /\ next.held = exp /\ next.own = call.own
  BY <1>1, AskingType DEF Same
<1> HIDE DEF next
<1>3. goal = "email" => OwnWaits(next) = 2
  BY <1>2 DEF OwnWaits
<1>4. goal = "name" => OwnWaits(next) = 4
  BY <1>2 DEF OwnWaits
<1>5. Sound(next)
  BY <1>1, <1>2, <1>3, <1>4, Times DEF Sound, Working
<1> QED BY <1>2, <1>5 DEF Goes, next

\* A call takes a token, from the cache or from Keycloak.
LEMMA TakeSound ==
    ASSUME TypeOK, NEW cache \in [until : Int, exp : Int], Lasting(cache),
           NEW call \in Call, call.user \in Users,
           NEW goal \in Goals \ {"create", "roles", "assign", "mail"},
           call.op \in InfoOps => goal \in {"user", "introspect"},
           goal = "email" /\ call.op = "register" => Lasts(call.own, now, 1),
           goal = "name" => Lasts(call.own, now, 3),
           goal = "introspect" => now <= TrueAt(call.user, "made") + Lag
    PROVE  Goes(TakeToken(call, goal, cache)) /\ TakeToken(call, goal, cache).stage # "told"
<1>1. now \in Nat /\ call.own \in Int /\ TrueAt(call.user, "made") \in Int
  BY Instants, CallTypes
<1>2. CASE now < cache.until
  <2>1. TakeToken(call, goal, cache) = Asking(call, goal, cache.exp)
    BY <1>2 DEF TakeToken
  <2>2. Lasts(cache.exp, now, 1) /\ Waits(goal) = 1 /\ cache.exp \in Int
    BY <1>1, <1>2, CachedLasts, Words
  <2>3. /\ goal = "email" /\ call.op = "register" => Lasts(call.own, now, 2)
        /\ goal = "name" => Lasts(call.own, now, 4)
    <3>1. Lasts(call.own, now, 1) => Lasts(call.own, now, 1 + 1)
      BY <1>1, LastsMore
    <3>2. Lasts(call.own, now, 3) => Lasts(call.own, now, 3 + 1)
      BY <1>1, LastsMore
    <3>3. 1 + 1 = 2 /\ 3 + 1 = 4
      OBVIOUS
    <3> QED BY <3>1, <3>2, <3>3
  <2>4. goal = "introspect" => now <= TrueAt(call.user, "made") + 2 * Lag
    BY <1>1, Times
  <2>5. Goes(Asking(call, goal, cache.exp)) /\ Asking(call, goal, cache.exp).stage = "asking"
    BY <2>2, <2>3, <2>4, AskSound
  <2> QED BY <2>1, <2>5
<1>3. CASE ~ (now < cache.until)
  <2> DEFINE next == Fetching(call, goal)
  <2>1. TakeToken(call, goal, cache) = next
    BY <1>3 DEF TakeToken, Fetching
  <2>2. /\ next \in Call /\ next.op = call.op /\ next.user = call.user
        /\ next.stage = "fetching" /\ next.goal = goal /\ next.since = now /\ next.own = call.own
    BY <1>1, FetchingType DEF Same
  <2> HIDE DEF next
  <2>3. goal = "email" => OwnWaits(next) = 1
    BY <2>2 DEF OwnWaits
  <2>4. goal = "name" => OwnWaits(next) = 3
    BY <2>2 DEF OwnWaits
  <2>5. Sound(next)
    BY <1>1, <2>2, <2>3, <2>4, Times DEF Sound, Working
  <2> QED BY <2>1, <2>2, <2>5 DEF Goes
<1> QED BY <1>2, <1>3

-----------------------------------------------------------------------------
(* The steps of calls.                                                     *)

\* A step of a call, by what it changes.
Advances(c) ==
    /\ \E next : Goes(next) /\ calls' = [calls EXCEPT ![c] = next]
    /\ admin' \in [until : Int, exp : Int] /\ Lasting(admin')
    /\ infos' \in [Users -> Info]
    /\ \A u \in Users : infos'[u] = infos[u] \/ InfoTells(u, infos'[u])
    /\ rows' \in [Users -> Kinds \cup {None}]
    /\ \A u \in Users : rows'[u] = rows[u] \/ RowTells(u, rows'[u])
    /\ cookies' \in [Cookies -> CookieData \cup {None}]
    /\ UNCHANGED <<now, keycloak, bounds>>

\* A step that only leads to another wait, or to the end.
LEMMA Going ==
    ASSUME IInv, NEW c \in Calls, NEW next, Goes(next), calls' = [calls EXCEPT ![c] = next],
           UNCHANGED <<now, keycloak, admin, infos, rows, cookies, bounds>>
    PROVE  Advances(c)
  BY DEF Advances, IInv, TypeOK

\* What a step may rely on of the call it is about.
LEMMA CallFacts ==
    ASSUME IInv, NEW c \in Calls
    PROVE  /\ calls[c] \in Call /\ Sound(calls[c]) /\ TypeOK /\ PastIsPast
           /\ calls[c].since \in Nat /\ calls[c].held \in Int /\ calls[c].own \in Int
           /\ now \in Nat /\ admin \in [until : Int, exp : Int] /\ Lasting(admin)
           /\ Working(calls[c]) =>
                  /\ calls[c].user \in Users
                  /\ calls[c].since <= now /\ now <= calls[c].since + Lag
                  /\ \A kind : TrueAt(calls[c].user, kind) \in Int
<1>1. calls[c] \in Call /\ Sound(calls[c]) /\ TypeOK /\ PastIsPast /\ Lasting(admin)
  BY Instants DEF IInv, CallsSound
<1>2. /\ calls[c].since \in Nat /\ calls[c].held \in Int /\ calls[c].own \in Int
      /\ now \in Nat /\ admin \in [until : Int, exp : Int]
  BY <1>1, CallTypes, Instants
<1> QED BY <1>1, <1>2, Instants DEF Sound

LEMMA Finishing ==
    ASSUME TypeOK, NEW c \in Calls, NEW call \in Call, NEW kind \in Kinds, NEW by \in Names,
           call.user \in Users, by = "account" => Fresh(call.user, kind), Finish(c, call, kind, by)
    PROVE  /\ \E next : Goes(next) /\ calls' = [calls EXCEPT ![c] = next]
           /\ cookies' \in [Cookies -> CookieData \cup {None}]
<1>1. PICK u \in Users : u = call.user
  OBVIOUS
<1>2. \E next : Goes(next) /\ calls' = [calls EXCEPT ![c] = next]
  <2>1. call.cookie \in Cookies \cup {None}
    BY CallTypes
  <2>2. Goes(Telling(u, kind, by)) /\ Goes(Valid(call.cookie)) /\ Goes(Idle)
    BY <1>1, <2>1, EndsSound
  <2>3. CASE call.op = "info"
    BY <1>1, <2>2, <2>3 DEF Finish
  <2>4. CASE call.op = "validate"
    BY <2>2, <2>4 DEF Finish
  <2>5. CASE call.op \notin {"info", "validate"}
    BY <2>2, <2>5 DEF Finish
  <2> QED BY <2>3, <2>4, <2>5
<1>3. cookies' \in [Cookies -> CookieData \cup {None}]
  <2>1. Cookie(u, by) \in CookieData
    BY Instants, Times DEF Cookie, CookieData
  <2>2. cookies' = cookies \/ cookies' = [cookies EXCEPT ![call.cookie] = Cookie(u, by)]
    BY <1>1 DEF Finish
  <2> QED BY <2>1, <2>2 DEF TypeOK
<1> QED BY <1>2, <1>3

LEMMA CopiedTells ==
    ASSUME TypeOK, NEW u \in Users, NEW kind \in Kinds, LongAgo < TrueAt(u, kind),
           rows' \in {rows, Copied(u, kind)}
    PROVE  /\ rows' \in [Users -> Kinds \cup {None}]
           /\ \A v \in Users : rows'[v] = rows[v] \/ RowTells(v, rows'[v])
<1>1. rows' = rows \/ rows' = [rows EXCEPT ![u] = kind]
  BY DEF Copied
<1>2. \A v \in Users : rows'[v] = rows[v] \/ (v = u /\ rows'[v] = kind)
  BY <1>1 DEF TypeOK
<1>3. rows' \in [Users -> Kinds \cup {None}]
  BY <1>1 DEF TypeOK
<1> QED BY <1>2, <1>3 DEF RowTells

LEMMA CopiesTell ==
    ASSUME TypeOK, NEW call \in Call, NEW kind \in Kinds, call.user \in Users,
           Fresh(call.user, kind), Copies(call, kind)
    PROVE  /\ rows' \in [Users -> Kinds \cup {None}]
           /\ \A u \in Users : rows'[u] = rows[u] \/ RowTells(u, rows'[u])
<1>1. now \in Nat /\ TrueAt(call.user, kind) \in Int
  BY Instants
<1>2. LongAgo < TrueAt(call.user, kind)
  BY <1>1, Times DEF Fresh
<1>3. rows' \in {rows, Copied(call.user, kind)}
  BY DEF Copies
<1> QED BY <1>2, <1>3, CopiedTells

\* A cached entry, while it is readable, tells what is fresh.
LEMMA ReadableIsFresh ==
    ASSUME TypeOK, InfosTell, NEW u \in Users, Readable(infos[u].until)
    PROVE  Fresh(u, infos[u].kind)
<1>1. /\ now \in Nat /\ infos[u].until \in Int /\ infos[u].kind \in Kinds
      /\ TrueAt(u, infos[u].kind) \in Int
  BY Instants
<1>2. infos[u].until # Never
  BY <1>1 DEF Readable, Never
<1>3. infos[u].until <= TrueAt(u, infos[u].kind) + CacheTTL + Span(infos[u].kind)
  BY <1>2 DEF InfosTell, InfoTells
<1> QED BY <1>1, <1>3, Times DEF Readable, Fresh

LEMMA Entering ==
    ASSUME IInv, NEW c \in Calls, NEW call, Goes(call), Enter(c, call),
           UNCHANGED <<now, keycloak, admin, infos, rows, cookies, bounds>>
    PROVE  Advances(c)
  BY Going DEF Enter

LEMMA AskingInfo ==
    ASSUME IInv, NEW c \in Calls, NEW u \in Users, NEW op \in InfoOps,
           NEW k \in Cookies \cup {None}, AskUserInfo(c, op, u, k)
    PROVE  Advances(c)
<1> DEFINE call == Calling(op, u, k)
           next == TakeToken(call, "user", admin)
<1>1. /\ TypeOK /\ InfosTell /\ now \in Nat /\ admin \in [until : Int, exp : Int]
      /\ Lasting(admin) /\ InfoOps \subseteq Ops /\ "user" \in Goals
  BY Instants DEF IInv, Ops, Goals
<1>2. call \in Call /\ call.user = u /\ call.op = op
  BY <1>1, NewCalls
<1>3. UNCHANGED <<now, keycloak, admin, infos, bounds>>
  BY DEF AskUserInfo
<1> HIDE DEF call
<1>4. Goes(next)
  BY <1>1, <1>2, TakeSound
<1>5. CASE Enter(c, next) /\ UNCHANGED <<rows, cookies>>
  BY <1>3, <1>4, <1>5, Entering
<1>6. CASE /\ Readable(infos[u].until) /\ Finish(c, call, infos[u].kind, "account")
           /\ Copies(call, infos[u].kind)
  <2>1. infos[u].kind \in Kinds /\ Fresh(u, infos[u].kind) /\ "account" \in Names
    BY <1>1, <1>6, ReadableIsFresh, Instants, Words
  <2>2. /\ \E goes : Goes(goes) /\ calls' = [calls EXCEPT ![c] = goes]
        /\ cookies' \in [Cookies -> CookieData \cup {None}]
    BY <1>1, <1>2, <1>6, <2>1, Finishing
  <2>3. /\ rows' \in [Users -> Kinds \cup {None}]
        /\ \A v \in Users : rows'[v] = rows[v] \/ RowTells(v, rows'[v])
    BY <1>1, <1>2, <1>6, <2>1, CopiesTell
  <2>4. infos' \in [Users -> Info]
    BY <1>1, <1>3 DEF TypeOK
  <2> QED BY <1>1, <1>3, <2>2, <2>3, <2>4 DEF Advances
<1> QED BY <1>5, <1>6 DEF AskUserInfo, call

LEMMA TellingRow ==
    ASSUME IInv, NEW c \in Calls, NEW u \in Users, NEW op \in InfoOps,
           NEW k \in Cookies \cup {None}, TellRow(c, op, u, k)
    PROVE  Advances(c)
<1> DEFINE call == Calling(op, u, k)
<1>1. TypeOK /\ InfoOps \subseteq Ops /\ Lasting(admin)
  BY DEF IInv, Ops
<1>2. call \in Call /\ call.user = u
  BY <1>1, NewCalls
<1>3. Finish(c, call, rows[u], "row") /\ UNCHANGED <<now, keycloak, admin, infos, rows, bounds>>
  BY DEF TellRow
<1>4. rows[u] \in Kinds /\ "row" \in Names /\ "row" # "account"
  BY <1>1, Instants, Words DEF TellRow
<1> HIDE DEF call
<1>5. /\ \E next : Goes(next) /\ calls' = [calls EXCEPT ![c] = next]
      /\ cookies' \in [Cookies -> CookieData \cup {None}]
  BY <1>1, <1>2, <1>3, <1>4, Finishing
<1> QED BY <1>1, <1>3, <1>5 DEF Advances, TypeOK

LEMMA Refreshing ==
    ASSUME IInv, NEW c \in Calls, NEW u \in Users, RefreshToken(c, u)
    PROVE  Advances(c)
<1> DEFINE call == Calling("token", u, None)
<1>1. TypeOK /\ now \in Nat /\ "token" \in Ops /\ "real" \in Kinds
  BY Instants, Words DEF IInv
<1>2. call \in Call /\ call.user = u
  BY <1>1, NewCalls
<1>3. TrueAt(u, "real") \in Int /\ now <= TrueAt(u, "real") + Lag /\ Span("real") = 2 * Lag
  BY <1>1, Instants DEF RefreshToken, TrueAt, Span
<1>4. Enter(c, Learnt(call, "real")) /\ UNCHANGED <<now, keycloak, admin, infos, rows, cookies, bounds>>
  BY DEF RefreshToken
<1> HIDE DEF call
<1>5. Goes(Learnt(call, "real"))
  BY <1>1, <1>2, <1>3, LearntSound, Times
<1> QED BY <1>4, <1>5, Entering

\* registerUser, and the changes of an account.
LEMMA Registers ==
    ASSUME IInv, NEW c \in Calls, NEW u \in Users,
           RegisterUser(c, u) \/ ChangeAccount(c, u) \/ ResetPassword(c, u)
    PROVE  Advances(c)
<1>1. /\ TypeOK /\ now \in Nat /\ admin \in [until : Int, exp : Int] /\ Lasting(admin)
      /\ {"register", "reset", "change"} \subseteq Ops \ InfoOps
      /\ {"own", "email", "change"} \subseteq Goals \ {"create", "roles", "assign", "mail"}
  BY Instants, Words DEF IInv, Ops, InfoOps, Goals
<1>2. \A op \in Ops : /\ Calling(op, u, None) \in Call /\ Calling(op, u, None).op = op
                      /\ Calling(op, u, None).user = u
  BY NewCalls
<1>3. CASE ChangeAccount(c, u)
  <2>1. Goes(TakeToken(Calling("change", u, None), "change", admin))
    BY <1>1, <1>2, TakeSound
  <2> QED BY <1>3, <2>1, Entering DEF ChangeAccount
<1>4. CASE ResetPassword(c, u)
  <2>1. Goes(TakeToken(Calling("reset", u, None), "email", admin))
    BY <1>1, <1>2, TakeSound
  <2> QED BY <1>4, <2>1, Entering DEF ResetPassword
<1>5. CASE RegisterUser(c, u)
  <2> DEFINE call == Calling("register", u, None)
             with == [call EXCEPT !.own = admin.exp]
  <2>1. Goes(TakeToken(call, "own", admin))
    BY <1>1, <1>2, TakeSound
  <2>2. ASSUME now < admin.until
        PROVE  Goes(Registering(call, admin.exp, admin))
    <3>1. Lasts(admin.exp, now, 1) /\ admin.exp \in Int
      BY <1>1, <2>2, CachedLasts
    <3>2. call \in Call /\ call.op = "register" /\ call.user = u
      BY <1>1, <1>2
    <3> HIDE DEF call
    <3>3. with \in Call /\ with.op = "register" /\ with.user = u /\ with.own = admin.exp
      BY <3>1, <3>2, OwnType DEF Same
    <3> HIDE DEF with
    <3>4. Goes(TakeToken(with, "email", admin))
      BY <1>1, <3>1, <3>3, TakeSound
    <3> QED BY <3>4 DEF Registering, with
  <2>3. PICK next : Enter(c, next) /\ Goes(next)
    BY <1>5, <2>1, <2>2 DEF RegisterUser
  <2> QED BY <1>5, <2>3, Entering DEF RegisterUser
<1> QED BY <1>3, <1>4, <1>5

-----------------------------------------------------------------------------

LEMMA Granting == ASSUME IInv, NEW c \in Calls, Grant(c) PROVE Advances(c)
<1> DEFINE call == calls[c]
           next == Granted(call, now + AdminLife)
<1>1. /\ call.stage = "fetching" /\ calls' = [calls EXCEPT ![c] = next]
      /\ UNCHANGED <<now, keycloak, admin, infos, rows, cookies, bounds>>
  BY DEF Grant, IInv, TypeOK, Granted
<1>2. /\ call \in Call /\ Sound(call) /\ call.since \in Nat /\ now \in Nat
      /\ call.user \in Users /\ call.since <= now /\ now <= call.since + Lag
  BY <1>1, CallFacts DEF Working
<1>3. now + AdminLife \in Int
  BY <1>2, Times
<1> HIDE DEF call
<1>4. /\ next \in Call /\ next.op = call.op /\ next.user = call.user /\ next.stage = "granted"
      /\ next.goal = call.goal /\ next.since = call.since /\ next.held = now + AdminLife
      /\ next.own = call.own
  BY <1>2, <1>3, GrantedType DEF Same
<1> HIDE DEF next
<1>5. OwnWaits(next) = OwnWaits(call)
  BY <1>1, <1>4 DEF OwnWaits
<1>6. Sound(next)
  BY <1>1, <1>2, <1>4, <1>5, Times DEF Sound, Working
<1>7. Goes(next)
  BY <1>4, <1>6 DEF Goes
<1> QED BY <1>1, <1>7, Going

LEMMA Receiving == ASSUME IInv, NEW c \in Calls, ReceiveToken(c) PROVE Advances(c)
<1> DEFINE call == calls[c]
           received == AdminReceived(call.held)
           with == [call EXCEPT !.own = call.held]
<1>1. /\ call.stage = "granted" /\ admin' = received
      /\ calls' = [calls EXCEPT ![c] =
             IF call.goal = "own" THEN Registering(call, call.held, received)
             ELSE Asking(call, call.goal, call.held)]
      /\ UNCHANGED <<now, keycloak, infos, rows, cookies, bounds>>
  BY DEF ReceiveToken
<1>2. /\ call \in Call /\ Sound(call) /\ call.since \in Nat /\ call.held \in Int /\ now \in Nat
      /\ call.user \in Users /\ call.since <= now /\ now <= call.since + Lag
      /\ call.since + AdminLife <= call.held /\ call.own \in Int /\ call.goal \in Goals
      /\ TypeOK /\ TrueAt(call.user, "made") \in Int
  BY <1>1, CallFacts, CallTypes DEF Working, Sound
<1> HIDE DEF call
<1>3. /\ received \in [until : Int, exp : Int] /\ Lasting(received)
      /\ Lasts(call.held, now, 1)
  BY <1>2, ReceivedLasts, Times
<1> HIDE DEF received
<1>4. CASE call.goal = "own"
  <2>1. with \in Call /\ with.op = call.op /\ with.user = call.user /\ with.own = call.held
    BY <1>2, OwnType DEF Same
  <2>2. with.op \notin InfoOps
    BY <1>1, <1>2, <1>4, <2>1 DEF Sound
  <2>3. "email" \in Goals \ {"create", "roles", "assign", "mail"}
    BY DEF Goals
  <2> HIDE DEF with
  <2>4. Goes(TakeToken(with, "email", received))
    BY <1>2, <1>3, <2>1, <2>2, <2>3, TakeSound
  <2>5. Goes(Registering(call, call.held, received))
    BY <2>4 DEF Registering, with
  <2> QED BY <1>1, <1>2, <1>3, <1>4, <2>5 DEF Advances, IInv, TypeOK
<1>5. CASE call.goal # "own"
  <2>6. call.goal \notin {"create", "roles", "assign", "mail"}
    BY <1>1, <1>2 DEF Sound
  <2>1. Lasts(call.held, now, Waits(call.goal))
    BY <1>3, <2>6, Words
  <2>2. call.goal = "email" /\ call.op = "register" => Lasts(call.own, now, 2)
    <3> SUFFICES ASSUME call.goal = "email", call.op = "register" PROVE Lasts(call.own, now, 2)
      OBVIOUS
    <3>1. Lasts(call.own, call.since, 1)
      BY <1>1, <1>2 DEF Sound, Working, OwnWaits
    <3>2. Lasts(call.own, now, 1 + 1)
      BY <1>2, <3>1, LastsOn
    <3> QED BY <3>2
  <2>3. call.goal = "name" => Lasts(call.own, now, 4)
    <3> SUFFICES ASSUME call.goal = "name" PROVE Lasts(call.own, now, 4)
      OBVIOUS
    <3>1. Lasts(call.own, call.since, 3)
      BY <1>1, <1>2 DEF Sound, Working, OwnWaits
    <3>2. Lasts(call.own, now, 3 + 1)
      BY <1>2, <3>1, LastsOn
    <3> QED BY <3>2
  <2>4. call.goal = "introspect" => now <= TrueAt(call.user, "made") + 2 * Lag
    <3> SUFFICES ASSUME call.goal = "introspect"
                 PROVE  now <= TrueAt(call.user, "made") + 2 * Lag
      OBVIOUS
    <3>1. call.since <= TrueAt(call.user, "made") + Lag
      BY <1>1, <1>2 DEF Sound
    <3> QED BY <1>2, <3>1, Times
  <2>5. Goes(Asking(call, call.goal, call.held))
    BY <1>2, <2>1, <2>2, <2>3, <2>4, <2>6, AskSound
  <2> QED BY <1>1, <1>2, <1>3, <1>5, <2>5 DEF Advances, IInv, TypeOK
<1> QED BY <1>4, <1>5

\* The user's data are not to be had, as he has no account or Keycloak is out of reach.
LEMMA FallingBack ==
    ASSUME TypeOK, Lasting(admin), NEW call \in Call, call.user \in Users,
           now <= call.since + Lag,
           call.since <= TrueAt(call.user, "made")
    PROVE  Goes(Fallback(call))
<1>1. /\ call.since \in Nat /\ now \in Nat /\ TrueAt(call.user, "made") \in Int
      /\ admin \in [until : Int, exp : Int]
  BY CallTypes, Instants
<1>2. "introspect" \in Goals \ {"create", "roles", "assign", "mail"} /\ "made" \in Kinds
  BY DEF Goals, Kinds
<1>3. now <= TrueAt(call.user, "made") + Lag
  BY <1>1, Times
<1>4. Goes(TakeToken(call, "introspect", admin))
  BY <1>1, <1>2, <1>3, TakeSound
<1>5. Goes(Learnt(call, "made"))
  BY <1>1, <1>2, <1>3, LearntSound, Times DEF Span
<1> QED BY <1>4, <1>5 DEF Fallback

\* No token arrives: Keycloak is out of reach, or was since it was asked.
LEMMA Losing == ASSUME IInv, NEW c \in Calls, LoseToken(c) PROVE Advances(c)
<1> DEFINE call == calls[c]
<1>1. /\ call.stage \in {"fetching", "granted"} /\ Lost(call)
      /\ calls' = [calls EXCEPT ![c] = IF call.op \in InfoOps THEN Fallback(call) ELSE Idle]
      /\ UNCHANGED <<now, keycloak, admin, infos, rows, cookies, bounds>>
  BY DEF LoseToken
<1>2. /\ call \in Call /\ Sound(call) /\ call.since \in Nat /\ now \in Nat /\ TypeOK
      /\ call.user \in Users /\ call.since <= now /\ now <= call.since + Lag
      /\ admin \in [until : Int, exp : Int] /\ Lasting(admin)
      /\ \A kind : TrueAt(call.user, kind) \in Int
  BY <1>1, CallFacts DEF Working
<1> HIDE DEF call
<1>3. call.since <= TrueAt(call.user, "made")
  <2>1. LastOut <= TrueAt(call.user, "made") /\ LastOut \in Int
    BY <1>2, Reasons, Instants
  <2> QED BY <1>1, <1>2, <2>1 DEF Lost
<1>4. CASE call.op \in InfoOps
  <2>1. Goes(Fallback(call))
    BY <1>2, <1>3, FallingBack
  <2> QED BY <1>1, <1>4, <2>1, Going
<1>5. CASE call.op \notin InfoOps
  BY <1>1, <1>5, EndsSound, Going
<1> QED BY <1>4, <1>5

\* A request is under way: what a step may rely on.
LEMMA AskFacts ==
    ASSUME IInv, NEW c \in Calls, NEW goal, Asks(c, goal)
    PROVE  /\ calls[c] \in Call /\ TypeOK /\ PastIsPast /\ calls[c].goal = goal
           /\ calls[c].stage = "asking" /\ Lasts(calls[c].held, calls[c].since, Waits(goal))
           /\ calls[c].since \in Nat /\ calls[c].held \in Int /\ calls[c].own \in Int
           /\ now \in Nat /\ admin \in [until : Int, exp : Int] /\ Lasting(admin)
           /\ calls[c].user \in Users
           /\ calls[c].since <= now /\ now <= calls[c].since + Lag
           /\ \A kind : TrueAt(calls[c].user, kind) \in Int
           /\ goal \notin {"create", "roles", "assign", "mail"} => now < calls[c].held
<1>1. /\ calls[c].stage = "asking" /\ calls[c].goal = goal /\ Working(calls[c])
  BY DEF Asks, Working
<1>2. /\ calls[c] \in Call /\ Sound(calls[c]) /\ TypeOK /\ PastIsPast
      /\ calls[c].since \in Nat /\ calls[c].held \in Int /\ calls[c].own \in Int
      /\ now \in Nat /\ admin \in [until : Int, exp : Int] /\ Lasting(admin)
      /\ calls[c].user \in Users
      /\ calls[c].since <= now /\ now <= calls[c].since + Lag
      /\ \A kind : TrueAt(calls[c].user, kind) \in Int
  BY <1>1, CallFacts
<1>3. Lasts(calls[c].held, calls[c].since, Waits(goal))
  BY <1>1, <1>2 DEF Sound
<1>4. goal \notin {"create", "roles", "assign", "mail"} => now < calls[c].held
  BY <1>2, <1>3, LastsLive, OneIsCovered, Words
<1> QED BY <1>1, <1>2, <1>3, <1>4

LEMMA AskingForUser == ASSUME IInv, NEW c \in Calls, AskForUser(c) PROVE Advances(c)
<1> DEFINE call == calls[c]
<1>1. /\ Asks(c, "user")
      /\ \/ /\ Heard(call) /\ call.since <= LastSeen(call.user)
            /\ calls' = [calls EXCEPT ![c] = Learnt(call, "real")]
         \/ /\ Refused(call) \/ call.since <= LastMissed(call.user)
            /\ calls' = [calls EXCEPT ![c] = Fallback(call)]
      /\ UNCHANGED <<now, keycloak, admin, infos, rows, cookies, bounds>>
  BY DEF AskForUser
<1>2. /\ call \in Call /\ call.goal = "user" /\ call.since \in Nat /\ now \in Nat /\ TypeOK
      /\ call.user \in Users /\ call.since <= now /\ now <= call.since + Lag
      /\ admin \in [until : Int, exp : Int] /\ Lasting(admin) /\ call.held \in Int
      /\ now < call.held /\ \A kind : TrueAt(call.user, kind) \in Int
  BY <1>1, AskFacts
<1>3. /\ LastOut <= TrueAt(call.user, "made") /\ LastMissed(call.user) <= TrueAt(call.user, "made")
      /\ TrueAt(call.user, "real") = LastSeen(call.user)
      /\ LastOut \in Int /\ LastMissed(call.user) \in Int /\ LastSeen(call.user) \in Int
  BY <1>2, Reasons, Instants
<1> HIDE DEF call
<1>4. CASE call.since <= LastSeen(call.user) /\ calls' = [calls EXCEPT ![c] = Learnt(call, "real")]
  <2>1. now + Lag <= TrueAt(call.user, "real") + Span("real") /\ "real" \in Kinds
    BY <1>2, <1>3, <1>4, Times DEF Span, Kinds
  <2>2. Goes(Learnt(call, "real"))
    BY <1>2, <2>1, LearntSound
  <2> QED BY <1>1, <1>4, <2>2, Going
<1>5. CASE /\ Refused(call) \/ call.since <= LastMissed(call.user)
           /\ calls' = [calls EXCEPT ![c] = Fallback(call)]
  <2>1. call.since <= TrueAt(call.user, "made")
    BY <1>2, <1>3, <1>5 DEF Refused, Lost
  <2>2. Goes(Fallback(call))
    BY <1>2, <2>1, FallingBack
  <2> QED BY <1>1, <1>5, <2>2, Going
<1> QED BY <1>1, <1>4, <1>5

LEMMA Introspecting == ASSUME IInv, NEW c \in Calls, Introspect(c) PROVE Advances(c)
<1> DEFINE call == calls[c]
<1>1. /\ Asks(c, "introspect") /\ calls' = [calls EXCEPT ![c] = Fallback(call)]
      /\ UNCHANGED <<now, keycloak, admin, infos, rows, cookies, bounds>>
  BY DEF Introspect
<1>2. /\ call \in Call /\ call.goal = "introspect" /\ call.stage = "asking" /\ TypeOK
      /\ call.since \in Nat /\ now \in Nat /\ call.user \in Users
      /\ now <= call.since + Lag /\ TrueAt(call.user, "made") \in Int /\ Sound(call)
  BY <1>1, AskFacts, CallFacts
<1> HIDE DEF call
<1>3. call.since <= TrueAt(call.user, "made") + 2 * Lag
  BY <1>2 DEF Sound
<1>4. now + Lag <= TrueAt(call.user, "made") + Span("made") /\ "made" \in Kinds
  BY <1>2, <1>3, Times, Words DEF Span
<1>5. Goes(Learnt(call, "made"))
  BY <1>2, <1>4, LearntSound
<1>6. Fallback(call) = Learnt(call, "made")
  BY <1>2 DEF Fallback
<1> QED BY <1>1, <1>5, <1>6, Going

LEMMA LookingUpEmail == ASSUME IInv, NEW c \in Calls, LookUpEmail(c) PROVE Advances(c)
<1> DEFINE call == calls[c]
<1>1. /\ Asks(c, "email")
      /\ \/ /\ call.op = "register"
            /\ calls' = [calls EXCEPT ![c] = TakeToken(call, "name", admin)]
         \/ /\ call.op = "reset"
            /\ calls' = [calls EXCEPT ![c] = TakeToken(call, "change", admin)]
         \/ calls' = [calls EXCEPT ![c] = Idle]
      /\ UNCHANGED <<now, keycloak, admin, infos, rows, cookies, bounds>>
  BY DEF LookUpEmail
<1>2. /\ call \in Call /\ Sound(call) /\ call.goal = "email" /\ call.stage = "asking" /\ TypeOK
      /\ call.since \in Nat /\ call.own \in Int /\ now \in Nat /\ call.user \in Users
      /\ now <= call.since + Lag /\ admin \in [until : Int, exp : Int] /\ Lasting(admin)
  BY <1>1, AskFacts, CallFacts
<1>3. /\ {"name", "change"} \subseteq Goals \ {"create", "roles", "assign", "mail"}
      /\ {"register", "reset"} \cap InfoOps = {} /\ "name" # "email" /\ "change" # "name"
  BY DEF Goals, InfoOps
<1> HIDE DEF call
<1>4. CASE call.op = "register" /\ calls' = [calls EXCEPT ![c] = TakeToken(call, "name", admin)]
  <2>1. Lasts(call.own, call.since, 2)
    BY <1>2, <1>4 DEF Sound, Working, OwnWaits
  <2>2. Lasts(call.own, now, 2 + 1)
    BY <1>2, <2>1, LastsOn
  <2>3. Goes(TakeToken(call, "name", admin))
    BY <1>2, <1>3, <1>4, <2>2, TakeSound
  <2> QED BY <1>1, <1>4, <2>3, Going
<1>5. CASE call.op = "reset" /\ calls' = [calls EXCEPT ![c] = TakeToken(call, "change", admin)]
  <2>1. Goes(TakeToken(call, "change", admin))
    BY <1>2, <1>3, <1>5, TakeSound
  <2> QED BY <1>1, <1>5, <2>1, Going
<1>6. CASE calls' = [calls EXCEPT ![c] = Idle]
  BY <1>1, <1>6, EndsSound, Going
<1> QED BY <1>1, <1>4, <1>5, <1>6

\* The creation goes with the token that registerUser took first.
LEMMA LookingUpName == ASSUME IInv, NEW c \in Calls, LookUpName(c) PROVE Advances(c)
<1> DEFINE call == calls[c]
           bare == [call EXCEPT !.own = Never]
<1>1. /\ Asks(c, "name")
      /\ \/ calls' = [calls EXCEPT ![c] = Asking(bare, "create", call.own)]
         \/ calls' = [calls EXCEPT ![c] = Idle]
      /\ UNCHANGED <<now, keycloak, admin, infos, rows, cookies, bounds>>
  BY DEF LookUpName
<1>2. /\ call \in Call /\ Sound(call) /\ call.goal = "name" /\ call.stage = "asking" /\ TypeOK
      /\ call.since \in Nat /\ call.own \in Int /\ now \in Nat /\ call.user \in Users
      /\ now <= call.since + Lag
  BY <1>1, AskFacts, CallFacts
<1> HIDE DEF call
<1>3. Lasts(call.own, call.since, 4)
  BY <1>2 DEF Sound, Working, OwnWaits
<1>4. Lasts(call.own, now, 4 + 1) /\ 4 + 1 = 5
  BY <1>2, <1>3, LastsOn
<1>5. bare \in Call /\ bare.user = call.user
  BY <1>2, OwnType DEF Same, Never
<1> HIDE DEF bare
<1>6. "create" \in Goals /\ Waits("create") = 5
  BY Words DEF Goals
<1>7. Goes(Asking(bare, "create", call.own))
  BY <1>2, <1>4, <1>5, <1>6, AskSound
<1> QED BY <1>1, <1>7, EndsSound, Going

\* assignDefaultRoles and sendVerificationEmail, with the same token still.
LEMMA Equipping == ASSUME IInv, NEW c \in Calls, Equip(c) PROVE Advances(c)
<1> DEFINE call == calls[c]
<1>1. /\ Asks(c, call.goal) /\ call.goal \in {"roles", "assign", "mail"}
      /\ \/ /\ \/ call.goal = "roles" /\ \E goal \in {"assign", "mail"} :
                      calls' = [calls EXCEPT ![c] = Asking(call, goal, call.held)]
               \/ call.goal = "assign" /\ calls' = [calls EXCEPT ![c] = Asking(call, "mail", call.held)]
            /\ rows' = rows
         \/ calls' = [calls EXCEPT ![c] = Idle] /\ rows' \in {rows, Copied(call.user, "real")}
      /\ UNCHANGED <<now, keycloak, admin, infos, cookies, bounds>>
  BY DEF Equip, Asks
<1>2. /\ call \in Call /\ Sound(call) /\ call.stage = "asking" /\ TypeOK
      /\ call.since \in Nat /\ call.held \in Int /\ now \in Nat /\ call.user \in Users
      /\ now <= call.since + Lag /\ Lasts(call.held, call.since, Waits(call.goal))
  BY <1>1, AskFacts, CallFacts
<1> HIDE DEF call
<1>3. LongAgo < TrueAt(call.user, "real")
  BY <1>1, <1>2 DEF Sound
<1>4. \A goal \in {"assign", "mail"} : Lasts(call.held, now, Waits(goal)) =>
          Goes(Asking(call, goal, call.held))
  <2>1. {"assign", "mail"} \subseteq Goals
    BY DEF Goals
  <2> QED BY <1>2, <1>3, <2>1, AskSound
<1>5. ASSUME call.goal = "roles"
      PROVE  Lasts(call.held, now, Waits("assign")) /\ Lasts(call.held, now, Waits("mail"))
  <2>1. Lasts(call.held, call.since, 6)
    BY <1>2, <1>5, Words
  <2>2. Lasts(call.held, now, 6 + 1)
    BY <1>2, <2>1, LastsOn
  <2>3. Lasts(call.held, now, 7 + 1)
    BY <1>2, <2>2, LastsMore
  <2> QED BY <2>2, <2>3, Words
<1>6. ASSUME call.goal = "assign"
      PROVE  Lasts(call.held, now, Waits("mail"))
  <2>1. Lasts(call.held, call.since, 7)
    BY <1>2, <1>6, Words
  <2>2. Lasts(call.held, now, 7 + 1)
    BY <1>2, <2>1, LastsOn
  <2> QED BY <2>2, Words
<1>7. ASSUME NEW goal \in {"assign", "mail"}, Goes(Asking(call, goal, call.held)), rows' = rows,
             calls' = [calls EXCEPT ![c] = Asking(call, goal, call.held)]
      PROVE  Advances(c)
  BY <1>1, <1>7, Going
<1>8. CASE calls' = [calls EXCEPT ![c] = Idle] /\ rows' \in {rows, Copied(call.user, "real")}
  <2>1. "real" \in Kinds
    BY DEF Kinds
  <2>2. /\ rows' \in [Users -> Kinds \cup {None}]
        /\ \A v \in Users : rows'[v] = rows[v] \/ RowTells(v, rows'[v])
    BY <1>2, <1>3, <1>8, <2>1, CopiedTells
  <2> QED BY <1>1, <1>8, <2>2, EndsSound DEF Advances, IInv, TypeOK
<1> QED BY <1>1, <1>4, <1>5, <1>6, <1>7, <1>8

LEMMA Ending == ASSUME IInv, NEW c \in Calls, Change(c) \/ Return(c) PROVE Advances(c)
  BY EndsSound, Going DEF Change, Return

LEMMA Storing == ASSUME IInv, NEW c \in Calls, StoreInfo(c) PROVE Advances(c)
<1> DEFINE call == calls[c]
           info == [until |-> now + CacheTTL, kind |-> call.kind]
<1>1. /\ call.stage = "storing" /\ Finish(c, call, call.kind, "account") /\ Copies(call, call.kind)
      /\ infos' = infos \/ infos' = [infos EXCEPT ![call.user] = info]
      /\ UNCHANGED <<now, keycloak, admin, bounds>>
  BY DEF StoreInfo
<1>2. /\ call \in Call /\ TypeOK /\ Lasting(admin) /\ admin \in [until : Int, exp : Int]
      /\ call.since \in Nat /\ now \in Nat /\ "account" \in Names
      /\ call.user \in Users /\ call.since <= now /\ now <= call.since + Lag
      /\ call.kind \in Kinds /\ TrueAt(call.user, call.kind) \in Int
      /\ call.since + Lag <= TrueAt(call.user, call.kind) + Span(call.kind)
  BY <1>1, CallFacts DEF Working, Sound, Names
<1> HIDE DEF call
<1>3. Span(call.kind) \in Nat /\ Lag \in Nat /\ CacheTTL \in Nat
  BY Times
<1>4. Fresh(call.user, call.kind)
  BY <1>2, <1>3 DEF Fresh
<1>5. /\ info.until = now + CacheTTL /\ info.kind = call.kind /\ info \in Info
  BY <1>2, Times DEF Info
<1> HIDE DEF info
<1>6. InfoTells(call.user, info)
  BY <1>2, <1>3, <1>5 DEF InfoTells
<1>7. \A u \in Users : infos'[u] = infos[u] \/ (u = call.user /\ infos'[u] = info)
  BY <1>1, <1>2 DEF TypeOK
<1>8. infos' \in [Users -> Info]
  BY <1>1, <1>2, <1>5 DEF TypeOK
<1>9. /\ \E next : Goes(next) /\ calls' = [calls EXCEPT ![c] = next]
      /\ cookies' \in [Cookies -> CookieData \cup {None}]
  BY <1>1, <1>2, <1>4, Finishing
<1>10. /\ rows' \in [Users -> Kinds \cup {None}]
       /\ \A u \in Users : rows'[u] = rows[u] \/ RowTells(u, rows'[u])
  BY <1>1, <1>2, <1>4, CopiesTell
<1> QED BY <1>1, <1>2, <1>6, <1>7, <1>8, <1>9, <1>10 DEF Advances

\* Whoever asks for a user, by either of his ids.
LEMMA Informing ==
    ASSUME IInv, NEW c \in Calls, NEW u \in Users, NEW op \in InfoOps, NEW by,
           NEW k \in Cookies \cup {None}, AskInfo(c, op, u, by, k)
    PROVE  Advances(c)
  BY AskingInfo, TellingRow DEF AskInfo

LEMMA Steps == ASSUME IInv, NEW c \in Calls, Step(c) PROVE Advances(c) \/ CreateAccount(c)
  BY Granting, Receiving, Losing, AskingForUser, Introspecting, LookingUpEmail, LookingUpName,
     Equipping, Ending, Storing DEF Step

LEMMA Serving ==
    ASSUME IInv, NEW c \in Calls, Routes(c)
    PROVE  Advances(c) \/ \E k \in Cookies : EndSession(k)
<1>1. {"info", "session", "validate"} = InfoOps /\ TypeOK
  BY DEF InfoOps, IInv
<1>2. CASE RegistrationRoutes(c) \/ RegistrationMutations(c)
  BY <1>2, Registers DEF RegistrationRoutes, RegistrationMutations
<1>3. CASE UserRoute(c) \/ UserQuery(c) \/ \E u \in Users : RefreshToken(c, u)
  BY <1>1, <1>3, Informing, Refreshing DEF UserRoute, UserQuery, GetUserInfo
<1>4. ASSUME NEW k \in Cookies, NEW u \in Users, NEW by, CreateSession(c, u, by, k)
      PROVE  Advances(c)
  BY <1>1, <1>4, Informing DEF CreateSession
<1>5. ASSUME NEW k \in Cookies, ValidateSession(c, k) \/ RefreshSession(c, k)
      PROVE  Advances(c)
  <2>1. cookies[k].user \in Users
    BY <1>1, <1>5, Instants DEF ValidateSession, RefreshSession, Alive
  <2> QED BY <1>1, <1>5, <2>1, Informing DEF ValidateSession, RefreshSession
<1>6. CASE SessionController(c)
  BY <1>4, <1>5, <1>6 DEF SessionController
<1> QED BY <1>2, <1>3, <1>6 DEF Routes

-----------------------------------------------------------------------------
(* The invariant is kept.                                                  *)

LEMMA MarksGrow ==
    ASSUME TypeOK, PastIsPast, Marks
    PROVE  /\ now \in Nat /\ now' \in Nat /\ now <= now'
           /\ \A u \in Users, kind \in Kinds :
                  /\ TrueAt(u, kind) \in Int /\ TrueAt(u, kind)' \in Int
                  /\ TrueAt(u, kind) <= TrueAt(u, kind)'
                  /\ TrueAt(u, kind)' \in {TrueAt(u, kind), now'}
<1>1. now \in Nat /\ now' \in Nat /\ now <= now'
  BY Instants DEF Marks
<1>2. ASSUME NEW u \in Users, NEW kind \in Kinds
      PROVE  /\ TrueAt(u, kind) \in Int /\ TrueAt(u, kind) <= now
             /\ TrueAt(u, kind)' \in {TrueAt(u, kind), now'}
  <2>1. TrueAt(u, kind) \in Int /\ TrueAt(u, kind) <= now
    BY Past, Instants
  <2>2. TrueAt(u, kind)' \in {TrueAt(u, kind), now'}
    BY DEF Marks, TrueAt
  <2> QED BY <2>1, <2>2
<1> QED BY <1>1, <1>2

LEMMA SoundStays ==
    ASSUME TypeOK, PastIsPast, Marks, NEW call \in Call, Sound(call),
           Working(call) => now' <= call.since + Lag
    PROVE  Sound(call)'
<1>1. call.since \in Nat /\ call.kind \in Kinds \cup {"none"}
  BY CallTypes
<1>2. Working(call) => call.user \in Users /\ call.since <= now' /\ now' <= call.since + Lag
  BY <1>1, MarksGrow DEF Sound
<1>3. ASSUME NEW u, u = call.user, Working(call), NEW kind \in Kinds
      PROVE  /\ TrueAt(u, kind) \in Int /\ TrueAt(u, kind)' \in Int
             /\ TrueAt(u, kind) <= TrueAt(u, kind)'
  BY <1>2, <1>3, MarksGrow
<1>4. ASSUME NEW u, u = call.user, NEW kind, kind = call.kind, call.stage = "storing"
      PROVE  kind \in Kinds /\ call.since + Lag <= TrueAt(u, kind)' + Span(kind)
  <2>1. kind \in Kinds /\ call.since + Lag <= TrueAt(u, kind) + Span(kind) /\ Working(call)
    BY <1>4 DEF Sound, Working
  <2>2. /\ TrueAt(u, kind) \in Int /\ TrueAt(u, kind)' \in Int
        /\ TrueAt(u, kind) <= TrueAt(u, kind)'
    BY <1>3, <1>4, <2>1
  <2> QED BY <1>1, <2>1, <2>2, Times
<1>5. ASSUME NEW u, u = call.user, call.goal = "introspect"
      PROVE  /\ call.stage \in {"fetching", "granted"} => call.since <= TrueAt(u, "made")' + Lag
             /\ call.stage = "asking" => call.since <= TrueAt(u, "made")' + 2 * Lag
  <2>1. Working(call) => /\ TrueAt(u, "made") \in Int /\ TrueAt(u, "made")' \in Int
                         /\ TrueAt(u, "made") <= TrueAt(u, "made")'
    BY <1>3, <1>5, Words
  <2>2. /\ call.stage \in {"fetching", "granted"} => call.since <= TrueAt(u, "made") + Lag
        /\ call.stage = "asking" => call.since <= TrueAt(u, "made") + 2 * Lag
    BY <1>5 DEF Sound
  <2>3. call.stage \in {"fetching", "granted", "asking"} => Working(call)
    BY DEF Working
  <2> QED BY <1>1, <2>1, <2>2, <2>3, Times
<1>6. ASSUME NEW u, u = call.user, call.stage = "asking", call.goal \in {"roles", "assign", "mail"}
      PROVE  LongAgo < TrueAt(u, "real")'
  <2>1. LongAgo < TrueAt(u, "real") /\ Working(call)
    BY <1>6 DEF Sound, Working
  <2>2. /\ TrueAt(u, "real") \in Int /\ TrueAt(u, "real")' \in Int
        /\ TrueAt(u, "real") <= TrueAt(u, "real")'
    BY <1>3, <1>6, <2>1, Words
  <2> QED BY <2>1, <2>2, Times
<1>7. PICK user, kind : user = call.user /\ kind = call.kind
  OBVIOUS
<1> QED BY <1>2, <1>4, <1>5, <1>6, <1>7 DEF Sound, Working, OwnWaits

LEMMA InfoTellsOn ==
    ASSUME TypeOK, PastIsPast, Marks, NEW u \in Users, NEW info \in Info, InfoTells(u, info)
    PROVE  InfoTells(u, info)'
<1>1. info.until \in Int /\ info.kind \in Kinds
  BY DEF Info
<1>2. PICK kind \in Kinds : kind = info.kind
  BY <1>1
<1>3. TrueAt(u, kind) \in Int /\ TrueAt(u, kind)' \in Int /\ TrueAt(u, kind) <= TrueAt(u, kind)'
  BY MarksGrow
<1> QED BY <1>1, <1>2, <1>3, Times DEF InfoTells

LEMMA RowTellsOn ==
    ASSUME TypeOK, PastIsPast, Marks, NEW u \in Users, NEW row \in Kinds \cup {None},
           RowTells(u, row)
    PROVE  RowTells(u, row)'
<1>1. CASE row \in Kinds
  <2>1. TrueAt(u, row) \in Int /\ TrueAt(u, row)' \in Int /\ TrueAt(u, row) <= TrueAt(u, row)'
    BY <1>1, MarksGrow
  <2> QED BY <2>1, Times DEF RowTells
<1>2. CASE row = None
  BY <1>2 DEF RowTells
<1> QED BY <1>1, <1>2

\* What is left of the invariant when caches, rows and most calls hold what they held, or
\* forget it, or have learnt what is so.
LEMMA MarksKeep ==
    ASSUME IInv, Marks, TypeOK', PastIsPast', Lasting(admin)',
           \A d \in Calls : \/ Sound(calls[d])'
                            \/ /\ calls'[d] = calls[d]
                               /\ Working(calls[d]) => now' <= calls[d].since + Lag,
           \A u \in Users : infos'[u] \in {infos[u], NoInfo} \/ InfoTells(u, infos'[u]),
           \A u \in Users : rows'[u] = rows[u] \/ RowTells(u, rows'[u])
    PROVE  IInv'
<1>1. TypeOK /\ PastIsPast
  BY DEF IInv
<1>2. CallsSound'
  <2>1. SUFFICES ASSUME NEW d \in Calls, ~ Sound(calls[d])' PROVE FALSE
    BY DEF CallsSound
  <2>2. PICK call : call = calls'[d]
    OBVIOUS
  <2>3. /\ call = calls[d] /\ call \in Call /\ Sound(call)
        /\ Working(call) => now' <= call.since + Lag
    BY <1>1, <2>1, <2>2, Instants DEF IInv, CallsSound
  <2>4. Sound(call)'
    BY <1>1, <2>3, SoundStays
  <2>5. Sound(calls[d])'
    BY <2>2, <2>4 DEF Sound, Working, OwnWaits
  <2> QED BY <2>1, <2>5
<1>3. InfosTell'
  <2>1. SUFFICES ASSUME NEW u \in Users PROVE InfoTells(u, infos[u])'
    BY DEF InfosTell, InfoTells
  <2>2. PICK info : info = infos'[u]
    OBVIOUS
  <2>3. info \in Info /\ InfoTells(u, info)
    BY <1>1, <2>2 DEF TypeOK, InfoTells, IInv, InfosTell, NoInfo
  <2>4. InfoTells(u, info)'
    BY <1>1, <2>3, InfoTellsOn
  <2> QED BY <2>2, <2>4 DEF InfoTells
<1>4. RowsTell'
  <2>1. SUFFICES ASSUME NEW u \in Users PROVE RowTells(u, rows[u])'
    BY DEF RowsTell, RowTells
  <2>2. PICK row : row = rows'[u]
    OBVIOUS
  <2>3. row \in Kinds \cup {None} /\ RowTells(u, row)
    BY <1>1, <2>2 DEF TypeOK, RowTells, IInv, RowsTell
  <2>4. RowTells(u, row)'
    BY <1>1, <2>3, RowTellsOn
  <2> QED BY <2>2, <2>4 DEF RowTells
<1> QED BY <1>2, <1>3, <1>4 DEF IInv

LEMMA AdvanceKeeps == ASSUME IInv, NEW c \in Calls, Advances(c) PROVE IInv'
<1>1. TypeOK /\ PastIsPast
  BY DEF IInv
<1>2. now' = now /\ UNCHANGED <<keycloak, bounds>>
  BY DEF Advances
<1>3. Marks
  BY <1>2, MarksStay
<1>4. PICK next : Goes(next) /\ calls' = [calls EXCEPT ![c] = next]
  BY DEF Advances
<1>5. next \in Call /\ Sound(next)
  BY <1>4 DEF Goes
<1>6. TypeOK'
  <2>1. calls' \in [Calls -> Call]
    BY <1>1, <1>4, <1>5 DEF TypeOK
  <2>2. /\ admin' \in [until : Int, exp : Int]
        /\ infos' \in [Users -> Info] /\ rows' \in [Users -> Kinds \cup {None}]
        /\ cookies' \in [Cookies -> CookieData \cup {None}]
    BY DEF Advances
  <2> QED BY <1>1, <1>2, <2>1, <2>2 DEF TypeOK, keycloak, bounds
<1>7. PastIsPast'
  BY <1>1, <1>2 DEF PastIsPast, keycloak
<1>8. ASSUME NEW d \in Calls
      PROVE  Sound(calls[d])'
  <2>1. PICK call : call = calls'[d]
    OBVIOUS
  <2>2. call \in Call /\ Sound(call)
    BY <1>1, <1>4, <1>5, <2>1 DEF TypeOK, IInv, CallsSound
  <2>3. Working(call) => now' <= call.since + Lag
    BY <1>2, <2>2 DEF Sound
  <2>4. Sound(call)'
    BY <1>1, <1>3, <2>2, <2>3, SoundStays
  <2> QED BY <2>1, <2>4 DEF Sound, Working, OwnWaits
<1>9. /\ \A u \in Users : infos'[u] = infos[u] \/ InfoTells(u, infos'[u])
      /\ \A u \in Users : rows'[u] = rows[u] \/ RowTells(u, rows'[u])
      /\ Lasting(admin)'
  BY DEF Advances, Lasting
<1> QED BY <1>3, <1>6, <1>7, <1>8, <1>9, MarksKeep

\* An account is made: what its user is told for is so from now on.
Makes(c) ==
    /\ Marks /\ PastIsPast' /\ TypeOK' /\ now' = now
    /\ UNCHANGED <<admin, infos, rows>>
    /\ Sound(calls[c])' /\ calls[c].stage # "told" /\ calls'[c].stage # "told"
    /\ \A d \in Calls \ {c} : calls'[d] = calls[d]

LEMMA CreatingAccount ==
    ASSUME IInv, NEW c \in Calls, CreateAccount(c)
    PROVE  Advances(c) \/ Makes(c)
<1>1. PICK call, u : call = calls[c] /\ u = call.user
  OBVIOUS
<1>2. /\ Asks(c, "create") /\ UNCHANGED <<now, up, seen, down, admin, infos, rows, cookies, bounds>>
      /\ \/ /\ ~ exists[u] /\ exists' = [exists EXCEPT ![u] = TRUE]
            /\ missed' = [missed EXCEPT ![u] = now]
            /\ calls' \in {[calls EXCEPT ![c] = Asking(call, "roles", call.held)],
                          [calls EXCEPT ![c] = Idle]}
         \/ calls' = [calls EXCEPT ![c] = Idle] /\ UNCHANGED <<exists, missed>>
  BY <1>1 DEF CreateAccount
<1>3. /\ call \in Call /\ TypeOK /\ PastIsPast /\ call.stage = "asking"
      /\ call.since \in Nat /\ call.held \in Int /\ now \in Nat /\ u \in Users
      /\ now <= call.since + Lag /\ Lasts(call.held, call.since, 5)
  BY <1>1, <1>2, AskFacts, Words
<1>4. CASE calls' = [calls EXCEPT ![c] = Idle] /\ UNCHANGED <<exists, missed>>
  BY <1>2, <1>4, EndsSound, Going DEF keycloak
<1>5. CASE /\ ~ exists[u] /\ exists' = [exists EXCEPT ![u] = TRUE]
           /\ missed' = [missed EXCEPT ![u] = now]
           /\ calls' \in {[calls EXCEPT ![c] = Asking(call, "roles", call.held)],
                         [calls EXCEPT ![c] = Idle]}
  <2>1. /\ Marks /\ PastIsPast' /\ TrueAt(u, "real")' = now
        /\ exists' \in [Users -> BOOLEAN] /\ missed' \in [Users -> Int]
    BY <1>2, <1>3, <1>5, Creating
  <2>2. "roles" \in Goals /\ Waits("roles") = 6
    BY Words DEF Goals
  <2>3. PICK next : /\ next \in {Asking(call, "roles", call.held), Idle}
                    /\ calls' = [calls EXCEPT ![c] = next]
    BY <1>5
  <2>4. next \in Call /\ Sound(next)' /\ next.stage # "told"
    <3>1. CASE next = Idle
      <4>1. Idle \in Call /\ Idle.stage = "idle"
        BY IdleType
      <4> QED BY <3>1, <4>1 DEF Sound, Working
    <3>2. CASE next = Asking(call, "roles", call.held)
      <4>1. /\ next \in Call /\ next.stage = "asking" /\ next.goal = "roles" /\ next.user = u
            /\ next.since = now /\ next.held = call.held
        <5>1. PICK goal \in Goals, exp \in Int : goal = "roles" /\ exp = call.held
          BY <1>3, <2>2
        <5>2. next = Asking(call, goal, exp)
          BY <3>2, <5>1
        <5>3. /\ next \in Call /\ Same(next, call) /\ next.stage = "asking"
              /\ next.goal = goal /\ next.since = now /\ next.held = exp
          BY <1>3, <5>2, AskingType
        <5> QED BY <1>1, <5>1, <5>3 DEF Same
      <4>2. Lasts(next.held, next.since, Waits(next.goal))
        <5>1. Lasts(call.held, now, 5 + 1)
          BY <1>3, LastsOn
        <5> QED BY <2>2, <4>1, <5>1
      <4>3. LongAgo < TrueAt(u, "real")'
        BY <1>3, <2>1, Times
      <4>4. now' = now /\ now <= now + Lag
        BY <1>2, <1>3, Times
      <4> QED BY <1>3, <4>1, <4>2, <4>3, <4>4 DEF Sound, Working
    <3> QED BY <2>3, <3>1, <3>2
  <2>5. calls'[c] = next /\ \A d \in Calls \ {c} : calls'[d] = calls[d]
    BY <1>3, <2>3 DEF TypeOK
  <2>6. Sound(calls[c])'
    BY <2>4, <2>5 DEF Sound, Working, OwnWaits
  <2>7. TypeOK'
    <3>1. calls' \in [Calls -> Call]
      BY <1>3, <2>3, <2>4 DEF TypeOK
    <3> QED BY <1>2, <1>3, <2>1, <3>1 DEF TypeOK, bounds
  <2> QED BY <1>1, <1>2, <1>3, <2>1, <2>4, <2>5, <2>6, <2>7 DEF Makes
<1> QED BY <1>2, <1>4, <1>5

\* A step, by what it is to calls and to time.
Stands ==
    /\ Marks /\ PastIsPast' /\ TypeOK'
    /\ UNCHANGED <<now, admin, infos, rows, calls>>

LEMMA KindsOfSteps ==
    ASSUME IInv, [Next]_vars
    PROVE  (\E c \in Calls : Advances(c) \/ Makes(c)) \/ Stands \/ Tick
<1>1. TypeOK /\ PastIsPast
  BY DEF IInv
<1>2. CASE UNCHANGED vars
  <2>1. Stands
    BY <1>1, <1>2, MarksStay DEF Stands, vars, keycloak, bounds, TypeOK, PastIsPast
  <2> QED BY <2>1
<1>3. ASSUME NEW k \in Cookies, EndSession(k)
      PROVE  Stands
  <2>1. /\ cookies' = [cookies EXCEPT ![k] = None]
        /\ UNCHANGED <<now, exists, up, seen, missed, down, admin, infos, rows, calls,
                       faults, clients>>
    BY <1>3 DEF EndSession, keycloak, bounds
  <2>2. cookies' \in [Cookies -> CookieData \cup {None}]
    BY <1>1, <2>1 DEF TypeOK
  <2>3. TypeOK'
    BY <1>1, <2>1, <2>2 DEF TypeOK
  <2> QED BY <1>1, <2>1, <2>3, MarksStay DEF Stands, keycloak, PastIsPast
<1>4. CASE (\E u \in Users : DeleteAccount(u)) \/ Outage \/ Recovery
  BY <1>1, <1>4, Faulting DEF Stands
<1>5. ASSUME NEW c \in Calls, Routes(c) \/ Step(c)
      PROVE  Advances(c) \/ Makes(c) \/ Stands
  BY <1>3, <1>5, Serving, Steps, CreatingAccount
<1> QED BY <1>2, <1>4, <1>5 DEF Next

LEMMA InvariantKept == IInv /\ [Next]_vars => IInv'
<1> SUFFICES ASSUME IInv, [Next]_vars PROVE IInv'
  OBVIOUS
<1>1. TypeOK /\ PastIsPast /\ now \in Nat /\ Lasting(admin)
  BY Instants DEF IInv
<1>2. \A d \in Calls : Working(calls[d]) => now <= calls[d].since + Lag
  BY CallFacts
<1>3. ASSUME NEW c \in Calls, Makes(c)
      PROVE  IInv'
  BY <1>1, <1>2, <1>3, MarksKeep DEF Makes, Lasting
<1>4. CASE Stands
  BY <1>1, <1>2, <1>4, MarksKeep DEF Stands, Lasting
<1>5. CASE Tick
  <2>1. Marks /\ PastIsPast' /\ TypeOK' /\ now' = now + 1 /\ calls' = calls /\ rows' = rows
    BY <1>1, <1>5, Ticking
  <2>2. ASSUME NEW d \in Calls, Working(calls[d])
        PROVE  now' <= calls[d].since + Lag
    <3>1. calls[d].since \in Nat /\ now < calls[d].since + Lag
      BY <1>5, <2>2, CallFacts DEF Tick
    <3> QED BY <1>1, <2>1, <3>1, Times
  <2>3. Lasting(admin)' /\ \A u \in Users : infos'[u] \in {infos[u], NoInfo}
    BY <1>1, <1>5 DEF Tick, Lasting, NoAdmin
  <2> QED BY <2>1, <2>2, <2>3, MarksKeep
<1> QED BY <1>3, <1>4, <1>5, AdvanceKeeps, KindsOfSteps

LEMMA InitInvariant == Init => IInv
<1> SUFFICES ASSUME Init PROVE IInv
  OBVIOUS
<1>1. LongAgo \in Int /\ LongAgo < 0
  BY Times
<1>2. NoInfo \in Info /\ NoInfo.until = Never /\ NoAdmin \in [until : Int, exp : Int]
      /\ NoAdmin.until = Never
  BY DEF NoInfo, Info, Never, Kinds, NoAdmin
<1>3. TypeOK
  BY <1>1, <1>2, IdleType DEF Init, TypeOK
<1>4. PastIsPast
  BY <1>1 DEF Init, PastIsPast
<1>5. Lasting(admin) /\ InfosTell /\ RowsTell
  BY <1>2 DEF Init, Lasting, InfosTell, InfoTells, RowsTell, RowTells
<1>6. CallsSound
  BY EndsSound DEF Init, CallsSound, Goes
<1> QED BY <1>3, <1>4, <1>5, <1>6 DEF IInv

\* Every behaviour keeps the invariant: what calls, caches and rows tell of a user was so
\* when the wait began in which it was learnt, and an admin token in the hands of a call
\* is as old as the waits the call has been through.
THEOREM Invariance == Spec => []IInv
  BY InitInvariant, InvariantKept, PTL DEF Spec

\* Calls, caches, rows and cookies keep their types, for any number of users, browsers
\* and calls: every cached answer is of a user, known or made up.
THEOREM TypesHold == Spec => []TypeOK
<1>1. IInv => TypeOK
  BY DEF IInv
<1> QED BY <1>1, Invariance, PTL

\* No request of getAdminToken's callers is under way with an admin token that has ended,
\* as far as the margin covers the waits between, whatever calls fetch tokens and put
\* them into the cache meanwhile.
THEOREM AdminTokensLive == Spec => []AdminTokenLive
<1>1. IInv => AdminTokenLive
  <2> SUFFICES ASSUME IInv, NEW c \in Calls, calls[c].stage = "asking",
                      Covered(Waits(calls[c].goal))
               PROVE  now < calls[c].held
    BY DEF AdminTokenLive
  <2>1. /\ calls[c].since \in Nat /\ calls[c].held \in Int /\ now \in Nat
        /\ now <= calls[c].since + Lag
        /\ Lasts(calls[c].held, calls[c].since, Waits(calls[c].goal))
    BY CallFacts DEF Sound, Working
  <2>2. Waits(calls[c].goal) \in Nat
    BY DEF Waits
  <2> QED BY <2>1, <2>2, LastsLive
<1> QED BY <1>1, Invariance, PTL

LEMMA ClaimsTell ==
    /\ \A u \in Users, kind \in Kinds :
           <<u, kind>> \in Claims /\ LastTrue[<<u, kind>>] = TrueAt(u, kind)
    /\ \A k \in Claims : k[1] \in Users /\ k[2] \in Kinds /\ LastTrue[k] = TrueAt(k[1], k[2])
    /\ \A k \in Claims : LastTrue'[k] = TrueAt(k[1], k[2])'
  BY DEF Claims, LastTrue, TrueAt

\* A row of PostgreSQL is of a user who once was what it tells: one with an account, or
\* one of whom Keycloak could not say so.
THEOREM RowsAlwaysHaveCauses == Spec => []RowsHaveCause
<1>1. IInv => RowsHaveCause
  <2> SUFFICES ASSUME IInv, NEW u \in Users, rows[u] # None
               PROVE  LastTrue[<<u, rows[u]>>] # LongAgo
    BY DEF RowsHaveCause
  <2>1. TypeOK /\ RowTells(u, rows[u])
    BY DEF IInv, RowsTell
  <2>2. rows[u] \in Kinds /\ TrueAt(u, rows[u]) \in Int /\ LongAgo \in Int
    BY <2>1, Instants, Times
  <2>3. LongAgo < TrueAt(u, rows[u])
    BY <2>1 DEF RowTells
  <2>4. LastTrue[<<u, rows[u]>>] = TrueAt(u, rows[u])
    BY <2>2, ClaimsTell
  <2> QED BY <2>2, <2>3, <2>4
<1> QED BY <1>1, Invariance, PTL

-----------------------------------------------------------------------------
(* Accounts implements Freshness, for either kind of claim.                *)

\* What is told after one call has become `next`.
LEMMA NewlyTold ==
    ASSUME TypeOK, NEW c \in Calls, NEW next, calls' = [calls EXCEPT ![c] = next],
           NEW kind \in Kinds, NEW k \in ToldInfo(kind)', k \notin ToldInfo(kind)
    PROVE  /\ next.stage = "told" /\ next.by = "account" /\ next.kind = kind
           /\ k = <<next.user, kind>>
<1>1. PICK d \in Calls : /\ calls'[d].stage = "told" /\ calls'[d].by = "account"
                         /\ calls'[d].kind = kind /\ k = <<calls'[d].user, kind>>
  BY DEF ToldInfo
<1>2. CASE d # c
  <2>1. calls'[d] = calls[d]
    BY <1>2 DEF TypeOK
  <2> QED BY <1>1, <2>1 DEF ToldInfo
<1>3. CASE d = c
  <2>1. calls'[d] = next
    BY <1>3 DEF TypeOK
  <2> QED BY <1>1, <2>1
<1> QED BY <1>2, <1>3

LEMMA ToldStays ==
    ASSUME NEW c \in Calls, Makes(c), NEW kind
    PROVE  ToldInfo(kind)' = ToldInfo(kind)
<1>1. /\ calls[c].stage # "told" /\ calls'[c].stage # "told"
      /\ \A d \in Calls \ {c} : calls'[d] = calls[d]
  BY DEF Makes
<1>2. \A d \in Calls : calls'[d] = calls[d] \/ (calls[d].stage # "told" /\ calls'[d].stage # "told")
  BY <1>1
<1> QED BY <1>2 DEF ToldInfo

LEMMA StartsUntold ==
    ASSUME Init, NEW kind \in Kinds
    PROVE  /\ LastTrueOf(kind) \in [Users \X {kind} -> Int] /\ ToldInfo(kind) = {}
<1>1. TypeOK
  BY InitInvariant DEF IInv
<1>2. \A k \in Users \X {kind} : LastTrue[k] \in Int
  BY <1>1, ClaimsTell, Instants
<1>3. \A c \in Calls : calls[c].stage # "told"
  BY IdleType DEF Init
<1>4. ToldInfo(kind) = {}
  BY <1>3 DEF ToldInfo
<1> QED BY <1>2, <1>4 DEF LastTrueOf

\* A step, by what becomes true and what is told.
LEMMA Telltale ==
    ASSUME IInv, IInv', [Next]_vars, NEW kind \in Kinds
    PROVE  /\ LastTrueOf(kind)' \in [Users \X {kind} -> Int]
           /\ \A k \in Users \X {kind} : LastTrueOf(kind)'[k] \in {LastTrueOf(kind)[k], now'}
           /\ \/ now' \in {now, now + 1} /\ ToldInfo(kind)' = ToldInfo(kind)
              \/ /\ now' = now /\ LastTrueOf(kind)' = LastTrueOf(kind)
                 /\ ToldInfo(kind)' \subseteq Users \X {kind}
                 /\ \A k \in ToldInfo(kind)' \ ToldInfo(kind) :
                        now <= LastTrueOf(kind)[k] + (CacheTTL + Span(kind))
<1>1. TypeOK /\ PastIsPast
  BY DEF IInv
<1>2. ASSUME Marks
      PROVE  /\ LastTrueOf(kind)' \in [Users \X {kind} -> Int]
             /\ \A k \in Users \X {kind} : LastTrueOf(kind)'[k] \in {LastTrueOf(kind)[k], now'}
  <2>1. Users \X {kind} \subseteq Claims
    BY DEF Claims
  <2>2. \A k \in Users \X {kind} : LastTrue'[k] \in Int /\ LastTrue'[k] \in {LastTrue[k], now'}
    BY <1>1, <1>2, <2>1, ClaimsTell, MarksGrow
  <2> QED BY <2>2 DEF LastTrueOf
<1>3. ASSUME NEW c \in Calls, Advances(c)
      PROVE  /\ Marks /\ now' = now /\ LastTrueOf(kind)' = LastTrueOf(kind)
             /\ ToldInfo(kind)' \subseteq Users \X {kind}
             /\ \A k \in ToldInfo(kind)' \ ToldInfo(kind) :
                    now <= LastTrueOf(kind)[k] + (CacheTTL + Span(kind))
  <2>1. now' = now /\ UNCHANGED keycloak
    BY <1>3 DEF Advances
  <2>2. LastTrueOf(kind)' = LastTrueOf(kind)
    BY <2>1 DEF LastTrueOf, LastTrue, LastSeen, LastMissed, LastOut, keycloak
  <2>3. PICK next : Goes(next) /\ calls' = [calls EXCEPT ![c] = next]
    BY <1>3 DEF Advances
  <2>4. ASSUME NEW k \in ToldInfo(kind)', k \notin ToldInfo(kind)
        PROVE  now <= LastTrueOf(kind)[k] + (CacheTTL + Span(kind))
    <3>1. /\ next.stage = "told" /\ next.by = "account" /\ next.kind = kind
          /\ k = <<next.user, kind>>
      BY <1>1, <2>3, <2>4, NewlyTold
    <3>2. next.user \in Users /\ Fresh(next.user, kind)
      BY <2>3, <3>1 DEF Goes, Sound
    <3>3. LastTrueOf(kind)[k] = TrueAt(next.user, kind)
      BY <3>1, <3>2, ClaimsTell DEF LastTrueOf
    <3>4. TrueAt(next.user, kind) \in Int /\ now \in Int
      BY <1>1, <3>2, Instants
    <3> QED BY <3>2, <3>3, <3>4, Times DEF Fresh
  <2>5. ToldInfo(kind)' \subseteq Users \X {kind}
    <3>1. \A d \in Calls : calls'[d].stage = "told" => calls'[d].user \in Users
      BY DEF IInv, CallsSound, Sound
    <3> QED BY <3>1 DEF ToldInfo
  <2> QED BY <2>1, <2>2, <2>4, <2>5, MarksStay
<1>4. ASSUME NEW c \in Calls, Makes(c)
      PROVE  Marks /\ now' = now /\ ToldInfo(kind)' = ToldInfo(kind)
  BY <1>4, ToldStays DEF Makes
<1>5. CASE Stands
  BY <1>2, <1>5 DEF Stands, ToldInfo
<1>6. CASE Tick
  <2>1. Marks /\ now' = now + 1 /\ calls' = calls
    BY <1>1, <1>6, Ticking
  <2>2. ToldInfo(kind)' = ToldInfo(kind)
    BY <2>1 DEF ToldInfo
  <2> QED BY <1>2, <2>1, <2>2
<1> QED BY <1>2, <1>3, <1>4, <1>5, <1>6, KindsOfSteps

\* By the id of an account getUserInfo never tells that there is one later than an entry
\* of the cache lives and two waits last after there was: whatever fails.
THEOREM InfoStaysFresh == Spec => InfoIsFresh
<1>1. "real" \in Kinds /\ Span("real") = 2 * Lag
  BY DEF Kinds, Span
<1>2. Init => Accounted!Init
  BY <1>1, StartsUntold DEF Accounted!Init, Init
<1>3. IInv /\ IInv' /\ [Next]_vars
      => [Accounted!Next]_<<now, LastTrueOf("real"), ToldInfo("real")>>
  BY <1>1, Telltale
     DEF Accounted!Next, Accounted!Pass, Accounted!Turn, Accounted!Tell
<1> QED BY <1>2, <1>3, Invariance, PTL DEF Spec, InfoIsFresh, Accounted!Spec

\* Nor does it tell a made-up user later than that and four waits after the account was
\* missing, or Keycloak out of reach.
THEOREM GhostsAlwaysFade == Spec => GhostsFade
<1>1. "made" \in Kinds /\ Span("made") = 4 * Lag
  BY DEF Kinds, Span
<1>2. Init => Imagined!Init
  BY <1>1, StartsUntold DEF Imagined!Init, Init
<1>3. IInv /\ IInv' /\ [Next]_vars
      => [Imagined!Next]_<<now, LastTrueOf("made"), ToldInfo("made")>>
  BY <1>1, Telltale
     DEF Imagined!Next, Imagined!Pass, Imagined!Turn, Imagined!Tell
<1> QED BY <1>2, <1>3, Invariance, PTL DEF Spec, GhostsFade, Imagined!Spec
=============================================================================
