------------------------- MODULE AccessTokensProofs -------------------------
(***************************************************************************)
(* Theorems about AccessTokens, for every value of its constants: that it  *)
(* implements Freshness in the three ways the module states.               *)
(***************************************************************************)
EXTENDS AccessTokens, TLAPS

-----------------------------------------------------------------------------
(* The inductive invariant.                                                *)

\* When a session was last open, and a user's role last was as given.
OpenAt(s) == IF open[s] THEN now ELSE closed[s]
HadAt(u, b) == IF role[u] = b THEN now ELSE lost[u][b]

\* What is recorded of the past is past.
PastIsPast ==
    /\ \A s \in Tokens : closed[s] <= now
    /\ \A u \in Users, b \in BOOLEAN : lost[u][b] <= now

\* A token ends within Life of an instant at which its session was open, and
\* of one at which its user's role was the one it tells.
TokensTell ==
    \A t \in Issued :
        /\ token[t].exp <= OpenAt(token[t].session) + Life
        /\ token[t].exp <= HadAt(token[t].user, token[t].role) + Life

VerdictsTell ==
    \A t \in Tokens : verdicts[t] # Never =>
        t \in Issued /\ verdicts[t] <= token[t].exp + CacheTTL

DecisionsTell ==
    \A u \in Users : decisions[u].until # Never =>
        decisions[u].until <= HadAt(u, decisions[u].allow) + Life + Lag + DecisionTTL

\* A call at work began while its token was valid, and not longer than Lag ago.
CallsTell ==
    \A c \in Calls :
        /\ calls[c].stage # "idle" => calls[c].token \in Issued
        /\ Working(calls[c]) =>
              /\ calls[c].since <= token[calls[c].token].exp
              /\ calls[c].since <= now /\ now <= calls[c].since + Lag

IInv == TypeOK /\ PastIsPast /\ TokensTell /\ VerdictsTell /\ DecisionsTell /\ CallsTell

-----------------------------------------------------------------------------
(* Types.                                                                  *)

LEMMA Times ==
    /\ Life \in Nat /\ CacheTTL \in Nat /\ DecisionTTL \in Nat /\ Lag \in Nat
    /\ Lag <= CacheTTL
  BY TimesAssumption

LEMMA CallTypes ==
    /\ Idle \in Call /\ Idle.stage = "idle"
    /\ \A t \in Tokens, answer \in {"valid", "allowed", "refused"} :
           /\ Answered(answer, t) \in Call
           /\ Answered(answer, t).stage = answer /\ Answered(answer, t).token = t
    /\ \A t \in Tokens, stage \in {"storing", "looking", "deciding"}, n \in Nat :
           [stage |-> stage, token |-> t, since |-> n] \in Call
    /\ \A call \in Call : [call EXCEPT !.stage = "deciding"]
           = [stage |-> "deciding", token |-> call.token, since |-> call.since]
    /\ \A call \in Call : /\ call.stage \in Stages
                          /\ call.token \in Tokens \cup {None} /\ call.since \in Nat
<1>1. \A stage \in Stages, t \in Tokens \cup {None}, n \in Nat :
          [stage |-> stage, token |-> t, since |-> n] \in Call
  BY DEF Call, Time
<1>2. {"idle", "storing", "looking", "deciding", "valid", "allowed", "refused"} \subseteq Stages
  BY DEF Stages
<1>3. Idle \in Call /\ Idle.stage = "idle"
  BY <1>1, <1>2 DEF Idle
<1>4. \A call \in Call : [call EXCEPT !.stage = "deciding"]
          = [stage |-> "deciding", token |-> call.token, since |-> call.since]
  BY DEF Call
<1>5. \A t \in Tokens, answer \in {"valid", "allowed", "refused"} :
          /\ Answered(answer, t) \in Call
          /\ Answered(answer, t).stage = answer /\ Answered(answer, t).token = t
  BY <1>1, <1>2 DEF Answered
<1>6. \A t \in Tokens, stage \in {"storing", "looking", "deciding"}, n \in Nat :
          [stage |-> stage, token |-> t, since |-> n] \in Call
  BY <1>1, <1>2
<1>7. \A call \in Call : /\ call.stage \in Stages
                         /\ call.token \in Tokens \cup {None} /\ call.since \in Nat
  BY DEF Call, Time
<1> QED BY <1>3, <1>4, <1>5, <1>6, <1>7

LEMMA DecisionTypes ==
    /\ NoDecision \in Decision /\ NoDecision.until = Never
    /\ \A n \in Int, b \in BOOLEAN : [until |-> n, allow |-> b] \in Decision
  BY DEF NoDecision, Decision, Never

LEMMA TokenTypes ==
    ASSUME TypeOK
    PROVE  /\ None \notin Tokens /\ None \notin TokenData
           /\ \A t \in Issued : /\ t \in Tokens /\ token[t] \in TokenData
                                /\ token[t].user \in Users /\ token[t].role \in BOOLEAN
                                /\ token[t].exp \in Nat /\ token[t].session \in Tokens
           /\ \A u \in Users, b \in BOOLEAN, n \in Nat, s \in Tokens :
                  [user |-> u, role |-> b, exp |-> n, session |-> s] \in TokenData
<1>1. None \notin Tokens /\ None \notin TokenData
  BY NoneAssumption
<1>2. \A t \in Issued : t \in Tokens /\ token[t] \in TokenData
  BY DEF TypeOK, Issued
<1>3. \A d \in TokenData : d.user \in Users /\ d.role \in BOOLEAN /\ d.exp \in Nat /\ d.session \in Tokens
  BY DEF TokenData, Time
<1>4. \A u \in Users, b \in BOOLEAN, n \in Nat, s \in Tokens :
          [user |-> u, role |-> b, exp |-> n, session |-> s] \in TokenData
  BY DEF TokenData, Time
<1> QED BY <1>1, <1>2, <1>3, <1>4

-----------------------------------------------------------------------------
(* The actions, by what they change.                                       *)

\* A token is issued to u, of a session that is open when it has been.
Issuing(u, t, s) ==
    /\ Issue(u, t, s)
    /\ open' = open \/ open' = [open EXCEPT ![t] = TRUE]
    /\ open'[s]
    /\ UNCHANGED <<now, role, lost, closed, caches, calls, bounds>>

Ending(s) ==
    /\ open[s]
    /\ open' = [open EXCEPT ![s] = FALSE]
    /\ closed' = [closed EXCEPT ![s] = now]
    /\ UNCHANGED <<now, role, lost, token, caches, calls, bounds>>

LEMMA Cases ==
    ASSUME TypeOK, Next
    PROVE  \/ \E u \in Users, t, s \in Tokens : Issuing(u, t, s)
           \/ \E s \in Tokens : Ending(s)
           \/ \E u \in Users : ChangeRole(u)
           \/ \E c \in Calls, t \in Tokens : ValidateToken(c, t) \/ CheckPermission(c, t)
           \/ \E c \in Calls : CacheVerdict(c) \/ LookUpDecision(c) \/ Decide(c) \/ Return(c)
           \/ Tick
           \/ UNCHANGED vars
<1>1. ASSUME NEW u \in Users, NEW t \in Tokens, Login(u, t)
      PROVE  Issuing(u, t, t)
  <2>1. open' = [open EXCEPT ![t] = TRUE]
    BY <1>1 DEF Login, PasswordGrant
  <2>2. open'[t]
    BY <2>1 DEF TypeOK
  <2> QED BY <1>1, <2>1, <2>2 DEF Login, PasswordGrant, Issuing
<1>2. ASSUME NEW t \in Tokens, ServiceToken(t)
      PROVE  Issuing(Service, t, t)
  <2>1. open' = [open EXCEPT ![t] = TRUE]
    BY <1>2 DEF ServiceToken, ClientCredentials
  <2>2. open'[t]
    BY <2>1 DEF TypeOK
  <2> QED BY <1>2, <2>1, <2>2 DEF ServiceToken, ClientCredentials, Issuing
<1>3. ASSUME NEW t \in Tokens, NEW fresh \in Tokens, Refresh(t, fresh)
      PROVE  \E u \in Users, s \in Tokens : Issuing(u, fresh, s)
  <2>1. token[t].user \in Users /\ token[t].session \in Tokens
    BY <1>3, TokenTypes DEF Refresh
  <2>2. Issuing(token[t].user, fresh, token[t].session)
    BY <1>3 DEF Refresh, RefreshGrant, Issuing
  <2> QED BY <2>1, <2>2
<1>4. ASSUME NEW t \in Tokens, Logout(t)
      PROVE  (\E s \in Tokens : Ending(s)) \/ UNCHANGED vars
  <2>1. token[t].session \in Tokens
    BY <1>4, TokenTypes DEF Logout
  <2>2. Ending(token[t].session) \/ UNCHANGED vars
    BY <1>4 DEF Logout, EndSession, Ending, vars, keycloak, caches, bounds
  <2> QED BY <2>1, <2>2
<1>5. ASSUME NEW t \in Tokens, LogoutApp(t)
      PROVE  UNCHANGED vars
  BY <1>5 DEF LogoutApp
<1>6. ASSUME Grants
      PROVE  \/ \E u \in Users, t \in Tokens : Login(u, t)
             \/ \E t, fresh \in Tokens : Refresh(t, fresh)
             \/ \E t \in Tokens : Logout(t) \/ ServiceToken(t) \/ LogoutApp(t)
  BY <1>6 DEF Grants, SessionRoutes, Sessions, MFARoute, CompleteMFALogin, AdminTokenRoute,
              ApplicationRoutes, AuthenticateApp, ApplicationToken, RefreshApp,
              SessionMutations, MFAMutation, ApplicationMutations
<1>7. ASSUME NEW c \in Calls, REST(c) \/ GraphQL(c)
      PROVE  \E t \in Tokens : ValidateToken(c, t) \/ CheckPermission(c, t)
  BY <1>7 DEF REST, GraphQL, ValidationRoutes, PermissionRoute, Permissions,
              ApplicationValidation, ValidateApp, ValidationQueries, PermissionQuery
<1>8. Service \in Users
  BY ServiceAssumption
<1>9. CASE Grants
  BY <1>1, <1>2, <1>3, <1>4, <1>5, <1>6, <1>8, <1>9
<1>10. CASE \E c \in Calls : REST(c) \/ GraphQL(c) \/ Step(c)
  BY <1>7, <1>10 DEF Step
<1> QED BY <1>9, <1>10 DEF Next

-----------------------------------------------------------------------------
(* Types are kept.                                                         *)

\* What a call becomes when its caller asks, or when it takes a step.
Asked(c, t, call) ==
    \/ call = Idle
    \/ call = Answered("valid", t) /\ now <= verdicts[t]
    \/ /\ call \in {[stage |-> stage, token |-> t, since |-> now] : stage \in {"storing", "looking"}}
       /\ now <= token[t].exp

LEMMA Asking ==
    ASSUME TypeOK, NEW c \in Calls, NEW t \in Tokens,
           ValidateToken(c, t) \/ CheckPermission(c, t)
    PROVE  /\ t \in Issued
           /\ calls[c] = Idle
           /\ \E call \in Call : Asked(c, t, call) /\ calls' = [calls EXCEPT ![c] = call]
           /\ UNCHANGED <<now, keycloak, caches, bounds>>
<1>1. /\ Idle \in Call /\ Answered("valid", t) \in Call
      /\ [stage |-> "storing", token |-> t, since |-> now] \in Call
      /\ [stage |-> "looking", token |-> t, since |-> now] \in Call
  BY CallTypes DEF TypeOK, Time
<1>2. CASE ValidateToken(c, t)
  BY <1>1, <1>2 DEF ValidateToken, Enter, Storing, Readable, Decodes, Asked
<1>3. CASE CheckPermission(c, t)
  BY <1>1, <1>3 DEF CheckPermission, Enter, Decodes, Asked
<1> QED BY <1>2, <1>3

LEMMA Looking ==
    ASSUME TypeOK, NEW c \in Calls, LookUpDecision(c), calls[c].token \in Issued
    PROVE  LET t == calls[c].token
               cached == decisions[token[t].user] IN
           /\ calls[c].stage = "looking"
           /\ \/ /\ calls' = [calls EXCEPT ![c] = Answered(Decided(cached.allow), t)]
                 /\ now <= cached.until
              \/ calls' = [calls EXCEPT ![c] =
                     [stage |-> "deciding", token |-> t, since |-> calls[c].since]]
           /\ UNCHANGED <<now, keycloak, caches, bounds>>
<1>1. calls[c] \in Call
  BY DEF TypeOK
<1> QED BY <1>1, CallTypes DEF LookUpDecision, Readable

LEMMA Deciding ==
    ASSUME TypeOK, NEW c \in Calls, Decide(c), calls[c].token \in Issued
    PROVE  LET t == calls[c].token
               decision == [until |-> now + DecisionTTL, allow |-> token[t].role] IN
           /\ calls[c].stage = "deciding"
           /\ \/ calls' = [calls EXCEPT ![c] = Answered(Decided(token[t].role), t)]
              \/ calls' = [calls EXCEPT ![c] = Idle]
           /\ \/ decisions' = decisions
              \/ decisions' = [decisions EXCEPT ![token[t].user] = decision]
           /\ UNCHANGED <<now, keycloak, verdicts, bounds>>
  BY DEF Decide, ExpiresAt, Policy

LEMMA InitTypes == Init => TypeOK
<1> SUFFICES ASSUME Init PROVE TypeOK
  OBVIOUS
<1>1. LongAgo \in Int /\ Never \in Int
  BY Times DEF LongAgo, Never
<1>2. now \in Time /\ changes \in Nat /\ question \in Questions
  BY DEF Init, Time
<1>3. role \in [Users -> BOOLEAN] /\ lost \in [Users -> [BOOLEAN -> Int]]
  BY <1>1 DEF Init
<1>4. token \in [Tokens -> TokenData \cup {None}]
  BY DEF Init
<1>5. open \in [Tokens -> BOOLEAN] /\ closed \in [Tokens -> Int]
  BY <1>1 DEF Init
<1>6. verdicts \in [Tokens -> Int]
  BY <1>1 DEF Init
<1>7. decisions \in [Users -> Decision]
  BY DecisionTypes DEF Init
<1>8. calls \in [Calls -> Call]
  BY CallTypes DEF Init
<1> QED BY <1>2, <1>3, <1>4, <1>5, <1>6, <1>7, <1>8 DEF TypeOK

LEMMA TypesKept == TypeOK /\ CallsTell /\ [Next]_vars => TypeOK'
<1> SUFFICES ASSUME TypeOK, CallsTell, [Next]_vars PROVE TypeOK'
  OBVIOUS
<1> USE DEF keycloak, caches, bounds, vars
<1>1. ASSUME NEW u \in Users, NEW t \in Tokens, NEW s \in Tokens, Issuing(u, t, s)
      PROVE  TypeOK'
  <2>1. now + Life \in Nat /\ role[u] \in BOOLEAN
    BY Times DEF TypeOK, Time
  <2>2. [user |-> u, role |-> role[u], exp |-> now + Life, session |-> s] \in TokenData
    BY <2>1, TokenTypes
  <2>3. token' \in [Tokens -> TokenData \cup {None}]
    BY <1>1, <2>2 DEF Issuing, Issue, TypeOK
  <2>4. open' \in [Tokens -> BOOLEAN]
    BY <1>1 DEF Issuing, TypeOK
  <2> QED BY <1>1, <2>3, <2>4 DEF Issuing, TypeOK
<1>2. ASSUME NEW s \in Tokens, Ending(s)
      PROVE  TypeOK'
  BY <1>2 DEF Ending, TypeOK, Time
<1>3. ASSUME NEW u \in Users, ChangeRole(u)
      PROVE  TypeOK'
  <2>1. now \in Int /\ role[u] \in BOOLEAN
    BY DEF TypeOK, Time
  <2>2. role' \in [Users -> BOOLEAN]
    BY <1>3 DEF ChangeRole, TypeOK
  <2>3. lost' \in [Users -> [BOOLEAN -> Int]]
    BY <1>3, <2>1 DEF ChangeRole, TypeOK
  <2> QED BY <1>3, <2>2, <2>3 DEF ChangeRole, TypeOK
<1>4. ASSUME NEW c \in Calls, NEW t \in Tokens, ValidateToken(c, t) \/ CheckPermission(c, t)
      PROVE  TypeOK'
  <2>1. PICK call \in Call : calls' = [calls EXCEPT ![c] = call]
    BY <1>4, Asking
  <2>2. calls' \in [Calls -> Call]
    BY <2>1 DEF TypeOK
  <2>3. UNCHANGED <<now, keycloak, caches, bounds>>
    BY <1>4, Asking
  <2> QED BY <2>2, <2>3 DEF TypeOK
<1>5. ASSUME NEW c \in Calls, CacheVerdict(c)
      PROVE  TypeOK'
  <2>1. calls[c].token \in Tokens /\ calls[c].since \in Nat
    BY <1>5, CallTypes DEF CacheVerdict, CallsTell, Issued, TypeOK
  <2>2. Answered("valid", calls[c].token) \in Call
    BY <2>1, CallTypes
  <2>3. calls' \in [Calls -> Call]
    BY <1>5, <2>2 DEF CacheVerdict, TypeOK
  <2>4. calls[c].since + CacheTTL \in Int
    BY <2>1, Times
  <2>5. verdicts' \in [Tokens -> Int]
    BY <1>5, <2>1, <2>4 DEF CacheVerdict, ExpiresAt, TypeOK
  <2> QED BY <1>5, <2>3, <2>5 DEF CacheVerdict, TypeOK
<1>6. ASSUME NEW c \in Calls, LookUpDecision(c)
      PROVE  TypeOK'
  <2>1. calls[c] \in Call /\ calls[c].stage = "looking"
    BY <1>6 DEF LookUpDecision, TypeOK
  <2>2. calls[c].token \in Issued
    BY <2>1 DEF CallsTell
  <2>3. calls[c].token \in Tokens /\ calls[c].since \in Nat
    BY <2>1, <2>2, CallTypes DEF Issued
  <2>4. \A b \in BOOLEAN : Answered(Decided(b), calls[c].token) \in Call
    BY <2>3, CallTypes DEF Decided
  <2>5. token[calls[c].token].user \in Users
    BY <2>2, TokenTypes
  <2>6. decisions[token[calls[c].token].user].allow \in BOOLEAN
    BY <2>5 DEF TypeOK, Decision
  <2>7. [stage |-> "deciding", token |-> calls[c].token, since |-> calls[c].since] \in Call
    BY <2>3, CallTypes
  <2>8. calls' \in [Calls -> Call]
    BY <1>6, <2>2, <2>4, <2>6, <2>7, Looking DEF TypeOK
  <2> QED BY <1>6, <2>8 DEF LookUpDecision, TypeOK
<1>7. ASSUME NEW c \in Calls, Decide(c)
      PROVE  TypeOK'
  <2>1. calls[c] \in Call /\ calls[c].stage = "deciding"
    BY <1>7 DEF Decide, TypeOK
  <2>2. calls[c].token \in Issued
    BY <2>1 DEF CallsTell
  <2>3. calls[c].token \in Tokens /\ Idle \in Call
    BY <2>2, CallTypes DEF Issued
  <2>4. \A b \in BOOLEAN : Answered(Decided(b), calls[c].token) \in Call
    BY <2>3, CallTypes DEF Decided
  <2>5. token[calls[c].token].user \in Users /\ token[calls[c].token].role \in BOOLEAN
    BY <2>2, TokenTypes
  <2>6. calls' \in [Calls -> Call]
    BY <1>7, <2>2, <2>3, <2>4, <2>5, Deciding DEF TypeOK
  <2>7. now + DecisionTTL \in Int
    BY Times DEF TypeOK, Time
  <2>8. [until |-> now + DecisionTTL, allow |-> token[calls[c].token].role] \in Decision
    BY <2>5, <2>7, DecisionTypes
  <2>9. decisions' \in [Users -> Decision]
    BY <1>7, <2>2, <2>5, <2>8, Deciding DEF TypeOK
  <2> QED BY <1>7, <2>6, <2>9 DEF Decide, TypeOK
<1>8. ASSUME NEW c \in Calls, Return(c)
      PROVE  TypeOK'
  BY <1>8, CallTypes DEF Return, TypeOK
<1>9. CASE Tick
  <2>1. now' \in Time
    BY <1>9 DEF Tick, TypeOK, Time
  <2>2. verdicts' \in [Tokens -> Int]
    BY <1>9 DEF Tick, TypeOK, Kept, Never
  <2>3. decisions' \in [Users -> Decision]
    BY <1>9, DecisionTypes DEF Tick, TypeOK
  <2> QED BY <1>9, <2>1, <2>2, <2>3 DEF Tick, TypeOK
<1>10. CASE UNCHANGED vars
  BY <1>10 DEF TypeOK
<1> QED BY <1>1, <1>2, <1>3, <1>4, <1>5, <1>6, <1>7, <1>8, <1>9, <1>10, Cases

-----------------------------------------------------------------------------
(* What was so stays so: instants only move on, and tokens stay as issued. *)

Keeps ==
    /\ now <= now'
    /\ \A s \in Tokens : OpenAt(s) \in Int /\ OpenAt(s)' \in Int /\ OpenAt(s) <= OpenAt(s)'
    /\ \A u \in Users, b \in BOOLEAN :
           HadAt(u, b) \in Int /\ HadAt(u, b)' \in Int /\ HadAt(u, b) <= HadAt(u, b)'
    /\ \A t \in Issued : t \in Issued' /\ token'[t] = token[t]

LEMMA Instants ==
    ASSUME TypeOK
    PROVE  /\ now \in Int
           /\ \A s \in Tokens : OpenAt(s) \in Int
           /\ \A u \in Users, b \in BOOLEAN : HadAt(u, b) \in Int
  BY DEF TypeOK, OpenAt, HadAt, Time

LEMMA IssuedKept ==
    ASSUME TypeOK, TypeOK',
           \/ token' = token
           \/ \E u \in Users, t, s \in Tokens : Issue(u, t, s)
    PROVE  \A t \in Issued : t \in Issued' /\ token'[t] = token[t]
  BY DEF TypeOK, Issued, Issue

LEMMA KeepsAll == TypeOK /\ TypeOK' /\ PastIsPast /\ [Next]_vars => Keeps /\ PastIsPast'
<1> SUFFICES ASSUME TypeOK, TypeOK', PastIsPast, [Next]_vars PROVE Keeps /\ PastIsPast'
  OBVIOUS
<1> USE DEF keycloak, caches, bounds, vars
<1>a. /\ now \in Int /\ now' \in Int
      /\ \A s \in Tokens : OpenAt(s) \in Int /\ OpenAt(s)' \in Int
      /\ \A u \in Users, b \in BOOLEAN : HadAt(u, b) \in Int /\ HadAt(u, b)' \in Int
  BY Instants DEF TypeOK, OpenAt, HadAt, Time
<1>b. \A s \in Tokens : closed[s] \in Int /\ closed[s] <= now
  BY DEF TypeOK, PastIsPast
<1>c. \A u \in Users, b \in BOOLEAN : lost[u][b] \in Int /\ lost[u][b] <= now
  BY DEF TypeOK, PastIsPast
<1>1. ASSUME NEW u \in Users, NEW t \in Tokens, NEW s \in Tokens, Issuing(u, t, s)
      PROVE  Keeps /\ PastIsPast'
  <2>1. \A k \in Issued : k \in Issued' /\ token'[k] = token[k]
    BY <1>1, IssuedKept DEF Issuing
  <2>2. \A k \in Tokens : OpenAt(k) <= OpenAt(k)'
    BY <1>1, <1>a, <1>b DEF Issuing, OpenAt, TypeOK
  <2>3. \A v \in Users, b \in BOOLEAN : HadAt(v, b) <= HadAt(v, b)'
    BY <1>1, <1>a DEF Issuing, HadAt
  <2>4. PastIsPast'
    BY <1>1, <1>b, <1>c DEF Issuing, PastIsPast
  <2>5. now <= now'
    BY <1>1, <1>a DEF Issuing
  <2> QED BY <1>a, <2>1, <2>2, <2>3, <2>4, <2>5 DEF Keeps
<1>2. ASSUME NEW s \in Tokens, Ending(s)
      PROVE  Keeps /\ PastIsPast'
  <2>1. \A k \in Issued : k \in Issued' /\ token'[k] = token[k]
    BY <1>2, IssuedKept DEF Ending
  <2>2. \A k \in Tokens : OpenAt(k) <= OpenAt(k)' /\ closed'[k] <= now
    BY <1>2, <1>a, <1>b DEF Ending, OpenAt, TypeOK
  <2>3. \A v \in Users, b \in BOOLEAN : HadAt(v, b) <= HadAt(v, b)'
    BY <1>2, <1>a DEF Ending, HadAt
  <2>4. now <= now' /\ now' = now
    BY <1>2, <1>a DEF Ending
  <2>5. PastIsPast'
    BY <1>2, <1>c, <2>2, <2>4 DEF Ending, PastIsPast
  <2> QED BY <1>a, <2>1, <2>2, <2>3, <2>4, <2>5 DEF Keeps
<1>3. ASSUME NEW u \in Users, ChangeRole(u)
      PROVE  Keeps /\ PastIsPast'
  <2>1. \A k \in Issued : k \in Issued' /\ token'[k] = token[k]
    BY <1>3, IssuedKept DEF ChangeRole
  <2>2. \A k \in Tokens : OpenAt(k) <= OpenAt(k)'
    BY <1>3, <1>a DEF ChangeRole, OpenAt
  <2>3. \A v \in Users, b \in BOOLEAN : HadAt(v, b) <= HadAt(v, b)' /\ lost'[v][b] <= now
    BY <1>3, <1>a, <1>c DEF ChangeRole, HadAt, TypeOK
  <2>4. now <= now' /\ now' = now
    BY <1>3, <1>a DEF ChangeRole
  <2>5. PastIsPast'
    BY <1>3, <1>b, <2>3, <2>4 DEF ChangeRole, PastIsPast
  <2> QED BY <1>a, <2>1, <2>2, <2>3, <2>4, <2>5 DEF Keeps
<1>4. CASE UNCHANGED <<now, keycloak>>
  <2>1. \A k \in Issued : k \in Issued' /\ token'[k] = token[k]
    BY <1>4, IssuedKept
  <2>2. \A k \in Tokens : OpenAt(k) <= OpenAt(k)'
    BY <1>4, <1>a DEF OpenAt
  <2>3. \A v \in Users, b \in BOOLEAN : HadAt(v, b) <= HadAt(v, b)'
    BY <1>4, <1>a DEF HadAt
  <2>4. PastIsPast' /\ now <= now'
    BY <1>4, <1>a DEF PastIsPast
  <2> QED BY <1>a, <2>1, <2>2, <2>3, <2>4 DEF Keeps
<1>5. CASE Tick
  <2>1. \A k \in Issued : k \in Issued' /\ token'[k] = token[k]
    BY <1>5, IssuedKept DEF Tick
  <2>2. now' = now + 1 /\ closed' = closed /\ open' = open /\ role' = role /\ lost' = lost
    BY <1>5 DEF Tick
  <2>3. \A k \in Tokens : OpenAt(k) <= OpenAt(k)'
    BY <2>2, <1>a, <1>b DEF OpenAt
  <2>4. \A v \in Users, b \in BOOLEAN : HadAt(v, b) <= HadAt(v, b)'
    BY <2>2, <1>a, <1>c DEF HadAt
  <2>5. PastIsPast'
    BY <2>2, <1>a, <1>b, <1>c DEF PastIsPast
  <2>6. now <= now'
    BY <2>2, <1>a
  <2> QED BY <1>a, <2>1, <2>3, <2>4, <2>5, <2>6 DEF Keeps
<1>6. ASSUME NEW c \in Calls, NEW t \in Tokens, ValidateToken(c, t) \/ CheckPermission(c, t)
      PROVE  UNCHANGED <<now, keycloak>>
  BY <1>6, Asking
<1>7. ASSUME NEW c \in Calls, CacheVerdict(c) \/ LookUpDecision(c) \/ Decide(c) \/ Return(c)
      PROVE  UNCHANGED <<now, keycloak>>
  BY <1>7 DEF CacheVerdict, LookUpDecision, Decide, Return
<1> QED BY <1>1, <1>2, <1>3, <1>4, <1>5, <1>6, <1>7, Cases

-----------------------------------------------------------------------------
(* Tokens tell what was so not longer than Life before they end.           *)

LEMMA TokensKept == TypeOK /\ TypeOK' /\ PastIsPast /\ TokensTell /\ [Next]_vars => TokensTell'
<1> SUFFICES ASSUME TypeOK, TypeOK', PastIsPast, TokensTell, [Next]_vars,
                    NEW t \in Issued'
             PROVE  /\ token'[t].exp <= OpenAt(token[t].session)' + Life
                    /\ token'[t].exp <= HadAt(token[t].user, token[t].role)' + Life
  BY DEF TokensTell
<1>1. Keeps
  BY KeepsAll
<1>2. CASE t \in Issued
  <2>1. token'[t] = token[t]
    BY <1>1, <1>2 DEF Keeps
  <2>2. /\ token[t].session \in Tokens /\ token[t].user \in Users
        /\ token[t].role \in BOOLEAN /\ token[t].exp \in Nat
    BY <1>2, TokenTypes
  <2>3. /\ OpenAt(token[t].session) \in Int
        /\ OpenAt(token[t].session)' \in Int
        /\ OpenAt(token[t].session) <= OpenAt(token[t].session)'
    BY <1>1, <2>1, <2>2 DEF Keeps
  <2>4. /\ HadAt(token[t].user, token[t].role) \in Int
        /\ HadAt(token[t].user, token[t].role)' \in Int
        /\ HadAt(token[t].user, token[t].role) <= HadAt(token[t].user, token[t].role)'
    BY <1>1, <2>1, <2>2 DEF Keeps
  <2>5. /\ token[t].exp <= OpenAt(token[t].session) + Life
        /\ token[t].exp <= HadAt(token[t].user, token[t].role) + Life
    BY <1>2 DEF TokensTell
  <2> QED BY <2>1, <2>2, <2>3, <2>4, <2>5, Times
<1>3. CASE t \notin Issued
  <2>1. PICK u \in Users, s \in Tokens : Issuing(u, t, s)
    <3>1. token' # token
      BY <1>3 DEF Issued
    <3>2. \A c \in Calls, k \in Tokens :
              ValidateToken(c, k) \/ CheckPermission(c, k) => token' = token
      BY DEF ValidateToken, CheckPermission, keycloak
    <3>3. \A c \in Calls :
              CacheVerdict(c) \/ LookUpDecision(c) \/ Decide(c) \/ Return(c) => token' = token
      BY DEF CacheVerdict, LookUpDecision, Decide, Return, keycloak
    <3>4. PICK u \in Users, k \in Tokens, s \in Tokens : Issuing(u, k, s)
      BY <3>1, <3>2, <3>3, Cases DEF Ending, ChangeRole, Tick, vars, keycloak
    <3>5. k = t
      BY <1>3, <3>4 DEF Issuing, Issue, Issued, TypeOK
    <3> QED BY <3>4, <3>5
  <2>2. token'[t] = [user |-> u, role |-> role[u], exp |-> now + Life, session |-> s]
    BY <2>1, <1>3 DEF Issuing, Issue, TypeOK, Issued
  <2>3. /\ token'[t].exp = now + Life /\ token'[t].session = s
        /\ token'[t].user = u /\ token'[t].role = role[u]
    BY <2>2
  <2>4. OpenAt(token[t].session)' = now
    BY <2>1, <2>3 DEF Issuing, OpenAt
  <2>5. HadAt(token[t].user, token[t].role)' = now
    BY <2>1, <2>3 DEF Issuing, HadAt
  <2> QED BY <2>3, <2>4, <2>5, Times DEF TypeOK, Time
<1> QED BY <1>2, <1>3

-----------------------------------------------------------------------------
(* Calls at work, and what they cache.                                     *)

\* An action other than the clock leaves no call longer at work than it was,
\* and touches at most the call c.
OneCall(c, call) ==
    calls' = [calls EXCEPT ![c] = call] /\ now' = now

\* A call that may stand beside the invariant.
CallTells(call) ==
    /\ call.stage # "idle" => call.token \in Issued'
    /\ Working(call) =>
          /\ call.since <= token'[call.token].exp
          /\ call.since <= now' /\ now' <= call.since + Lag

LEMMA OneCallKept ==
    ASSUME TypeOK, TypeOK', CallsTell, Keeps,
           NEW c \in Calls, NEW call \in Call, OneCall(c, call), CallTells(call)
    PROVE  CallsTell'
<1> SUFFICES ASSUME NEW d \in Calls
             PROVE  CallTells(calls'[d])
  BY DEF CallsTell, CallTells, Working
<1>1. CASE d = c
  <2>1. calls'[d] = call
    BY <1>1 DEF OneCall, TypeOK
  <2> QED BY <2>1
<1>2. CASE d # c
  <2>1. calls'[d] = calls[d] /\ now' = now
    BY <1>2 DEF OneCall, TypeOK
  <2>2. /\ calls[d].stage # "idle" => calls[d].token \in Issued
        /\ Working(calls[d]) =>
              /\ calls[d].since <= token[calls[d].token].exp
              /\ calls[d].since <= now /\ now <= calls[d].since + Lag
    BY DEF CallsTell
  <2>3. Working(calls[d]) => calls[d].stage # "idle"
    BY DEF Working
  <2>4. calls[d].token \in Issued =>
            calls[d].token \in Issued' /\ token'[calls[d].token] = token[calls[d].token]
    BY DEF Keeps
  <2> QED BY <2>1, <2>2, <2>3, <2>4 DEF CallTells
<1> QED BY <1>1, <1>2

LEMMA AnswersTell ==
    ASSUME TypeOK, Keeps, NEW t \in Issued, NEW answer \in {"valid", "allowed", "refused"}
    PROVE  CallTells(Answered(answer, t)) /\ CallTells(Idle)
<1>1. t \in Issued' /\ t \in Tokens
  BY DEF Keeps, Issued
<1>2. Answered(answer, t).stage = answer /\ Answered(answer, t).token = t
  BY <1>1, CallTypes
<1>3. CallTells(Idle)
  BY CallTypes DEF CallTells, Working
<1> QED BY <1>1, <1>2, <1>3 DEF CallTells, Working

LEMMA CallsKept == TypeOK /\ TypeOK' /\ PastIsPast /\ CallsTell /\ [Next]_vars => CallsTell'
<1> SUFFICES ASSUME TypeOK, TypeOK', PastIsPast, CallsTell, [Next]_vars PROVE CallsTell'
  OBVIOUS
<1> USE DEF keycloak, caches, bounds, vars
<1>a. Keeps
  BY KeepsAll
<1>b. now \in Nat
  BY DEF TypeOK, Time
<1>1. CASE calls' = calls /\ now' = now
  <2>1. SUFFICES ASSUME NEW d \in Calls PROVE CallTells(calls'[d])
    BY DEF CallsTell, CallTells, Working
  <2>2. /\ calls[d].stage # "idle" => calls[d].token \in Issued
        /\ Working(calls[d]) =>
              /\ calls[d].since <= token[calls[d].token].exp
              /\ calls[d].since <= now /\ now <= calls[d].since + Lag
    BY DEF CallsTell
  <2>3. Working(calls[d]) => calls[d].stage # "idle"
    BY DEF Working
  <2>4. calls[d].token \in Issued =>
            calls[d].token \in Issued' /\ token'[calls[d].token] = token[calls[d].token]
    BY <1>a DEF Keeps
  <2> QED BY <1>1, <2>2, <2>3, <2>4 DEF CallTells
<1>2. ASSUME NEW u \in Users, NEW t \in Tokens, NEW s \in Tokens, Issuing(u, t, s)
      PROVE  calls' = calls /\ now' = now
  BY <1>2 DEF Issuing
<1>3. ASSUME NEW s \in Tokens, Ending(s)
      PROVE  calls' = calls /\ now' = now
  BY <1>3 DEF Ending
<1>4. ASSUME NEW u \in Users, ChangeRole(u)
      PROVE  calls' = calls /\ now' = now
  BY <1>4 DEF ChangeRole
<1>5. ASSUME NEW c \in Calls, NEW t \in Tokens, ValidateToken(c, t) \/ CheckPermission(c, t)
      PROVE  CallsTell'
  <2>1. PICK call \in Call : Asked(c, t, call) /\ calls' = [calls EXCEPT ![c] = call]
    BY <1>5, Asking
  <2>2. t \in Issued /\ now' = now /\ token' = token
    BY <1>5, Asking
  <2>3. CallTells(Idle) /\ CallTells(Answered("valid", t))
    BY <1>a, <2>2, AnswersTell
  <2>4. ASSUME call \in {[stage |-> stage, token |-> t, since |-> now] :
                             stage \in {"storing", "looking"}},
               now <= token[t].exp
        PROVE  CallTells(call)
    <3>1. call.token = t /\ call.since = now
      BY <2>4
    <3>2. t \in Issued'
      BY <1>a, <2>2 DEF Keeps
    <3> QED BY <1>b, <2>2, <2>4, <3>1, <3>2, Times DEF CallTells
  <2>5. CallTells(call)
    BY <2>1, <2>3, <2>4 DEF Asked
  <2> QED BY <1>a, <2>1, <2>2, <2>5, OneCallKept DEF OneCall
<1>6. ASSUME NEW c \in Calls, CacheVerdict(c)
      PROVE  CallsTell'
  <2>1. calls[c].token \in Issued /\ calls[c].token \in Tokens
    BY <1>6 DEF CacheVerdict, CallsTell, Issued
  <2>2. CallTells(Answered("valid", calls[c].token)) /\ Answered("valid", calls[c].token) \in Call
    BY <1>a, <2>1, AnswersTell, CallTypes
  <2> QED BY <1>6, <1>a, <2>2, OneCallKept DEF OneCall, CacheVerdict
<1>7. ASSUME NEW c \in Calls, LookUpDecision(c)
      PROVE  CallsTell'
  <2>1. calls[c] \in Call /\ calls[c].stage = "looking"
    BY <1>7 DEF LookUpDecision, TypeOK
  <2>2. calls[c].token \in Issued /\ calls[c].token \in Tokens /\ calls[c].since \in Nat
    BY <2>1, CallTypes DEF CallsTell, Issued
  <2> DEFINE t == calls[c].token
             next == [stage |-> "deciding", token |-> t, since |-> calls[c].since]
  <2>3. \A b \in BOOLEAN : CallTells(Answered(Decided(b), t)) /\ Answered(Decided(b), t) \in Call
    BY <1>a, <2>2, AnswersTell, CallTypes DEF Decided
  <2>4. token[t].user \in Users
    BY <2>2, TokenTypes
  <2>5. decisions[token[t].user].allow \in BOOLEAN
    BY <2>4 DEF TypeOK, Decision
  <2>6. next \in Call /\ next.stage = "deciding" /\ next.token = t /\ next.since = calls[c].since
    BY <2>2, CallTypes
  <2>7. now' = now /\ token' = token
    BY <1>7 DEF LookUpDecision
  <2>8. CallTells(next)
    <3>1. calls[c].since <= token[t].exp /\ calls[c].since <= now /\ now <= calls[c].since + Lag
      BY <2>1 DEF CallsTell, Working
    <3>2. t \in Issued'
      BY <1>a, <2>2 DEF Keeps
    <3> HIDE DEF next
    <3> QED BY <2>6, <2>7, <3>1, <3>2 DEF CallTells
  <2>9. PICK call \in Call : CallTells(call) /\ calls' = [calls EXCEPT ![c] = call]
    BY <1>7, <2>2, <2>3, <2>5, <2>6, <2>8, Looking
  <2> QED BY <1>a, <2>7, <2>9, OneCallKept DEF OneCall
<1>8. ASSUME NEW c \in Calls, Decide(c)
      PROVE  CallsTell'
  <2>1. calls[c] \in Call /\ calls[c].stage = "deciding"
    BY <1>8 DEF Decide, TypeOK
  <2>2. calls[c].token \in Issued /\ calls[c].token \in Tokens
    BY <2>1 DEF CallsTell, Issued
  <2>3. \A b \in BOOLEAN : /\ CallTells(Answered(Decided(b), calls[c].token))
                           /\ Answered(Decided(b), calls[c].token) \in Call
    BY <1>a, <2>2, AnswersTell, CallTypes DEF Decided
  <2>4. CallTells(Idle) /\ Idle \in Call
    BY <1>a, <2>2, AnswersTell, CallTypes
  <2>5. token[calls[c].token].role \in BOOLEAN
    BY <2>2, TokenTypes
  <2>6. PICK call \in Call : CallTells(call) /\ calls' = [calls EXCEPT ![c] = call]
    BY <1>8, <2>2, <2>3, <2>4, <2>5, Deciding
  <2>7. now' = now
    BY <1>8 DEF Decide
  <2> QED BY <1>a, <2>6, <2>7, OneCallKept DEF OneCall
<1>9. ASSUME NEW c \in Calls, Return(c)
      PROVE  CallsTell'
  <2>1. CallTells(Idle) /\ Idle \in Call
    BY CallTypes DEF CallTells, Working
  <2> QED BY <1>9, <1>a, <2>1, OneCallKept DEF OneCall, Return
<1>10. CASE Tick
  <2>1. SUFFICES ASSUME NEW d \in Calls PROVE CallTells(calls'[d])
    BY DEF CallsTell, CallTells, Working
  <2>2. /\ calls[d].stage # "idle" => calls[d].token \in Issued
        /\ Working(calls[d]) =>
              /\ calls[d].since <= token[calls[d].token].exp /\ calls[d].since <= now
    BY DEF CallsTell
  <2>3. /\ now' = now + 1 /\ calls' = calls
        /\ Working(calls[d]) => now < calls[d].since + Lag
    BY <1>10 DEF Tick
  <2>4. calls[d].token \in Issued =>
            calls[d].token \in Issued' /\ token'[calls[d].token] = token[calls[d].token]
    BY <1>a DEF Keeps
  <2>5. calls[d].since \in Nat
    BY CallTypes DEF TypeOK
  <2>6. Working(calls[d]) => calls[d].stage # "idle"
    BY DEF Working
  <2> QED BY <1>b, <2>2, <2>3, <2>4, <2>5, <2>6, Times DEF CallTells
<1>11. CASE UNCHANGED vars
  BY <1>1, <1>11
<1> QED BY <1>1, <1>2, <1>3, <1>4, <1>5, <1>6, <1>7, <1>8, <1>9, <1>10, <1>11, Cases

-----------------------------------------------------------------------------
(* The caches.                                                             *)

\* A verdict that stays, or is forgotten, tells what it told.
LEMMA VerdictsStay ==
    ASSUME TypeOK, VerdictsTell, Keeps, NEW t \in Tokens,
           verdicts'[t] = verdicts[t] \/ verdicts'[t] = Never
    PROVE  verdicts'[t] # Never => t \in Issued' /\ verdicts'[t] <= token'[t].exp + CacheTTL
  BY DEF VerdictsTell, Keeps

LEMMA VerdictsKept ==
    TypeOK /\ TypeOK' /\ PastIsPast /\ CallsTell /\ VerdictsTell /\ [Next]_vars => VerdictsTell'
<1> SUFFICES ASSUME TypeOK, TypeOK', PastIsPast, CallsTell, VerdictsTell, [Next]_vars
             PROVE  VerdictsTell'
  OBVIOUS
<1> USE DEF keycloak, caches, bounds, vars
<1>a. Keeps
  BY KeepsAll
<1>1. CASE verdicts' = verdicts
  BY <1>1, <1>a, VerdictsStay DEF VerdictsTell
<1>2. CASE Tick
  <2>1. \A t \in Tokens : verdicts'[t] = verdicts[t] \/ verdicts'[t] = Never
    BY <1>2 DEF Tick, Kept
  <2> QED BY <2>1, <1>a, VerdictsStay DEF VerdictsTell
<1>3. ASSUME NEW c \in Calls, CacheVerdict(c)
      PROVE  VerdictsTell'
  <2> DEFINE t == calls[c].token
  <2>1. t \in Issued /\ t \in Tokens /\ calls[c].since <= token[t].exp
    BY <1>3 DEF CacheVerdict, CallsTell, Working, Issued
  <2>2. token[t].exp \in Nat /\ calls[c].since \in Nat
    BY <2>1, TokenTypes, CallTypes DEF TypeOK
  <2>3. t \in Issued' /\ token'[t] = token[t]
    BY <1>a, <2>1 DEF Keeps
  <2>4. CASE verdicts' = [verdicts EXCEPT ![t] = calls[c].since + CacheTTL]
    <3>1. verdicts'[t] <= token'[t].exp + CacheTTL
      BY <2>1, <2>2, <2>3, <2>4, Times DEF TypeOK
    <3>2. \A k \in Tokens \ {t} : verdicts'[k] = verdicts[k]
      BY <2>4 DEF TypeOK
    <3> QED BY <1>a, <2>3, <3>1, <3>2, VerdictsStay DEF VerdictsTell
  <2> QED BY <1>1, <1>3, <2>4 DEF CacheVerdict, ExpiresAt
<1>4. ASSUME NEW c \in Calls, NEW t \in Tokens, ValidateToken(c, t) \/ CheckPermission(c, t)
      PROVE  verdicts' = verdicts
  BY <1>4, Asking
<1>5. ASSUME NEW c \in Calls, LookUpDecision(c) \/ Decide(c) \/ Return(c)
      PROVE  verdicts' = verdicts
  BY <1>5 DEF LookUpDecision, Decide, Return
<1>6. ASSUME \/ \E u \in Users, t, s \in Tokens : Issuing(u, t, s)
             \/ \E s \in Tokens : Ending(s)
             \/ \E u \in Users : ChangeRole(u)
      PROVE  verdicts' = verdicts
  BY <1>6 DEF Issuing, Ending, ChangeRole
<1> QED BY <1>1, <1>2, <1>3, <1>4, <1>5, <1>6, Cases

LEMMA DecisionsStay ==
    ASSUME TypeOK, DecisionsTell, Keeps, NEW u \in Users,
           decisions'[u] = decisions[u] \/ decisions'[u].until = Never
    PROVE  decisions'[u].until # Never =>
               decisions'[u].until <= HadAt(u, decisions[u].allow)' + Life + Lag + DecisionTTL
<1>1. decisions[u].until \in Int /\ decisions[u].allow \in BOOLEAN
  BY DEF TypeOK, Decision
<1>2. /\ HadAt(u, decisions[u].allow) \in Int
      /\ \A b \in BOOLEAN : HadAt(u, b)' \in Int /\ HadAt(u, b) <= HadAt(u, b)'
  BY <1>1 DEF Keeps
<1>3. CASE decisions'[u] = decisions[u] /\ decisions[u].until # Never
  <2>1. decisions[u].until <= HadAt(u, decisions[u].allow) + Life + Lag + DecisionTTL
    BY <1>3 DEF DecisionsTell
  <2>2. /\ HadAt(u, decisions[u].allow)' \in Int
        /\ HadAt(u, decisions[u].allow) <= HadAt(u, decisions[u].allow)'
    BY <1>1, <1>2, <1>3
  <2> QED BY <1>1, <1>2, <1>3, <2>1, <2>2, Times
<1> QED BY <1>3

LEMMA DecisionsKept ==
    /\ TypeOK /\ TypeOK' /\ PastIsPast /\ TokensTell /\ CallsTell /\ DecisionsTell
    /\ [Next]_vars
    => DecisionsTell'
<1> SUFFICES ASSUME TypeOK, TypeOK', PastIsPast, TokensTell, CallsTell, DecisionsTell,
                    [Next]_vars
             PROVE  DecisionsTell'
  OBVIOUS
<1> USE DEF keycloak, caches, bounds, vars
<1>a. Keeps
  BY KeepsAll
<1>1. CASE decisions' = decisions
  BY <1>1, <1>a, DecisionsStay DEF DecisionsTell
<1>2. CASE Tick
  <2>1. \A u \in Users : decisions'[u] = decisions[u] \/ decisions'[u].until = Never
    BY <1>2, DecisionTypes DEF Tick
  <2> QED BY <2>1, <1>a, DecisionsStay DEF DecisionsTell
<1>3. ASSUME NEW c \in Calls, Decide(c)
      PROVE  DecisionsTell'
  <2>1. calls[c].stage = "deciding"
    BY <1>3 DEF Decide
  <2>2. PICK t \in Tokens : t = calls[c].token /\ t \in Issued
    BY <2>1 DEF CallsTell, Issued
  <2>3. PICK u \in Users, b \in BOOLEAN : u = token[t].user /\ b = token[t].role
    BY <2>2, TokenTypes
  <2>4. /\ calls[c].since <= token[t].exp /\ now <= calls[c].since + Lag
        /\ token[t].exp <= HadAt(u, b) + Life
    BY <2>1, <2>2, <2>3 DEF CallsTell, TokensTell, Working
  <2>5. token[t].exp \in Nat /\ calls[c].since \in Nat /\ now \in Nat
    BY <2>2, TokenTypes, CallTypes DEF TypeOK, Time
  <2>6. HadAt(u, b) \in Int /\ HadAt(u, b)' = HadAt(u, b)
    BY <1>3, Instants DEF Decide, HadAt
  <2>7. CASE decisions' = [decisions EXCEPT ![u] = [until |-> now + DecisionTTL, allow |-> b]]
    <3>1. /\ decisions'[u].until = now + DecisionTTL /\ decisions'[u].allow = b
          /\ \A v \in Users : v # u => decisions'[v] = decisions[v]
      BY <2>7 DEF TypeOK
    <3>2. now + DecisionTTL <= HadAt(u, b) + Life + Lag + DecisionTTL
      BY <2>4, <2>5, <2>6, Times
    <3>3. ASSUME NEW v \in Users, decisions'[v].until # Never
          PROVE  decisions'[v].until
                     <= HadAt(v, decisions[v].allow)' + Life + Lag + DecisionTTL
      <4>1. CASE v = u
        BY <2>6, <3>1, <3>2, <4>1
      <4>2. CASE v # u
        BY <1>a, <3>1, <3>3, <4>2, DecisionsStay
      <4> QED BY <4>1, <4>2
    <3> QED BY <3>3 DEF DecisionsTell
  <2> QED BY <1>1, <1>3, <2>2, <2>3, <2>7, Deciding
<1>4. ASSUME NEW c \in Calls, NEW t \in Tokens, ValidateToken(c, t) \/ CheckPermission(c, t)
      PROVE  decisions' = decisions
  BY <1>4, Asking
<1>5. ASSUME NEW c \in Calls, CacheVerdict(c) \/ LookUpDecision(c) \/ Return(c)
      PROVE  decisions' = decisions
  BY <1>5 DEF CacheVerdict, LookUpDecision, Return
<1>6. ASSUME \/ \E u \in Users, t, s \in Tokens : Issuing(u, t, s)
             \/ \E s \in Tokens : Ending(s)
             \/ \E u \in Users : ChangeRole(u)
      PROVE  decisions' = decisions
  BY <1>6 DEF Issuing, Ending, ChangeRole
<1> QED BY <1>1, <1>2, <1>3, <1>4, <1>5, <1>6, Cases

-----------------------------------------------------------------------------
(* The invariant holds.                                                    *)

LEMMA InitInvariant == Init => IInv
<1> SUFFICES ASSUME Init PROVE IInv
  OBVIOUS
<1>1. TypeOK
  BY InitTypes
<1>2. PastIsPast
  BY Times DEF Init, PastIsPast, LongAgo
<1>3. Issued = {}
  BY DEF Init, Issued
<1>4. TokensTell /\ VerdictsTell
  BY <1>3 DEF TokensTell, VerdictsTell, Init
<1>5. DecisionsTell
  BY DecisionTypes DEF DecisionsTell, Init
<1>6. CallsTell
  BY CallTypes DEF CallsTell, Init, Working
<1> QED BY <1>1, <1>2, <1>4, <1>5, <1>6 DEF IInv

\* Every behaviour keeps the invariant: tokens, caches and calls at work tell
\* what was so, not longer ago than their times to live.
THEOREM Invariance == Spec => []IInv
<1>1. IInv /\ [Next]_vars => IInv'
  BY TypesKept, KeepsAll, TokensKept, CallsKept, VerdictsKept, DecisionsKept DEF IInv
<1> QED BY <1>1, InitInvariant, PTL DEF Spec

\* Users, tokens, caches and calls keep their types, for any number of each
\* and at any time: every answer is one of a token that was issued.
THEOREM TypesHold == Spec => []TypeOK
<1>1. IInv => TypeOK
  BY DEF IInv
<1> QED BY <1>1, Invariance, PTL

-----------------------------------------------------------------------------
(* Steps, as Freshness sees them.                                          *)

\* Claims that are true now are marked with this instant; answers under way
\* stay what they are.
Marks ==
    /\ calls' = calls
    /\ \A t \in Issued : token'[t] = token[t]
    /\ \A s \in Tokens : OpenAt(s)' \in {OpenAt(s), now'}
    /\ \A u \in Users, b \in BOOLEAN : HadAt(u, b)' \in {HadAt(u, b), now'}
    /\ \A t \in Tokens : LastValid'[t] \in {LastValid[t], now'}

\* The clock.
LEMMA Passing == ASSUME IInv, Tick PROVE now' = now + 1 /\ Marks
<1>1. /\ now' = now + 1 /\ calls' = calls /\ token' = token /\ open' = open
      /\ closed' = closed /\ role' = role /\ lost' = lost
  BY DEF Tick, keycloak
<1>2. \A t \in Issued : t \in Tokens /\ token[t].exp \in Nat
  BY TokenTypes DEF IInv
<1>3. now \in Nat
  BY DEF IInv, TypeOK, Time
<1>4. \A t \in Tokens : LastValid'[t] \in {LastValid[t], now'}
  BY <1>1, <1>2, <1>3 DEF LastValid, Issued
<1> QED BY <1>1, <1>4 DEF OpenAt, HadAt, Marks

\* What happens at Keycloak.
LEMMA Turning ==
    ASSUME IInv,
           \/ \E u \in Users, t, s \in Tokens : Issuing(u, t, s)
           \/ \E s \in Tokens : Ending(s)
           \/ \E u \in Users : ChangeRole(u)
    PROVE  now' = now /\ Marks
<1> USE DEF keycloak, caches, bounds
<1>1. TypeOK /\ now \in Nat
  BY DEF IInv, TypeOK, Time
<1>2. ASSUME NEW u \in Users, NEW k \in Tokens, NEW s \in Tokens, Issuing(u, k, s)
      PROVE  now' = now /\ Marks
  <2>1. \A t \in Tokens : t # k => token'[t] = token[t]
    BY <1>1, <1>2 DEF Issuing, Issue, TypeOK
  <2>2. now' = now /\ calls' = calls /\ k \notin Issued
    BY <1>2 DEF Issuing, Issue, Issued
  <2>3. \A z \in Tokens : OpenAt(z)' \in {OpenAt(z), now}
    BY <1>1, <1>2 DEF Issuing, OpenAt, TypeOK
  <2>4. \A v \in Users, b \in BOOLEAN : HadAt(v, b)' = HadAt(v, b)
    BY <1>2 DEF Issuing, HadAt
  <2>5. token'[k] = [user |-> u, role |-> role[u], exp |-> now + Life, session |-> s]
    BY <1>1, <1>2 DEF Issuing, Issue, TypeOK
  <2>6. token'[k] # None /\ token'[k].exp = now + Life
    <3>1. role[u] \in BOOLEAN /\ now + Life \in Nat
      BY <1>1, Times DEF TypeOK
    <3> QED BY <1>1, <2>5, <3>1, TokenTypes
  <2>7. LastValid'[k] = now
    BY <1>1, <2>2, <2>6, Times DEF LastValid
  <2>8. \A t \in Tokens : t # k => LastValid'[t] = LastValid[t]
    BY <2>1, <2>2 DEF LastValid
  <2> QED BY <2>1, <2>2, <2>3, <2>4, <2>7, <2>8 DEF Issued, Marks
<1>3. ASSUME NEW s \in Tokens, Ending(s)
      PROVE  now' = now /\ Marks
  <2>1. now' = now /\ calls' = calls /\ token' = token
    BY <1>3 DEF Ending
  <2>2. \A z \in Tokens : OpenAt(z)' = OpenAt(z)
    BY <1>1, <1>3 DEF Ending, OpenAt, TypeOK
  <2>3. \A v \in Users, b \in BOOLEAN : HadAt(v, b)' = HadAt(v, b)
    BY <1>3 DEF Ending, HadAt
  <2> QED BY <2>1, <2>2, <2>3 DEF LastValid, Marks
<1>4. ASSUME NEW u \in Users, ChangeRole(u)
      PROVE  now' = now /\ Marks
  <2>1. now' = now /\ calls' = calls /\ token' = token
    BY <1>4 DEF ChangeRole
  <2>2. \A z \in Tokens : OpenAt(z)' = OpenAt(z)
    BY <1>4 DEF ChangeRole, OpenAt
  <2>3. \A v \in Users, b \in BOOLEAN : HadAt(v, b)' \in {HadAt(v, b), now}
    BY <1>1, <1>4 DEF ChangeRole, HadAt, TypeOK
  <2> QED BY <2>1, <2>2, <2>3 DEF LastValid, Marks
<1> QED BY <1>2, <1>3, <1>4

\* An answer that may be told now.
Tellable(call) ==
    /\ call.stage \in {"valid", "allowed", "refused"} => call.token \in Issued
    /\ call.stage = "valid" => now <= token[call.token].exp + CacheTTL
    /\ call.stage \in {"allowed", "refused"} =>
           now <= HadAt(token[call.token].user, call.stage = "allowed")
                      + Life + Lag + DecisionTTL

LEMMA DecidedTells ==
    ASSUME IInv, NEW t \in Issued, NEW b \in BOOLEAN,
           now <= HadAt(token[t].user, b) + Life + Lag + DecisionTTL
    PROVE  Tellable(Answered(Decided(b), t))
<1>1. t \in Tokens
  BY DEF Issued
<1>2. /\ Answered(Decided(b), t).token = t
      /\ Answered(Decided(b), t).stage = Decided(b)
  BY <1>1, CallTypes DEF Decided
<1>3. Decided(b) \in {"allowed", "refused"} /\ (Decided(b) = "allowed") = b
  BY DEF Decided
<1> QED BY <1>2, <1>3 DEF Tellable

\* At most one answer is new, and it may be told.
Tells ==
    /\ UNCHANGED <<now, keycloak>>
    /\ \E c \in Calls : \E call : Tellable(call) /\ calls' = [calls EXCEPT ![c] = call]

\* The steps of calls.
LEMMA Telling ==
    ASSUME IInv, NEW c \in Calls,
           \/ \E k \in Tokens : ValidateToken(c, k) \/ CheckPermission(c, k)
           \/ CacheVerdict(c) \/ LookUpDecision(c) \/ Decide(c) \/ Return(c)
    PROVE  Tells
<1> SUFFICES /\ UNCHANGED <<now, keycloak>>
             /\ \E call : Tellable(call) /\ calls' = [calls EXCEPT ![c] = call]
  BY DEF Tells
<1> USE DEF keycloak, caches, bounds
<1>1. TypeOK /\ now \in Nat
  BY DEF IInv, TypeOK, Time
<1>2. Tellable(Idle)
  BY CallTypes DEF Tellable
<1>3. CASE \E k \in Tokens : ValidateToken(c, k) \/ CheckPermission(c, k)
  <2>0. PICK k \in Tokens : ValidateToken(c, k) \/ CheckPermission(c, k)
    BY <1>3
  <2>1. PICK call \in Call : Asked(c, k, call) /\ calls' = [calls EXCEPT ![c] = call]
    BY <1>1, <2>0, Asking
  <2>2. k \in Issued /\ UNCHANGED <<now, keycloak>>
    BY <1>1, <2>0, Asking
  <2>3. CASE call = Answered("valid", k) /\ now <= verdicts[k]
    <3>1. verdicts[k] # Never /\ verdicts[k] \in Int
      BY <1>1, <2>3 DEF Never, TypeOK
    <3>2. verdicts[k] <= token[k].exp + CacheTTL /\ token[k].exp \in Nat
      BY <1>1, <2>2, <3>1, TokenTypes DEF IInv, VerdictsTell
    <3>3. call.stage = "valid" /\ call.token = k
      BY <2>3, CallTypes
    <3>4. now <= token[k].exp + CacheTTL
      BY <1>1, <2>3, <3>1, <3>2, Times
    <3>5. Tellable(call)
      BY <2>2, <3>3, <3>4 DEF Tellable
    <3> QED BY <2>1, <2>2, <3>5
  <2>4. CASE call \in {[stage |-> stage, token |-> k, since |-> now] :
                           stage \in {"storing", "looking"}}
    <3>1. call.stage \in {"storing", "looking"}
      BY <2>4
    <3> QED BY <2>1, <2>2, <3>1 DEF Tellable
  <2> QED BY <1>2, <2>1, <2>2, <2>3, <2>4 DEF Asked
<1>4. CASE CacheVerdict(c)
  <2>1. PICK t \in Issued : t = calls[c].token
    BY <1>4 DEF CacheVerdict, IInv, CallsTell
  <2>2. t \in Tokens /\ token[t].exp \in Nat /\ calls[c].since \in Nat
    BY <1>1, <2>1, TokenTypes, CallTypes DEF TypeOK
  <2>3. calls[c].since <= token[t].exp /\ now <= calls[c].since + Lag
    BY <1>4, <2>1 DEF CacheVerdict, IInv, CallsTell, Working
  <2>4. now <= token[t].exp + CacheTTL
    BY <1>1, <2>2, <2>3, Times
  <2>5. Tellable(Answered("valid", t))
    BY <2>2, <2>4, CallTypes DEF Tellable
  <2> QED BY <1>4, <2>1, <2>5 DEF CacheVerdict
<1>5. CASE LookUpDecision(c)
  <2>1. calls[c].stage = "looking" /\ UNCHANGED <<now, keycloak>>
    BY <1>5 DEF LookUpDecision
  <2>2. PICK t \in Issued : t = calls[c].token
    BY <2>1 DEF IInv, CallsTell
  <2>3. PICK u \in Users : u = token[t].user
    BY <1>1, TokenTypes
  <2>4. decisions[u].until \in Int /\ decisions[u].allow \in BOOLEAN
    BY <1>1 DEF TypeOK, Decision
  <2>5. CASE /\ calls' = [calls EXCEPT ![c] = Answered(Decided(decisions[u].allow), t)]
             /\ now <= decisions[u].until
    <3>1. decisions[u].until # Never
      BY <1>1, <2>5 DEF Never
    <3>2. decisions[u].until <= HadAt(u, decisions[u].allow) + Life + Lag + DecisionTTL
      BY <3>1 DEF IInv, DecisionsTell
    <3>3. HadAt(u, decisions[u].allow) \in Int
      BY <1>1, <2>4, Instants
    <3>4. now <= HadAt(u, decisions[u].allow) + Life + Lag + DecisionTTL
      BY <1>1, <2>4, <2>5, <3>2, <3>3, Times
    <3>5. Tellable(Answered(Decided(decisions[u].allow), t))
      BY <2>3, <2>4, <3>4, DecidedTells
    <3> QED BY <2>1, <2>5, <3>5
  <2> DEFINE next == [stage |-> "deciding", token |-> t, since |-> calls[c].since]
  <2>6. Tellable(next)
    BY DEF Tellable
  <2>7. CASE calls' = [calls EXCEPT ![c] = next]
    BY <2>1, <2>6, <2>7
  <2> QED BY <1>1, <1>5, <2>2, <2>3, <2>5, <2>7, Looking
<1>6. CASE Decide(c)
  <2>1. calls[c].stage = "deciding" /\ UNCHANGED <<now, keycloak>>
    BY <1>6 DEF Decide
  <2>2. PICK t \in Issued : t = calls[c].token
    BY <2>1 DEF IInv, CallsTell
  <2>3. /\ calls[c].since <= token[t].exp /\ now <= calls[c].since + Lag
        /\ token[t].exp <= HadAt(token[t].user, token[t].role) + Life
    BY <2>1, <2>2 DEF IInv, CallsTell, TokensTell, Working
  <2>4. /\ token[t].user \in Users /\ token[t].role \in BOOLEAN
        /\ token[t].exp \in Nat /\ calls[c].since \in Nat
    BY <1>1, TokenTypes, CallTypes DEF TypeOK
  <2>5. HadAt(token[t].user, token[t].role) \in Int
    BY <1>1, <2>4, Instants
  <2>6. now <= HadAt(token[t].user, token[t].role) + Life + Lag + DecisionTTL
    BY <1>1, <2>3, <2>4, <2>5, Times
  <2>7. Tellable(Answered(Decided(token[t].role), t))
    BY <2>4, <2>6, DecidedTells
  <2> QED BY <1>1, <1>2, <1>6, <2>1, <2>2, <2>7, Deciding
<1>7. CASE Return(c)
  BY <1>2, <1>7 DEF Return
<1> QED BY <1>3, <1>4, <1>5, <1>6, <1>7

LEMMA Steps ==
    ASSUME IInv, [Next]_vars
    PROVE  \/ Marks /\ now' \in {now, now + 1}
           \/ Tells
           \/ UNCHANGED vars
<1>1. TypeOK
  BY DEF IInv
<1> QED BY <1>1, Cases, Passing, Turning, Telling

-----------------------------------------------------------------------------
(* AccessTokens implements Freshness.                                      *)

LEMMA NothingTold == Init => \A answer : Told(answer) = {} \/ answer = "idle"
  BY CallTypes DEF Init, Told

\* What is told after one call has changed.
LEMMA NewlyTold ==
    ASSUME TypeOK, NEW c \in Calls, NEW call, calls' = [calls EXCEPT ![c] = call], NEW answer,
           NEW t \in Told(answer)', t \notin Told(answer)
    PROVE  t = call.token /\ call.stage = answer
<1>1. PICK d \in Calls : calls'[d].stage = answer /\ calls'[d].token = t
  BY DEF Told
<1>2. CASE d # c
  <2>1. calls'[d] = calls[d]
    BY <1>2 DEF TypeOK
  <2> QED BY <1>1, <2>1 DEF Told
<1>3. CASE d = c
  <2>1. calls'[d] = call
    BY <1>3 DEF TypeOK
  <2> QED BY <1>1, <2>1
<1> QED BY <1>2, <1>3

\* A token is told valid while it is, and CacheTTL longer at most.
THEOREM ValidityStaysFresh == Spec => ValidityIsFresh
<1>1. Init => Validity!Init
  <2> SUFFICES ASSUME Init PROVE Validity!Init
    OBVIOUS
  <2>1. \A t \in Tokens : LastValid[t] \in Int
    BY Times DEF LastValid, Init, LongAgo
  <2>2. LastValid \in [Tokens -> Int]
    BY <2>1 DEF LastValid
  <2>3. ToldValid = {}
    BY NothingTold DEF ToldValid
  <2> QED BY <2>2, <2>3 DEF Validity!Init, Init
<1>2. IInv /\ IInv' /\ [Next]_vars => [Validity!Next]_<<now, LastValid, ToldValid>>
  <2> SUFFICES ASSUME IInv, IInv', [Next]_vars
               PROVE  [Validity!Next]_<<now, LastValid, ToldValid>>
    OBVIOUS
  <2>1. LastValid' \in [Tokens -> Int]
    <3>1. now' \in Int /\ \A t \in Issued' : token'[t].exp \in Int
      BY DEF IInv, TypeOK, Time, Issued, TokenData
    <3>2. \A t \in Tokens : LastValid'[t] \in Int
      BY <3>1, Times DEF LastValid, Issued, LongAgo
    <3> QED BY <3>2 DEF LastValid
  <2>2. CASE Marks /\ now' \in {now, now + 1}
    <3>1. ToldValid' = ToldValid
      BY <2>2 DEF Marks, ToldValid, Told
    <3> QED BY <2>1, <2>2, <3>1 DEF Marks, Validity!Next, Validity!Pass, Validity!Turn
  <2>3. CASE Tells
    <3>1. LastValid' = LastValid /\ now' = now
      BY <2>3 DEF Tells, LastValid, keycloak
    <3>2. PICK c \in Calls : \E call : Tellable(call) /\ calls' = [calls EXCEPT ![c] = call]
      BY <2>3 DEF Tells
    <3>3. PICK call : Tellable(call) /\ calls' = [calls EXCEPT ![c] = call]
      BY <3>2
    <3>4. ASSUME NEW t \in ToldValid', t \notin ToldValid
          PROVE  now <= LastValid[t] + CacheTTL
      <4>1. t = call.token /\ call.stage = "valid"
        BY <3>3, <3>4, NewlyTold DEF ToldValid, IInv
      <4>2. t \in Issued /\ t \in Tokens /\ now <= token[t].exp + CacheTTL
        BY <3>3, <4>1 DEF Tellable, Issued
      <4>3. now \in Nat /\ token[t].exp \in Nat
        BY <4>2, TokenTypes DEF IInv, TypeOK, Time
      <4> QED BY <4>2, <4>3, Times DEF LastValid, Issued
    <3>5. ToldValid' \subseteq Tokens
      <4>1. ToldValid' \subseteq Issued'
        BY DEF ToldValid, Told, IInv, CallsTell
      <4> QED BY <4>1 DEF Issued
    <3> QED BY <3>1, <3>4, <3>5 DEF Validity!Next, Validity!Tell
  <2>4. CASE UNCHANGED vars
    BY <2>4 DEF vars, keycloak, LastValid, ToldValid, Told
  <2> QED BY <2>2, <2>3, <2>4, Steps
<1> QED BY <1>1, <1>2, Invariance, PTL DEF Spec, ValidityIsFresh, Validity!Spec

\* A session is told open while it is, and Life + CacheTTL longer at most:
\* whatever logs out, refreshes and caches meanwhile.
THEOREM PresenceStaysFresh == Spec => PresenceIsFresh
<1>1. Init => Presence!Init
  <2> SUFFICES ASSUME Init PROVE Presence!Init
    OBVIOUS
  <2>1. \A s \in Tokens : LastOpen[s] \in Int
    BY Times DEF LastOpen, Init, LongAgo
  <2>2. LastOpen \in [Tokens -> Int]
    BY <2>1 DEF LastOpen
  <2>3. ToldOpen = {}
    BY NothingTold DEF ToldValid, ToldOpen
  <2> QED BY <2>2, <2>3 DEF Presence!Init, Init
<1>2. IInv /\ IInv' /\ [Next]_vars => [Presence!Next]_<<now, LastOpen, ToldOpen>>
  <2> SUFFICES ASSUME IInv, IInv', [Next]_vars
               PROVE  [Presence!Next]_<<now, LastOpen, ToldOpen>>
    OBVIOUS
  <2>1. LastOpen' \in [Tokens -> Int]
    <3>1. \A s \in Tokens : LastOpen'[s] \in Int
      BY DEF LastOpen, IInv, TypeOK, Time
    <3> QED BY <3>1 DEF LastOpen
  <2>2. ToldValid \subseteq Issued
    BY DEF ToldValid, Told, IInv, CallsTell
  <2>3. CASE Marks /\ now' \in {now, now + 1}
    <3>1. ToldValid' = ToldValid
      BY <2>3 DEF Marks, ToldValid, Told
    <3>2. ToldOpen' = ToldOpen
      BY <2>2, <2>3, <3>1 DEF Marks, ToldOpen
    <3>3. \A s \in Tokens : LastOpen'[s] \in {LastOpen[s], now'}
      BY <2>3 DEF Marks, OpenAt, LastOpen
    <3> QED BY <2>1, <2>3, <3>2, <3>3 DEF Presence!Next, Presence!Pass, Presence!Turn
  <2>4. CASE Tells
    <3>1. LastOpen' = LastOpen /\ now' = now /\ token' = token
      BY <2>4 DEF Tells, LastOpen, keycloak
    <3>2. PICK c \in Calls : \E call : Tellable(call) /\ calls' = [calls EXCEPT ![c] = call]
      BY <2>4 DEF Tells
    <3>3. PICK call : Tellable(call) /\ calls' = [calls EXCEPT ![c] = call]
      BY <3>2
    <3>4. ASSUME NEW s \in ToldOpen', s \notin ToldOpen
          PROVE  now <= LastOpen[s] + (Life + CacheTTL)
      <4>1. PICK t \in ToldValid' : s = token[t].session
        BY <3>1, <3>4 DEF ToldOpen
      <4>2. t \notin ToldValid
        BY <3>4, <4>1 DEF ToldOpen
      <4>3. t = call.token /\ call.stage = "valid"
        BY <3>3, <4>1, <4>2, NewlyTold DEF ToldValid, IInv
      <4>4. t \in Issued /\ now <= token[t].exp + CacheTTL
        BY <3>3, <4>3 DEF Tellable
      <4>5. token[t].exp <= OpenAt(s) + Life
        BY <4>1, <4>4 DEF IInv, TokensTell
      <4>6. s \in Tokens /\ token[t].exp \in Nat /\ now \in Nat
        BY <4>1, <4>4, TokenTypes DEF IInv, TypeOK, Time
      <4>7. LastOpen[s] = OpenAt(s) /\ OpenAt(s) \in Int
        BY <4>6, Instants DEF LastOpen, OpenAt, IInv
      <4> QED BY <4>4, <4>5, <4>6, <4>7, Times
    <3>5. ToldOpen' \subseteq Tokens
      <4>1. ToldValid' \subseteq Issued
        BY <3>1 DEF ToldValid, Told, IInv, CallsTell, Issued
      <4>2. \A t \in Issued : token[t].session \in Tokens
        BY TokenTypes DEF IInv
      <4> QED BY <3>1, <4>1, <4>2 DEF ToldOpen
    <3> QED BY <3>1, <3>4, <3>5 DEF Presence!Next, Presence!Tell
  <2>5. CASE UNCHANGED vars
    BY <2>5 DEF vars, keycloak, LastOpen, ToldOpen, ToldValid, Told
  <2> QED BY <2>3, <2>4, <2>5, Steps
<1> QED BY <1>1, <1>2, Invariance, PTL DEF Spec, PresenceIsFresh, Presence!Spec

\* What a permission is answered of a user's role was so at an instant not
\* longer ago than a token lives, a decision is cached and a call lasts.
THEOREM PermissionStaysFresh == Spec => PermissionIsFresh
<1>a. \A k \in Claims : /\ k[1] \in Users /\ k[2] \in BOOLEAN
                        /\ LastHad[k] = HadAt(k[1], k[2])
  BY DEF Claims, LastHad, HadAt
<1>1. Init => Permission!Init
  <2> SUFFICES ASSUME Init PROVE Permission!Init
    OBVIOUS
  <2>1. \A u \in Users, b \in BOOLEAN : HadAt(u, b) \in Int
    BY InitTypes, Instants
  <2>2. LastHad \in [Claims -> Int]
    BY <2>1, <1>a DEF LastHad
  <2>3. Told("allowed") = {} /\ Told("refused") = {}
    BY NothingTold
  <2>4. ToldAllowed = {}
    BY <2>3 DEF ToldAllowed
  <2> QED BY <2>2, <2>4 DEF Permission!Init, Init
<1>2. IInv /\ IInv' /\ [Next]_vars => [Permission!Next]_<<now, LastHad, ToldAllowed>>
  <2> SUFFICES ASSUME IInv, IInv', [Next]_vars
               PROVE  [Permission!Next]_<<now, LastHad, ToldAllowed>>
    OBVIOUS
  <2>1. \A k \in Claims : LastHad'[k] = HadAt(k[1], k[2])'
    BY DEF Claims, LastHad, HadAt
  <2>2. LastHad' \in [Claims -> Int]
    <3>1. \A u \in Users, b \in BOOLEAN : HadAt(u, b)' \in Int
      BY DEF HadAt, IInv, TypeOK, Time
    <3>2. \A k \in Claims : LastHad'[k] \in Int
      BY <1>a, <2>1, <3>1
    <3> QED BY <3>2 DEF LastHad
  <2>3. Told("allowed") \subseteq Issued /\ Told("refused") \subseteq Issued
    BY DEF Told, IInv, CallsTell
  <2>4. CASE Marks /\ now' \in {now, now + 1}
    <3>1. Told("allowed")' = Told("allowed") /\ Told("refused")' = Told("refused")
      BY <2>4 DEF Marks, Told
    <3>2. \A t \in Issued : token'[t] = token[t]
      BY <2>4 DEF Marks
    <3>3. ToldAllowed' = ToldAllowed
      BY <2>3, <3>1, <3>2 DEF ToldAllowed
    <3>4. \A k \in Claims : LastHad'[k] \in {LastHad[k], now'}
      BY <1>a, <2>1, <2>4 DEF Marks
    <3> QED BY <2>2, <2>4, <3>3, <3>4
            DEF Permission!Next, Permission!Pass, Permission!Turn
  <2>5. CASE Tells
    <3>1. now' = now /\ token' = token /\ role' = role /\ lost' = lost
      BY <2>5 DEF Tells, keycloak
    <3>2. LastHad' = LastHad
      BY <3>1 DEF LastHad
    <3>3. PICK c \in Calls : \E call : Tellable(call) /\ calls' = [calls EXCEPT ![c] = call]
      BY <2>5 DEF Tells
    <3>4. PICK call : Tellable(call) /\ calls' = [calls EXCEPT ![c] = call]
      BY <3>3
    <3>5. Told("allowed")' \subseteq Issued /\ Told("refused")' \subseteq Issued
      BY <3>1 DEF Told, IInv, CallsTell, Issued
    <3>6. \A t \in Issued : token[t].user \in Users
      BY TokenTypes DEF IInv
    <3>7. ToldAllowed' \subseteq Claims
      <4>1. \A u \in Users, b \in BOOLEAN : <<u, b>> \in Claims
        BY DEF Claims
      <4>2. \A k \in ToldAllowed' : \E t \in Issued, b \in BOOLEAN : k = <<token[t].user, b>>
        BY <3>1, <3>5 DEF ToldAllowed
      <4> QED BY <3>6, <4>1, <4>2
    <3>8. ASSUME NEW t \in Told("allowed")', <<token[t].user, TRUE>> \notin ToldAllowed
          PROVE  now <= HadAt(token[t].user, TRUE) + Life + Lag + DecisionTTL
      <4>1. t \notin Told("allowed")
        BY <3>8 DEF ToldAllowed
      <4>2. t = call.token /\ call.stage = "allowed"
        BY <3>4, <3>8, <4>1, NewlyTold DEF IInv
      <4>3. (call.stage = "allowed") = TRUE
        BY <4>2
      <4> QED BY <3>4, <4>2, <4>3 DEF Tellable
    <3>9. ASSUME NEW t \in Told("refused")', <<token[t].user, FALSE>> \notin ToldAllowed
          PROVE  now <= HadAt(token[t].user, FALSE) + Life + Lag + DecisionTTL
      <4>1. t \notin Told("refused")
        BY <3>9 DEF ToldAllowed
      <4>2. t = call.token /\ call.stage = "refused"
        BY <3>4, <3>9, <4>1, NewlyTold DEF IInv
      <4>3. (call.stage = "allowed") = FALSE
        BY <4>2
      <4> QED BY <3>4, <4>2, <4>3 DEF Tellable
    <3>10. ASSUME NEW k \in ToldAllowed', k \notin ToldAllowed
           PROVE  now <= LastHad[k] + (Life + Lag + DecisionTTL)
      <4>1. PICK u, b : k = <<u, b>> /\ now <= HadAt(u, b) + Life + Lag + DecisionTTL
        BY <3>1, <3>8, <3>9, <3>10 DEF ToldAllowed
      <4>2. k \in Claims /\ k[1] = u /\ k[2] = b
        BY <3>7, <4>1
      <4>3. u \in Users /\ b \in BOOLEAN /\ LastHad[k] = HadAt(u, b)
        BY <1>a, <4>2
      <4>4. HadAt(u, b) \in Int /\ now \in Int
        BY <4>3, Instants DEF IInv
      <4> QED BY <4>1, <4>3, <4>4, Times
    <3> QED BY <3>1, <3>2, <3>7, <3>10 DEF Permission!Next, Permission!Tell
  <2>6. CASE UNCHANGED vars
    BY <2>6 DEF vars, keycloak, LastHad, ToldAllowed, Told
  <2> QED BY <2>4, <2>5, <2>6, Steps
<1> QED BY <1>1, <1>2, Invariance, PTL DEF Spec, PermissionIsFresh, Permission!Spec
=============================================================================
