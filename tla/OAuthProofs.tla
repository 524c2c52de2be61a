----------------------------- MODULE OAuthProofs -----------------------------
(***************************************************************************)
(* Theorems about OAuth, for every value of its constants: its types, and  *)
(* its four properties.                                                    *)
(***************************************************************************)
EXTENDS OAuth, TLAPS

-----------------------------------------------------------------------------
(* The inductive invariant.                                                *)

\* Where an attempt knows the user that it signs in, and has had the code
\* of its flow.
Holders == {"fetching", "finding", "creating", "storing", "granting"}
Named == {"finding", "creating", "storing", "granting"}
Dropping == {"unlinking", "droppingLink", "droppingIndex"}

StagesOf(op) ==
    CASE op = "callback" -> {"reading", "deleting"} \cup Passed
      [] op = "refresh" -> {"looking", "renewing", "saving"}
      [] op = "link" -> {"linking", "indexing"}
      [] OTHER -> {"resolving"} \cup Dropping

\* An attempt has what its stage needs.
Fits(a) ==
    /\ a.op \in Ops /\ a.stage \in StagesOf(a.op) /\ a.provider \in Enabled
    /\ a.op = "callback" => a.flow \in Flows
    /\ a.op # "callback" \/ a.stage \in Named => a.user \in Users
    /\ a.op = "link" \/ a.stage \in Dropping => a.account \in Accounts

Fitting ==
    /\ \A i \in Attempts : attempts[i] = Idle \/ Fits(attempts[i])
    /\ \A f \in Flows : flows[f].code # "none" => flows[f].user \in Users
    /\ service = "starting" => starts < RetryAttempts

\* The code of a flow is with the provider, with one attempt, or has signed
\* its user in.
CodesOnce ==
    /\ \A i \in Attempts : attempts[i].stage \in Holders =>
           /\ flows[attempts[i].flow].code = "used"
           /\ flows[attempts[i].flow].logins = 0
    /\ \A i, j \in Attempts :
           /\ attempts[i].stage \in Holders /\ attempts[j].stage \in Holders
           /\ attempts[i].flow = attempts[j].flow
           => i = j
    /\ \A f \in Flows : /\ flows[f].code # "used" => flows[f].logins = 0
                        /\ flows[f].logins <= 1

TInv == TypeOK /\ Fitting /\ CodesOnce

-----------------------------------------------------------------------------
(* Attempts, by what changes in them.                                      *)

LEMMA Words ==
    /\ Ops = {"callback", "refresh", "link", "unlink"}
    /\ \A op \in Ops : StagesOf(op) \subseteq Stages /\ "idle" \notin StagesOf(op)
    /\ StagesOf("callback") = {"reading", "deleting"} \cup Passed
    /\ StagesOf("refresh") = {"looking", "renewing", "saving"}
    /\ StagesOf("link") = {"linking", "indexing"}
    /\ StagesOf("unlink") = {"resolving", "unlinking", "droppingLink", "droppingIndex"}
    /\ "idle" \in Stages
  BY DEF Ops, Stages, StagesOf, Passed, Dropping

LEMMA Fields ==
    /\ \A a \in Attempt :
           /\ a.op \in Ops \cup {"none"} /\ a.stage \in Stages
           /\ a.provider \in Enabled \cup {None} /\ a.flow \in Flows \cup {None}
           /\ a.user \in Users \cup {None} /\ a.account \in Accounts \cup {None}
           /\ a.try \in Nat /\ a.awaited \in BOOLEAN
    /\ Idle \in Attempt /\ Idle.stage = "idle" /\ Idle.op = "none" /\ Idle.awaited = FALSE
<1>1. \A a \in Attempt :
          /\ a.op \in Ops \cup {"none"} /\ a.stage \in Stages
          /\ a.provider \in Enabled \cup {None} /\ a.flow \in Flows \cup {None}
          /\ a.user \in Users \cup {None} /\ a.account \in Accounts \cup {None}
          /\ a.try \in Nat /\ a.awaited \in BOOLEAN
  BY DEF Attempt
<1>2. Idle \in Attempt /\ Idle.stage = "idle" /\ Idle.op = "none" /\ Idle.awaited = FALSE
  BY Words DEF Attempt, Idle
<1> QED BY <1>1, <1>2

\* Two attempts with the same request.
Alike(b, a) == b.op = a.op /\ b.provider = a.provider /\ b.flow = a.flow

LEMMA Going ==
    ASSUME attempts \in [Attempts -> Attempt], NEW i \in Attempts, NEW stage \in Stages,
           Goto(i, stage)
    PROVE  /\ attempts' \in [Attempts -> Attempt]
           /\ attempts'[i].stage = stage /\ Alike(attempts'[i], attempts[i])
           /\ attempts'[i].user = attempts[i].user
           /\ attempts'[i].account = attempts[i].account
           /\ \A j \in Attempts \ {i} : attempts'[j] = attempts[j]
<1> DEFINE next == [attempts[i] EXCEPT !.stage = stage]
<1>1. attempts[i] \in Attempt
  OBVIOUS
<1>2. /\ next \in Attempt /\ next.stage = stage
      /\ next.op = attempts[i].op /\ next.provider = attempts[i].provider
      /\ next.flow = attempts[i].flow /\ next.user = attempts[i].user
      /\ next.account = attempts[i].account
  BY <1>1 DEF Attempt
<1>3. attempts' = [attempts EXCEPT ![i] = next]
  BY DEF Goto
<1> HIDE DEF next
<1>4. attempts'[i] = next /\ \A j \in Attempts \ {i} : attempts'[j] = attempts[j]
  BY <1>3
<1>5. attempts' \in [Attempts -> Attempt]
  BY <1>2, <1>3
<1> QED BY <1>2, <1>4, <1>5 DEF Alike

LEMMA Ending ==
    ASSUME attempts \in [Attempts -> Attempt], NEW i \in Attempts, End(i)
    PROVE  /\ attempts' \in [Attempts -> Attempt] /\ attempts'[i] = Idle
           /\ \A j \in Attempts \ {i} : attempts'[j] = attempts[j]
  BY Fields DEF End

LEMMA Beginning ==
    ASSUME attempts \in [Attempts -> Attempt], NEW i \in Attempts, NEW op \in Ops,
           NEW stage \in Stages, NEW p \in Enabled, NEW f \in Flows \cup {None},
           NEW u \in Users \cup {None}, NEW a \in Accounts \cup {None},
           Begin(i, op, stage, p, f, u, a)
    PROVE  /\ attempts' \in [Attempts -> Attempt]
           /\ attempts'[i].op = op /\ attempts'[i].stage = stage /\ attempts'[i].provider = p
           /\ attempts'[i].flow = f /\ attempts'[i].user = u /\ attempts'[i].account = a
           /\ \A j \in Attempts \ {i} : attempts'[j] = attempts[j]
<1> DEFINE next == [op |-> op, stage |-> stage, provider |-> p, flow |-> f, user |-> u,
                    account |-> a, try |-> 1, awaited |-> TRUE]
<1>1. next \in Attempt
  BY DEF Attempt
<1>2. /\ next.op = op /\ next.stage = stage /\ next.provider = p
      /\ next.flow = f /\ next.user = u /\ next.account = a
  OBVIOUS
<1>3. attempts' = [attempts EXCEPT ![i] = next]
  BY DEF Begin
<1> HIDE DEF next
<1> QED BY <1>1, <1>2, <1>3

LEMMA Naming ==
    ASSUME attempts \in [Attempts -> Attempt], NEW i \in Attempts, NEW u \in Users \cup {None},
           attempts' = [attempts EXCEPT ![i].stage = "finding", ![i].user = u]
    PROVE  /\ attempts' \in [Attempts -> Attempt]
           /\ attempts'[i].stage = "finding" /\ Alike(attempts'[i], attempts[i])
           /\ attempts'[i].user = u /\ attempts'[i].account = attempts[i].account
           /\ \A j \in Attempts \ {i} : attempts'[j] = attempts[j]
<1> DEFINE next == [[attempts[i] EXCEPT !.stage = "finding"] EXCEPT !.user = u]
<1>1. attempts[i] \in Attempt /\ "finding" \in Stages
  BY DEF Stages
<1>2. /\ next \in Attempt /\ next.stage = "finding"
      /\ next.op = attempts[i].op /\ next.provider = attempts[i].provider
      /\ next.flow = attempts[i].flow /\ next.user = u
      /\ next.account = attempts[i].account
  BY <1>1 DEF Attempt
<1>3. attempts' = [attempts EXCEPT ![i] = next]
  OBVIOUS
<1> HIDE DEF next
<1>4. attempts'[i] = next /\ \A j \in Attempts \ {i} : attempts'[j] = attempts[j]
  BY <1>3
<1>5. attempts' \in [Attempts -> Attempt]
  BY <1>2, <1>3
<1> QED BY <1>2, <1>4, <1>5 DEF Alike

LEMMA Found ==
    ASSUME attempts \in [Attempts -> Attempt], NEW i \in Attempts, NEW k \in Accounts,
           attempts' = [attempts EXCEPT ![i] = [attempts[i] EXCEPT !.stage = "unlinking", !.account = k]]
    PROVE  /\ attempts' \in [Attempts -> Attempt]
           /\ attempts'[i].stage = "unlinking" /\ Alike(attempts'[i], attempts[i])
           /\ attempts'[i].user = attempts[i].user /\ attempts'[i].account = k
           /\ \A j \in Attempts \ {i} : attempts'[j] = attempts[j]
<1> DEFINE next == [attempts[i] EXCEPT !.stage = "unlinking", !.account = k]
<1>1. attempts[i] \in Attempt /\ "unlinking" \in Stages
  BY DEF Stages
<1>2. /\ next \in Attempt /\ next.stage = "unlinking"
      /\ next.op = attempts[i].op /\ next.provider = attempts[i].provider
      /\ next.flow = attempts[i].flow /\ next.user = attempts[i].user
      /\ next.account = k
  BY <1>1 DEF Attempt
<1> HIDE DEF next
<1>4. attempts'[i] = next /\ \A j \in Attempts \ {i} : attempts'[j] = attempts[j]
  BY DEF next
<1>5. attempts' \in [Attempts -> Attempt]
  BY <1>2 DEF next
<1> QED BY <1>2, <1>4, <1>5 DEF Alike

\* A time-out: the attempt goes on as it was; if there is another, it is at
\* the first stage of the same request.
Again(b, a) ==
    /\ Alike(b, a)
    /\ b.stage = CASE a.op = "callback" -> "reading" [] a.op = "refresh" -> "looking"
                   [] a.op = "link" -> "linking" [] OTHER -> "resolving"
    /\ b.user = IF a.op = "callback" THEN None ELSE a.user
    /\ b.account = IF a.op = "unlink" THEN None ELSE a.account

Retrying(i, j) ==
    /\ attempts' \in [Attempts -> Attempt]
    /\ attempts'[i].stage = attempts[i].stage /\ Alike(attempts'[i], attempts[i])
    /\ attempts'[i].user = attempts[i].user /\ attempts'[i].account = attempts[i].account
    /\ attempts[i] # Idle
    /\ j # i => attempts[j] = Idle /\ Again(attempts'[j], attempts[i])
    /\ \A k \in Attempts \ {i, j} : attempts'[k] = attempts[k]

LEMMA TimingOut ==
    ASSUME attempts \in [Attempts -> Attempt], NEW i \in Attempts, TimeOut(i)
    PROVE  \E j \in Attempts : Retrying(i, j)
<1> DEFINE old == attempts[i]
           gone == Dropped(old)
           new == First(old)
<1>1. old \in Attempt /\ old # Idle
  BY Fields DEF TimeOut
<1>2. /\ gone \in Attempt /\ gone.stage = old.stage /\ Alike(gone, old)
      /\ gone.user = old.user /\ gone.account = old.account
  BY <1>1 DEF Dropped, Attempt, Alike
<1>3. new \in Attempt /\ Again(new, old)
  <2>1. DEFINE s == CASE old.op = "callback" -> "reading" [] old.op = "refresh" -> "looking"
                      [] old.op = "link" -> "linking" [] OTHER -> "resolving"
               u == IF old.op = "callback" THEN None ELSE old.user
               k == IF old.op = "unlink" THEN None ELSE old.account
               n == old.try + 1
  <2>2. s \in Stages /\ u \in Users \cup {None} /\ k \in Accounts \cup {None} /\ n \in Nat
    <3>1. s \in {"reading", "looking", "linking", "resolving"}
      OBVIOUS
    <3> HIDE DEF s
    <3>2. s \in Stages
      BY <3>1 DEF Stages
    <3> QED BY <1>1, <3>2, Fields
  <2>3. new = [old EXCEPT !.stage = s, !.user = u, !.account = k, !.try = n]
    BY DEF First
  <2>4. Again(new, old) <=> Alike(new, old) /\ new.stage = s /\ new.user = u /\ new.account = k
    BY DEF Again
  <2> HIDE DEF s, u, k, n
  <2>5. new = [op |-> old.op, stage |-> s, provider |-> old.provider, flow |-> old.flow,
               user |-> u, account |-> k, try |-> n, awaited |-> old.awaited]
    BY <1>1, <2>3 DEF Attempt
  <2>6. new \in Attempt
    BY <1>1, <2>2, <2>5, Fields DEF Attempt
  <2>7. Alike(new, old) /\ new.stage = s /\ new.user = u /\ new.account = k
    BY <2>5 DEF Alike
  <2> QED BY <2>4, <2>6, <2>7
<1>4. \/ attempts' = [attempts EXCEPT ![i] = gone]
      \/ \E j \in Attempts : /\ attempts[j] = Idle
                             /\ attempts' = [attempts EXCEPT ![i] = gone, ![j] = new]
  BY DEF TimeOut
<1> HIDE DEF gone, new
<1>5. CASE attempts' = [attempts EXCEPT ![i] = gone]
  <2>1. Retrying(i, i)
    BY <1>1, <1>2, <1>5 DEF Retrying
  <2> QED BY <2>1
<1>6. ASSUME NEW j \in Attempts, attempts[j] = Idle,
             attempts' = [attempts EXCEPT ![i] = gone, ![j] = new]
      PROVE  Retrying(i, j)
  <2>1. j # i
    BY <1>1, <1>6
  <2>2. /\ attempts'[i] = gone /\ attempts'[j] = new
        /\ \A k \in Attempts \ {i, j} : attempts'[k] = attempts[k]
    BY <1>6, <2>1
  <2>3. attempts' \in [Attempts -> Attempt]
    BY <1>2, <1>3, <1>6
  <2> QED BY <1>1, <1>2, <1>3, <1>6, <2>2, <2>3 DEF Retrying
<1> QED BY <1>4, <1>5, <1>6
-----------------------------------------------------------------------------
(* Flows, by what changes in them.                                         *)

LEMMA FlowFields ==
    /\ \A w \in Flow :
           /\ w.state \in {"none", "stored", "gone"} /\ w.provider \in Enabled \cup {None}
           /\ w.code \in {"none", "issued", "used"} /\ w.user \in Users \cup {None}
           /\ w.logins \in Nat
    /\ NoFlow \in Flow /\ NoFlow.code = "none" /\ NoFlow.logins = 0
  BY DEF Flow, NoFlow

\* Flow f becomes w; the others stay.
FlowGoes(f, w) ==
    /\ flows' \in [Flows -> Flow]
    /\ flows'[f] = w
    /\ \A g \in Flows \ {f} : flows'[g] = flows[g]

LEMMA FlowSteps ==
    ASSUME flows \in [Flows -> Flow], NEW f \in Flows
    PROVE  /\ \A s \in {"none", "stored", "gone"} :
                  flows' = [flows EXCEPT ![f].state = s]
                  => FlowGoes(f, [state |-> s, provider |-> flows[f].provider,
                                  code |-> flows[f].code, user |-> flows[f].user,
                                  logins |-> flows[f].logins])
           /\ \A s \in {"none", "stored", "gone"}, p \in Enabled :
                  flows' = [flows EXCEPT ![f].state = s, ![f].provider = p]
                  => FlowGoes(f, [state |-> s, provider |-> p, code |-> flows[f].code,
                                  user |-> flows[f].user, logins |-> flows[f].logins])
           /\ \A c \in {"none", "issued", "used"}, u \in Users :
                  flows' = [flows EXCEPT ![f].code = c, ![f].user = u]
                  => FlowGoes(f, [state |-> flows[f].state, provider |-> flows[f].provider,
                                  code |-> c, user |-> u, logins |-> flows[f].logins])
           /\ \A c \in {"none", "issued", "used"} :
                  flows' = [flows EXCEPT ![f].code = c]
                  => FlowGoes(f, [state |-> flows[f].state, provider |-> flows[f].provider,
                                  code |-> c, user |-> flows[f].user,
                                  logins |-> flows[f].logins])
           /\ flows' = [flows EXCEPT ![f].logins = @ + 1]
              => FlowGoes(f, [state |-> flows[f].state, provider |-> flows[f].provider,
                              code |-> flows[f].code, user |-> flows[f].user,
                              logins |-> flows[f].logins + 1])
<1> DEFINE w == flows[f]
<1>1. /\ w \in Flow
      /\ w.state \in {"none", "stored", "gone"} /\ w.provider \in Enabled \cup {None}
      /\ w.code \in {"none", "issued", "used"} /\ w.user \in Users \cup {None}
      /\ w.logins \in Nat
  BY FlowFields
<1>2. \A s \in {"none", "stored", "gone"}, p \in Enabled \cup {None},
         c \in {"none", "issued", "used"}, u \in Users \cup {None}, n \in Nat :
          [state |-> s, provider |-> p, code |-> c, user |-> u, logins |-> n] \in Flow
  BY DEF Flow
<1>3. \A v \in Flow : flows' = [flows EXCEPT ![f] = v] => FlowGoes(f, v)
  BY DEF FlowGoes
<1>4. ASSUME NEW s \in {"none", "stored", "gone"}, flows' = [flows EXCEPT ![f].state = s]
      PROVE  FlowGoes(f, [state |-> s, provider |-> w.provider, code |-> w.code,
                          user |-> w.user, logins |-> w.logins])
  <2>1. [w EXCEPT !.state = s] = [state |-> s, provider |-> w.provider, code |-> w.code,
                                  user |-> w.user, logins |-> w.logins]
    BY <1>1 DEF Flow
  <2>2. flows' = [flows EXCEPT ![f] = [w EXCEPT !.state = s]]
    BY <1>4
  <2> QED BY <1>1, <1>2, <1>3, <2>1, <2>2
<1>5. ASSUME NEW s \in {"none", "stored", "gone"}, NEW p \in Enabled,
             flows' = [flows EXCEPT ![f].state = s, ![f].provider = p]
      PROVE  FlowGoes(f, [state |-> s, provider |-> p, code |-> w.code,
                          user |-> w.user, logins |-> w.logins])
  <2> DEFINE v == [w EXCEPT !.state = s]
  <2>1. /\ v \in Flow
        /\ v = [state |-> s, provider |-> w.provider, code |-> w.code,
                 user |-> w.user, logins |-> w.logins]
    BY <1>1 DEF Flow
  <2>2. flows' = [flows EXCEPT ![f] = [v EXCEPT !.provider = p]]
    BY <1>5
  <2> HIDE DEF v
  <2>3. [v EXCEPT !.provider = p]
        = [state |-> s, provider |-> p, code |-> w.code, user |-> w.user, logins |-> w.logins]
    BY <2>1 DEF Flow
  <2> QED BY <1>1, <1>2, <1>3, <2>2, <2>3
<1>6. ASSUME NEW c \in {"none", "issued", "used"}, NEW u \in Users,
             flows' = [flows EXCEPT ![f].code = c, ![f].user = u]
      PROVE  FlowGoes(f, [state |-> w.state, provider |-> w.provider, code |-> c,
                          user |-> u, logins |-> w.logins])
  <2> DEFINE v == [w EXCEPT !.code = c]
  <2>1. /\ v \in Flow
        /\ v = [state |-> w.state, provider |-> w.provider, code |-> c,
                 user |-> w.user, logins |-> w.logins]
    BY <1>1 DEF Flow
  <2>2. flows' = [flows EXCEPT ![f] = [v EXCEPT !.user = u]]
    BY <1>6
  <2> HIDE DEF v
  <2>3. [v EXCEPT !.user = u]
        = [state |-> w.state, provider |-> w.provider, code |-> c, user |-> u, logins |-> w.logins]
    BY <2>1 DEF Flow
  <2> QED BY <1>1, <1>2, <1>3, <2>2, <2>3
<1>7. ASSUME NEW c \in {"none", "issued", "used"}, flows' = [flows EXCEPT ![f].code = c]
      PROVE  FlowGoes(f, [state |-> w.state, provider |-> w.provider, code |-> c,
                          user |-> w.user, logins |-> w.logins])
  <2>1. [w EXCEPT !.code = c] = [state |-> w.state, provider |-> w.provider, code |-> c,
                                 user |-> w.user, logins |-> w.logins]
    BY <1>1 DEF Flow
  <2>2. flows' = [flows EXCEPT ![f] = [w EXCEPT !.code = c]]
    BY <1>7
  <2> QED BY <1>1, <1>2, <1>3, <2>1, <2>2
<1>8. ASSUME flows' = [flows EXCEPT ![f].logins = @ + 1]
      PROVE  FlowGoes(f, [state |-> w.state, provider |-> w.provider, code |-> w.code,
                          user |-> w.user, logins |-> w.logins + 1])
  <2>1. [w EXCEPT !.logins = w.logins + 1]
        = [state |-> w.state, provider |-> w.provider, code |-> w.code, user |-> w.user,
           logins |-> w.logins + 1]
    BY <1>1 DEF Flow
  <2>2. flows' = [flows EXCEPT ![f] = [w EXCEPT !.logins = w.logins + 1]]
    BY <1>8
  <2>3. w.logins + 1 \in Nat
    BY <1>1
  <2> QED BY <1>1, <1>2, <1>3, <2>1, <2>2, <2>3
<1> QED BY <1>4, <1>5, <1>6, <1>7, <1>8

-----------------------------------------------------------------------------
(* The actions of Next, without the routes.                                *)

LEMMA Cases ==
    ASSUME Next
    PROVE  \/ Initialize
           \/ \E f \in Flows, p \in Enabled : GetAuthorizationUrl(f, p)
           \/ \E i \in Attempts, f \in Flows, p \in Enabled : HandleCallback(i, f, p)
           \/ \E i \in Attempts, u \in Users, p \in Enabled : RefreshProviderToken(i, u, p)
           \/ \E i \in Attempts, u \in Users, p \in Enabled, a \in Accounts : Link(i, u, a, p)
           \/ \E i \in Attempts, u \in Users, p \in Enabled : Unlink(i, u, p)
           \/ \E i \in Attempts : Step(i)
           \/ \E f \in Flows, u \in Users : Authorize(f, u)
           \/ \E f \in Flows : LapseState(f)
           \/ \E u \in Users, p \in Enabled : LapseTokens(u, p)
           \/ Restart
           \/ UNCHANGED vars
<1>1. Linked \subseteq Enabled
  BY BoundsAssumption
<1>2. AuthorizeRoute \/ GenerateOAuthUrl =>
          \E f \in Flows, p \in Enabled : GetAuthorizationUrl(f, p)
  BY DEF AuthorizeRoute, GenerateOAuthUrl
<1>3. CallbackRoutes \/ HandleOAuthCallback =>
          \E i \in Attempts, f \in Flows, p \in Enabled : HandleCallback(i, f, p)
  BY DEF CallbackRoutes, HandleOAuthCallback
<1>4. RefreshRoute \/ RefreshMutation =>
          \E i \in Attempts, u \in Users, p \in Enabled : RefreshProviderToken(i, u, p)
  BY DEF RefreshRoute, RefreshMutation
<1>5. LinkRoutes \/ LinkMutations =>
          \/ \E i \in Attempts, u \in Users, p \in Enabled, a \in Accounts : Link(i, u, a, p)
          \/ \E i \in Attempts, u \in Users, p \in Enabled : Unlink(i, u, p)
  BY <1>1 DEF LinkRoutes, LinkMutations
<1>6. StatusRoutes \/ LinkedRoute \/ OAuthQueries => UNCHANGED vars
  BY DEF StatusRoutes, LinkedRoute, OAuthQueries
<1> QED BY <1>2, <1>3, <1>4, <1>5, <1>6 DEF Next, REST, GraphQL

-----------------------------------------------------------------------------
(* Types.                                                                  *)

LEMMA OpOfStage ==
    ASSUME NEW a, Fits(a)
    PROVE  /\ a.stage # "idle" /\ a.stage \in Stages
           /\ a.stage \in {"reading", "deleting"} \cup Passed => a.op = "callback"
           /\ a.stage \in {"looking", "renewing", "saving"} => a.op = "refresh"
           /\ a.stage \in {"linking", "indexing"} => a.op = "link"
           /\ a.stage \in {"resolving"} \cup Dropping => a.op = "unlink"
  BY Words DEF Fits, Passed, Dropping

\* What an attempt that has stage is in.
LEMMA Busy ==
    ASSUME TInv, NEW i \in Attempts, attempts[i].stage # "idle"
    PROVE  attempts[i] \in Attempt /\ attempts[i] # Idle /\ Fits(attempts[i])
  BY Fields DEF TInv, TypeOK, Fitting

\* Attempt i goes on or ends; the others stay.
Keeps(i) ==
    /\ attempts' \in [Attempts -> Attempt]
    /\ attempts'[i] = Idle \/ Fits(attempts'[i])
    /\ attempts[i] # Idle /\ attempts'[i] # Idle => attempts'[i].op = attempts[i].op
    /\ \A j \in Attempts \ {i} : attempts'[j] = attempts[j]

LEMMA GoingKeeps ==
    ASSUME TInv, NEW i \in Attempts, NEW stage, attempts[i].stage # "idle",
           stage \in StagesOf(attempts[i].op),
           stage \in Named => attempts[i].user \in Users,
           stage \in Dropping => attempts[i].account \in Accounts,
           Goto(i, stage)
    PROVE  Keeps(i)
<1>1. Fits(attempts[i]) /\ attempts \in [Attempts -> Attempt]
  BY Busy DEF TInv, TypeOK
<1>2. stage \in Stages
  BY <1>1, Words DEF Fits
<1>3. /\ attempts' \in [Attempts -> Attempt]
      /\ attempts'[i].stage = stage /\ Alike(attempts'[i], attempts[i])
      /\ attempts'[i].user = attempts[i].user
      /\ attempts'[i].account = attempts[i].account
      /\ \A j \in Attempts \ {i} : attempts'[j] = attempts[j]
  BY <1>1, <1>2, Going
<1>4. Fits(attempts'[i])
  BY <1>1, <1>3 DEF Fits, Alike
<1> QED BY <1>3, <1>4 DEF Keeps, Alike

LEMMA EndingKeeps ==
    ASSUME TInv, NEW i \in Attempts, End(i)
    PROVE  Keeps(i)
  BY Ending DEF Keeps, TInv, TypeOK

LEMMA CallbackKeeps ==
    ASSUME TInv, NEW i \in Attempts,
           \/ ReadState(i) \/ DeleteState(i) \/ ExchangeGoogle(i) \/ ExchangeNative(i)
           \/ ExchangeAxios(i) \/ FetchUser(i) \/ FindUser(i) \/ CreateUser(i)
           \/ StoreTokens(i) \/ Grant(i)
    PROVE  Keeps(i) /\ attempts[i].op = "callback" /\ Fits(attempts[i])
<1>1. attempts[i].stage \in {"reading", "deleting"} \cup Passed /\ attempts[i].stage # "idle"
  BY DEF ReadState, DeleteState, ExchangeGoogle, ExchangeNative, ExchangeAxios, FetchUser,
         FindUser, CreateUser, StoreTokens, Grant, At, Passed
<1>2. Fits(attempts[i]) /\ attempts[i].op = "callback"
  BY <1>1, Busy, OpOfStage
<1>3. ASSUME NEW stage, stage \in {"deleting"} \cup Passed, Goto(i, stage),
             stage \in Named => attempts[i].user \in Users
      PROVE  Keeps(i)
  <2>1. stage \in StagesOf(attempts[i].op)
    BY <1>2, <1>3, Words
  <2>2. stage \notin Dropping
    BY <1>3 DEF Dropping, Passed
  <2> QED BY <1>1, <1>3, <2>1, <2>2, GoingKeeps
<1>4. {"exchanging", "exchangingAgain", "fetching", "storing", "creating", "granting"}
      \subseteq Passed
  BY DEF Passed
<1>5. \A stage \in {"deleting", "exchanging", "exchangingAgain", "fetching"} : stage \notin Named
  BY DEF Named
<1>6. \A stage \in Named : attempts[i].stage = stage => attempts[i].user \in Users
  BY <1>2 DEF Fits
<1>7. {"finding", "creating", "storing", "granting"} = Named
  BY DEF Named
<1>8. CASE ReadState(i) \/ DeleteState(i)
  <2>1. Goto(i, "deleting") \/ Goto(i, "exchanging") \/ End(i)
    BY <1>8 DEF ReadState, DeleteState
  <2> QED BY <1>2, <1>3, <1>4, <1>5, <2>1, EndingKeeps
<1>9. CASE ExchangeGoogle(i) \/ ExchangeNative(i) \/ ExchangeAxios(i)
  <2>1. Goto(i, "fetching") \/ Goto(i, "exchangingAgain") \/ End(i)
    BY <1>9 DEF ExchangeGoogle, ExchangeNative, ExchangeAxios
  <2> QED BY <1>2, <1>3, <1>4, <1>5, <2>1, EndingKeeps
<1>10. CASE FindUser(i) \/ CreateUser(i) \/ StoreTokens(i) \/ Grant(i)
  <2>1. Goto(i, "storing") \/ Goto(i, "creating") \/ Goto(i, "granting") \/ End(i)
    BY <1>10 DEF FindUser, CreateUser, StoreTokens, Grant
  <2>2. attempts[i].user \in Users
    BY <1>6, <1>7, <1>10 DEF FindUser, CreateUser, StoreTokens, Grant, At
  <2> QED BY <1>2, <1>3, <1>4, <2>1, <2>2, EndingKeeps
<1>11. CASE FetchUser(i)
  <2>1. CASE End(i)
    BY <1>2, <2>1, EndingKeeps
  <2>2. CASE ~ End(i)
    <3> DEFINE u == flows[attempts[i].flow].user
    <3>1. attempts[i].flow \in Flows /\ attempts[i].provider \in Enabled
      BY <1>2 DEF Fits
    <3>2. attempts[i].stage \in Holders
      BY <1>11 DEF FetchUser, At, Holders
    <3>3. flows[attempts[i].flow].code = "used"
      BY <3>2 DEF TInv, CodesOnce
    <3>4. u \in Users
      BY <3>1, <3>3 DEF TInv, Fitting
    <3>5. attempts' = [attempts EXCEPT ![i].stage = "finding", ![i].user = u]
      BY <1>11, <2>2 DEF FetchUser
    <3>6. attempts \in [Attempts -> Attempt]
      BY DEF TInv, TypeOK
    <3> HIDE DEF u
    <3>7. /\ attempts' \in [Attempts -> Attempt]
          /\ attempts'[i].stage = "finding" /\ Alike(attempts'[i], attempts[i])
          /\ attempts'[i].user = u /\ attempts'[i].account = attempts[i].account
          /\ \A j \in Attempts \ {i} : attempts'[j] = attempts[j]
      BY <3>4, <3>5, <3>6, Naming
    <3>8. "finding" \in StagesOf("callback") /\ "finding" \notin Dropping /\ "callback" \in Ops
      BY Words DEF Passed, Dropping
    <3>9. Fits(attempts'[i])
      BY <1>2, <3>1, <3>4, <3>7, <3>8 DEF Fits, Alike
    <3> QED BY <1>2, <3>7, <3>9 DEF Keeps, Alike
  <2> QED BY <2>1, <2>2
<1> QED BY <1>8, <1>9, <1>10, <1>11
LEMMA RefreshKeeps ==
    ASSUME TInv, NEW i \in Attempts, LookUpTokens(i) \/ RenewTokens(i) \/ SaveTokens(i)
    PROVE  Keeps(i) /\ attempts[i].op = "refresh" /\ Fits(attempts[i])
<1>1. attempts[i].stage \in {"looking", "renewing", "saving"} /\ attempts[i].stage # "idle"
  BY DEF LookUpTokens, RenewTokens, SaveTokens, At
<1>2. Fits(attempts[i]) /\ attempts[i].op = "refresh"
  BY <1>1, Busy, OpOfStage
<1>3. Goto(i, "renewing") \/ Goto(i, "saving") \/ End(i)
  BY DEF LookUpTokens, RenewTokens, SaveTokens
<1>4. \A stage \in {"renewing", "saving"} :
          stage \in StagesOf("refresh") /\ stage \notin Named /\ stage \notin Dropping
  BY Words DEF Named, Dropping
<1> QED BY <1>1, <1>2, <1>3, <1>4, GoingKeeps, EndingKeeps

LEMMA LinkKeeps ==
    ASSUME TInv, NEW i \in Attempts, LinkAccount(i) \/ IndexAccount(i)
    PROVE  Keeps(i) /\ attempts[i].op = "link" /\ Fits(attempts[i])
<1>1. attempts[i].stage \in {"linking", "indexing"} /\ attempts[i].stage # "idle"
  BY DEF LinkAccount, IndexAccount, At
<1>2. Fits(attempts[i]) /\ attempts[i].op = "link"
  BY <1>1, Busy, OpOfStage
<1>3. Goto(i, "indexing") \/ End(i)
  BY DEF LinkAccount, IndexAccount
<1>4. "indexing" \in StagesOf("link") /\ "indexing" \notin Named /\ "indexing" \notin Dropping
  BY Words DEF Named, Dropping
<1> QED BY <1>1, <1>2, <1>3, <1>4, GoingKeeps, EndingKeeps

LEMMA UnlinkKeeps ==
    ASSUME TInv, NEW i \in Attempts, FindLink(i) \/ DropLink(i) \/ DropIndex(i)
    PROVE  Keeps(i) /\ attempts[i].op = "unlink" /\ Fits(attempts[i])
<1>1. attempts[i].stage \in {"resolving"} \cup Dropping /\ attempts[i].stage # "idle"
  BY DEF FindLink, DropLink, DropIndex, At, Dropping
<1>2. Fits(attempts[i]) /\ attempts[i].op = "unlink"
  BY <1>1, Busy, OpOfStage
<1>3. \A stage \in Dropping : stage \in StagesOf("unlink") /\ stage \notin Named
  BY Words DEF Named, Dropping
<1>4. CASE FindLink(i)
  <2> DEFINE k == links[attempts[i].user][attempts[i].provider]
  <2>1. attempts \in [Attempts -> Attempt]
    BY DEF TInv, TypeOK
  <2>2. attempts[i].user \in Users /\ attempts[i].provider \in Enabled
    BY <1>2 DEF Fits
  <2>3. k \in Accounts \cup {None}
    BY <2>2 DEF TInv, TypeOK
  <2>4. attempts' = [attempts EXCEPT ![i] =
            IF k = None THEN Idle ELSE [attempts[i] EXCEPT !.stage = "unlinking", !.account = k]]
    BY <1>4 DEF FindLink
  <2> HIDE DEF k
  <2>5. CASE k = None
    <3>1. End(i)
      BY <2>4, <2>5 DEF End
    <3> QED BY <3>1, <1>2, EndingKeeps
  <2>6. CASE k \in Accounts
    <3>1. k # None
      BY <2>6, NoneAssumption
    <3>2. attempts' = [attempts EXCEPT ![i] =
              [attempts[i] EXCEPT !.stage = "unlinking", !.account = k]]
      BY <2>4, <3>1
    <3>3. /\ attempts' \in [Attempts -> Attempt]
          /\ attempts'[i].stage = "unlinking" /\ Alike(attempts'[i], attempts[i])
          /\ attempts'[i].user = attempts[i].user /\ attempts'[i].account = k
          /\ \A j \in Attempts \ {i} : attempts'[j] = attempts[j]
      BY <2>1, <2>6, <3>2, Found
    <3>4. "unlinking" \in Dropping
      BY DEF Dropping
    <3>5. Fits(attempts'[i])
      BY <1>2, <1>3, <2>2, <2>6, <3>3, <3>4 DEF Fits, Alike
    <3> QED BY <1>2, <3>3, <3>5 DEF Keeps, Alike
  <2> QED BY <2>3, <2>5, <2>6
<1>5. CASE DropLink(i) \/ DropIndex(i)
  <2>1. attempts[i].stage \in Dropping
    BY <1>5 DEF DropLink, DropIndex, Dropping
  <2>2. attempts[i].account \in Accounts
    BY <1>2, <2>1 DEF Fits
  <2>3. Goto(i, "droppingLink") \/ Goto(i, "droppingIndex") \/ End(i)
    BY <1>5 DEF DropLink, DropIndex
  <2>4. {"droppingLink", "droppingIndex"} \subseteq Dropping
    BY DEF Dropping
  <2> QED BY <1>1, <1>2, <1>3, <2>2, <2>3, <2>4, GoingKeeps, EndingKeeps
<1> QED BY <1>4, <1>5

LEMMA FailKeeps ==
    ASSUME TInv, NEW i \in Attempts, Fail(i)
    PROVE  Keeps(i)
<1>1. CASE At(i, "unlinking")
  <2>1. attempts[i].stage # "idle" /\ attempts[i].stage \in Dropping
    BY <1>1 DEF At, Dropping
  <2>2. Fits(attempts[i]) /\ attempts[i].op = "unlink"
    BY <2>1, Busy, OpOfStage
  <2>3. attempts[i].account \in Accounts
    BY <2>1, <2>2 DEF Fits
  <2>4. \A stage \in {"droppingLink", "droppingIndex"} :
            stage \in StagesOf("unlink") /\ stage \notin Named
    BY Words DEF Named
  <2>5. Goto(i, "droppingLink") \/ Goto(i, "droppingIndex")
    BY <1>1 DEF Fail
  <2> QED BY <2>1, <2>2, <2>3, <2>4, <2>5, GoingKeeps
<1>2. CASE ~ At(i, "unlinking")
  BY <1>2, EndingKeeps DEF Fail
<1> QED BY <1>1, <1>2

LEMMA BeginningKeeps ==
    ASSUME TInv, NEW i \in Attempts,
           \/ \E f \in Flows, p \in Enabled : HandleCallback(i, f, p)
           \/ \E u \in Users, p \in Enabled : RefreshProviderToken(i, u, p)
           \/ \E u \in Users, p \in Enabled, a \in Accounts : Link(i, u, a, p)
           \/ \E u \in Users, p \in Enabled : Unlink(i, u, p)
    PROVE  Keeps(i)
<1>1. attempts \in [Attempts -> Attempt]
  BY DEF TInv, TypeOK
<1>2. /\ "reading" \in StagesOf("callback") /\ "looking" \in StagesOf("refresh")
      /\ "linking" \in StagesOf("link") /\ "resolving" \in StagesOf("unlink")
      /\ {"callback", "refresh", "link", "unlink"} \subseteq Ops
      /\ {"reading", "looking", "linking", "resolving"} \subseteq Stages
      /\ \A stage \in {"reading", "looking", "linking", "resolving"} :
             stage \notin Named /\ stage \notin Dropping
  BY Words DEF Named, Dropping, Stages
<1>3. ASSUME NEW op \in Ops, NEW stage \in {"reading", "looking", "linking", "resolving"},
             NEW p \in Enabled,
             NEW f \in Flows \cup {None}, NEW u \in Users \cup {None},
             NEW a \in Accounts \cup {None}, Begin(i, op, stage, p, f, u, a),
             stage \in StagesOf(op), op = "callback" => f \in Flows,
             op # "callback" => u \in Users, op = "link" => a \in Accounts
      PROVE  Keeps(i)
  <2>0. stage \in Stages
    BY <1>2
  <2>1. /\ attempts' \in [Attempts -> Attempt]
        /\ attempts'[i].op = op /\ attempts'[i].stage = stage /\ attempts'[i].provider = p
        /\ attempts'[i].flow = f /\ attempts'[i].user = u /\ attempts'[i].account = a
        /\ \A j \in Attempts \ {i} : attempts'[j] = attempts[j]
    BY <1>1, <1>3, <2>0, Beginning
  <2>2. Fits(attempts'[i])
    BY <1>2, <1>3, <2>1 DEF Fits
  <2> QED BY <1>3, <2>1, <2>2 DEF Keeps, Begin
<1>4. ASSUME NEW f \in Flows, NEW p \in Enabled, HandleCallback(i, f, p)
      PROVE  Keeps(i)
  BY <1>2, <1>3, <1>4 DEF HandleCallback
<1>5. ASSUME NEW u \in Users, NEW p \in Enabled, RefreshProviderToken(i, u, p)
      PROVE  Keeps(i)
  BY <1>2, <1>3, <1>5 DEF RefreshProviderToken
<1>6. ASSUME NEW u \in Users, NEW p \in Enabled, NEW a \in Accounts, Link(i, u, a, p)
      PROVE  Keeps(i)
  BY <1>2, <1>3, <1>6 DEF Link
<1>7. ASSUME NEW u \in Users, NEW p \in Enabled, Unlink(i, u, p)
      PROVE  Keeps(i)
  BY <1>2, <1>3, <1>7 DEF Unlink
<1> QED BY <1>4, <1>5, <1>6, <1>7

\* A time-out keeps one attempt and begins the other anew.
LEMMA RetryKeeps ==
    ASSUME TInv, NEW i \in Attempts, NEW j \in Attempts, Retrying(i, j)
    PROVE  /\ \A k \in Attempts : attempts'[k] = Idle \/ Fits(attempts'[k])
           /\ attempts'[j].stage \notin Holders \/ j = i
           /\ attempts[i].op \in Ops /\ Fits(attempts[i]) /\ Fits(attempts'[i])
<1> DEFINE a == attempts[i]
<1>1. Fits(a) /\ a.op \in Ops
  BY DEF TInv, Fitting, Retrying, Fits
<1>2. Fits(attempts'[i])
  BY <1>1 DEF Fits, Retrying, Alike
<1>3. ASSUME j # i
      PROVE  Fits(attempts'[j]) /\ attempts'[j].stage \notin Holders
  <2>1. Again(attempts'[j], a)
    BY <1>3 DEF Retrying
  <2> DEFINE b == attempts'[j]
  <2>2. /\ b.op = a.op /\ b.provider = a.provider /\ b.flow = a.flow
        /\ b.stage = CASE a.op = "callback" -> "reading" [] a.op = "refresh" -> "looking"
                   [] a.op = "link" -> "linking" [] OTHER -> "resolving"
        /\ b.user = IF a.op = "callback" THEN None ELSE a.user
        /\ b.account = IF a.op = "unlink" THEN None ELSE a.account
    BY <2>1 DEF Again, Alike
  <2> HIDE DEF b
  <2>3. b.stage \in StagesOf(b.op) /\ b.stage \in {"reading", "looking", "linking", "resolving"}
    <3>1. CASE a.op = "callback"
      BY <2>2, <3>1, Words
    <3>2. CASE a.op = "refresh"
      BY <2>2, <3>2, Words
    <3>3. CASE a.op = "link"
      BY <2>2, <3>3, Words
    <3>4. CASE a.op = "unlink"
      BY <2>2, <3>4, Words
    <3> QED BY <1>1, <3>1, <3>2, <3>3, <3>4, Words
  <2>4. b.stage \notin Named /\ b.stage \notin Dropping /\ b.stage \notin Holders
    BY <2>3 DEF Named, Dropping, Holders
  <2>5. b.op # "callback" => b.user \in Users
    BY <1>1, <2>2 DEF Fits
  <2>6. b.op = "link" => b.account \in Accounts
    BY <1>1, <2>2 DEF Fits
  <2>7. b.op \in Ops /\ b.provider \in Enabled /\ (b.op = "callback" => b.flow \in Flows)
    BY <1>1, <2>2 DEF Fits
  <2>8. Fits(b)
    BY <2>3, <2>4, <2>5, <2>6, <2>7 DEF Fits
  <2> QED BY <2>4, <2>8 DEF b
<1>4. \A k \in Attempts \ {i, j} : attempts'[k] = Idle \/ Fits(attempts'[k])
  BY DEF Retrying, TInv, Fitting
<1> QED BY <1>1, <1>2, <1>3, <1>4
-----------------------------------------------------------------------------
(* What the steps do to flows.                                             *)

\* No state comes back, no code becomes usable again, nobody is signed in.
FlowsStay ==
    /\ flows' \in [Flows -> Flow]
    /\ \A f \in Flows :
           /\ flows[f].state = "gone" => flows'[f].state = "gone"
           /\ flows[f].code = "used" => flows'[f].code = "used"
           /\ flows'[f].logins = flows[f].logins
           /\ flows'[f].code # "none" => flows'[f].user \in Users

LEMMA SameFlows ==
    ASSUME TInv, flows' = flows
    PROVE  FlowsStay
  BY DEF FlowsStay, TInv, TypeOK, Fitting

LEMMA FlowGoesStay ==
    ASSUME TInv, NEW f \in Flows, NEW s, NEW p, NEW c, NEW u,
           FlowGoes(f, [state |-> s, provider |-> p, code |-> c, user |-> u,
                        logins |-> flows[f].logins]),
           flows[f].state = "gone" => s = "gone",
           flows[f].code = "used" => c = "used",
           c # "none" => u \in Users
    PROVE  FlowsStay
<1>1. /\ flows'[f].state = s /\ flows'[f].code = c /\ flows'[f].user = u
      /\ flows'[f].logins = flows[f].logins
  BY DEF FlowGoes
<1> QED BY <1>1 DEF FlowGoes, FlowsStay, TInv, TypeOK, Fitting

LEMMA StateStay ==
    ASSUME TInv, NEW f \in Flows,
           \/ \E p \in Enabled : StoreState(f, p)
           \/ \E u \in Users : Authorize(f, u)
           \/ LapseState(f)
           \/ flows' = [flows EXCEPT ![f].state = "gone"]
    PROVE  FlowsStay
<1>0. flows \in [Flows -> Flow] /\ (flows[f].code # "none" => flows[f].user \in Users)
  BY DEF TInv, TypeOK, Fitting
<1>1. ASSUME NEW p \in Enabled, StoreState(f, p)
      PROVE  FlowsStay
  <2>1. FlowGoes(f, [state |-> "stored", provider |-> p, code |-> flows[f].code,
                     user |-> flows[f].user, logins |-> flows[f].logins])
    BY <1>0, <1>1, FlowSteps DEF StoreState
  <2> QED BY <1>0, <1>1, <2>1, FlowGoesStay DEF StoreState
<1>2. ASSUME NEW u \in Users, Authorize(f, u)
      PROVE  FlowsStay
  <2>1. FlowGoes(f, [state |-> flows[f].state, provider |-> flows[f].provider,
                     code |-> "issued", user |-> u, logins |-> flows[f].logins])
    BY <1>0, <1>2, FlowSteps DEF Authorize
  <2> QED BY <1>2, <2>1, FlowGoesStay DEF Authorize
<1>3. CASE LapseState(f) \/ flows' = [flows EXCEPT ![f].state = "gone"]
  <2>1. flows' = [flows EXCEPT ![f].state = "gone"]
    BY <1>3 DEF LapseState
  <2>2. FlowGoes(f, [state |-> "gone", provider |-> flows[f].provider,
                     code |-> flows[f].code, user |-> flows[f].user,
                     logins |-> flows[f].logins])
    BY <1>0, <2>1, FlowSteps
  <2> QED BY <1>0, <2>2, FlowGoesStay
<1> QED BY <1>1, <1>2, <1>3

LEMMA TakeStay ==
    ASSUME TInv, NEW f \in Flows, TakeCode(f)
    PROVE  FlowsStay /\ flows[f].code = "issued" /\ flows'[f].code = "used"
<1>0. flows \in [Flows -> Flow] /\ (flows[f].code # "none" => flows[f].user \in Users)
  BY DEF TInv, TypeOK, Fitting
<1>1. flows[f].code = "issued" /\ flows' = [flows EXCEPT ![f].code = "used"]
  BY DEF TakeCode
<1>2. FlowGoes(f, [state |-> flows[f].state, provider |-> flows[f].provider,
                   code |-> "used", user |-> flows[f].user, logins |-> flows[f].logins])
  BY <1>0, <1>1, FlowSteps
<1>3. FlowsStay
  BY <1>0, <1>1, <1>2, FlowGoesStay
<1>4. flows'[f].code = "used"
  BY <1>2 DEF FlowGoes
<1> QED BY <1>1, <1>3, <1>4

\* The attempts at the stages S were there before.
StayIn(S) ==
    \A k \in Attempts : attempts'[k].stage \in S =>
        attempts[k].stage \in S /\ attempts'[k].flow = attempts[k].flow

LEMMA CodesStay ==
    ASSUME TInv, FlowsStay, StayIn(Holders)
    PROVE  CodesOnce'
<1>1. \A k \in Attempts : attempts[k].stage \in Holders => attempts[k].flow \in Flows
  <2>1. \A k \in Attempts : attempts[k].stage \in Holders =>
            attempts[k].stage \in Passed /\ attempts[k].stage # "idle"
    BY DEF Holders, Passed
  <2> QED BY <2>1, Busy, OpOfStage DEF Fits
<1>2. \A k \in Attempts : attempts'[k].stage \in Holders =>
          /\ flows'[attempts'[k].flow].code = "used"
          /\ flows'[attempts'[k].flow].logins = 0
  BY <1>1 DEF FlowsStay, StayIn, TInv, CodesOnce
<1>3. \A k, l \in Attempts :
          /\ attempts'[k].stage \in Holders /\ attempts'[l].stage \in Holders
          /\ attempts'[k].flow = attempts'[l].flow
          => k = l
  BY DEF StayIn, TInv, CodesOnce
<1>4. \A f \in Flows : /\ flows'[f].code # "used" => flows'[f].logins = 0
                       /\ flows'[f].logins <= 1
  BY DEF FlowsStay, TInv, CodesOnce
<1> QED BY <1>2, <1>3, <1>4 DEF CodesOnce

LEMMA StateStays ==
    ASSUME TInv, FlowsStay, StayIn(Passed), StateSpent
    PROVE  StateSpent'
<1>1. \A k \in Attempts : attempts[k].stage \in Passed => attempts[k].flow \in Flows
  <2>1. \A k \in Attempts : attempts[k].stage \in Passed => attempts[k].stage # "idle"
    BY DEF Passed
  <2> QED BY <2>1, Busy, OpOfStage DEF Fits
<1>2. \A k \in Attempts : attempts'[k].stage \in Passed =>
          flows'[attempts'[k].flow].state = "gone"
  BY <1>1 DEF FlowsStay, StayIn, StateSpent
<1> QED BY <1>2 DEF StateSpent

\* An attempt that ends, or goes to a stage outside S or from one in S,
\* leaves S as it was.
LEMMA EndingStays ==
    ASSUME TInv, NEW i \in Attempts, End(i), NEW S, "idle" \notin S
    PROVE  StayIn(S)
  BY Ending, Fields DEF StayIn, TInv, TypeOK

LEMMA GoingStays ==
    ASSUME TInv, NEW i \in Attempts, NEW stage \in Stages, Goto(i, stage),
           NEW S, stage \in S => attempts[i].stage \in S
    PROVE  StayIn(S)
<1>1. /\ attempts'[i].stage = stage /\ attempts'[i].flow = attempts[i].flow
      /\ \A j \in Attempts \ {i} : attempts'[j] = attempts[j]
  BY Going DEF TInv, TypeOK, Alike
<1> QED BY <1>1 DEF StayIn
-----------------------------------------------------------------------------
(* The invariant holds along every step.                                   *)

Others == <<service, starts, known, redis, excused, bounds>>

\* TypeOK of what is neither a flow nor an attempt.
RestOK ==
    /\ service \in {"starting", "ready", "off"} /\ starts \in 0..RetryAttempts
    /\ service = "starting" => starts < RetryAttempts
    /\ known \in SUBSET Users
    /\ tokens \in [Users -> [Enabled -> TokenData \cup {None}]]
    /\ links \in [Users -> [Enabled -> Accounts \cup {None}]]
    /\ index \in [Enabled -> [Accounts -> Users \cup {None}]]
    /\ excused \in BOOLEAN
    /\ faults \in 0..MaxFaults /\ work \in Works

LEMMA Unchanged ==
    ASSUME RestOK, UNCHANGED Others
    PROVE  RestOK'
  BY DEF RestOK, Others, redis, bounds

LEMMA RestOfSteps ==
    ASSUME TInv, RestOK, NEW i \in Attempts, Step(i)
    PROVE  RestOK'
<1>1. CASE \/ ReadState(i) \/ DeleteState(i) \/ ExchangeGoogle(i) \/ ExchangeNative(i)
           \/ ExchangeAxios(i) \/ FetchUser(i) \/ FindUser(i) \/ Grant(i)
  BY <1>1, Unchanged DEF ReadState, DeleteState, ExchangeGoogle, ExchangeNative,
       ExchangeAxios, FetchUser, FindUser, Grant, Others
<1>2. CASE LookUpTokens(i) \/ RenewTokens(i) \/ FindLink(i) \/ TimeOut(i)
  BY <1>2, Unchanged DEF LookUpTokens, RenewTokens, FindLink, TimeOut, Others
<1>3. CASE CreateUser(i)
  <2>1. attempts[i].op = "callback" /\ attempts[i].stage \in Named /\ Fits(attempts[i])
    BY <1>3, CallbackKeeps DEF CreateUser, At, Named
  <2>2. attempts[i].user \in Users
    BY <2>1 DEF Fits
  <2>3. known' \in SUBSET Users
    BY <1>3, <2>2 DEF CreateUser, RestOK
  <2> QED BY <1>3, <2>3 DEF CreateUser, RestOK, redis, bounds
<1>4. CASE StoreTokens(i) \/ SaveTokens(i)
  <2> DEFINE u == attempts[i].user
             p == attempts[i].provider
  <2>1. Fits(attempts[i]) /\ (attempts[i].stage \in Named \/ attempts[i].op = "refresh")
    BY <1>4, CallbackKeeps, RefreshKeeps DEF StoreTokens, At, Named
  <2>2. u \in Users /\ p \in Enabled
    BY <2>1 DEF Fits
  <2>3. "renewable" \in TokenData
    BY DEF TokenData
  <2>4. \E data \in TokenData : tokens' = [tokens EXCEPT ![u][p] = data]
    BY <1>4, <2>3 DEF StoreTokens, SaveTokens
  <2> HIDE DEF u, p
  <2>5. tokens' \in [Users -> [Enabled -> TokenData \cup {None}]]
    BY <2>2, <2>4 DEF RestOK
  <2> QED BY <1>4, <2>5 DEF StoreTokens, SaveTokens, RestOK, bounds
<1>5. CASE LinkAccount(i) \/ DropLink(i)
  <2> DEFINE u == attempts[i].user
             p == attempts[i].provider
  <2>1. Fits(attempts[i]) /\ attempts[i].op \in {"link", "unlink"}
    BY <1>5, LinkKeeps, UnlinkKeeps
  <2>2. u \in Users /\ p \in Enabled
    BY <2>1 DEF Fits
  <2>3. LinkAccount(i) => attempts[i].account \in Accounts
    BY <2>1, LinkKeeps DEF Fits
  <2>4. \E k \in Accounts \cup {None} : links' = [links EXCEPT ![u][p] = k]
    BY <1>5, <2>3 DEF LinkAccount, DropLink
  <2> HIDE DEF u, p
  <2>5. links' \in [Users -> [Enabled -> Accounts \cup {None}]]
    BY <2>2, <2>4 DEF RestOK
  <2>6. excused' \in BOOLEAN
    BY <1>5, Zenon DEF LinkAccount, DropLink, RestOK
  <2> QED BY <1>5, <2>5, <2>6 DEF LinkAccount, DropLink, RestOK, bounds
<1>6. CASE IndexAccount(i) \/ DropIndex(i)
  <2> DEFINE k == attempts[i].account
             p == attempts[i].provider
  <2>1. Fits(attempts[i]) /\ attempts[i].op \in {"link", "unlink"}
    BY <1>6, LinkKeeps, UnlinkKeeps
  <2>2. IndexAccount(i) => attempts[i].op = "link"
    BY LinkKeeps
  <2>3. DropIndex(i) => attempts[i].stage \in Dropping
    BY DEF DropIndex, Dropping
  <2>4. k \in Accounts /\ p \in Enabled /\ attempts[i].user \in Users
    BY <1>6, <2>1, <2>2, <2>3 DEF Fits
  <2>5. \E u \in Users \cup {None} : index' = [index EXCEPT ![p][k] = u]
    BY <1>6, <2>4 DEF IndexAccount, DropIndex
  <2> HIDE DEF k, p
  <2>6. index' \in [Enabled -> [Accounts -> Users \cup {None}]]
    BY <2>4, <2>5 DEF RestOK
  <2> QED BY <1>6, <2>6 DEF IndexAccount, DropIndex, RestOK, bounds
<1>7. CASE Fail(i)
  <2>1. excused' \in BOOLEAN
    BY <1>7, Zenon DEF Fail, RestOK
  <2>2. faults' \in 0..MaxFaults
    <3>1. faults < MaxFaults /\ faults' = faults + 1
      BY <1>7 DEF Fail
    <3>2. faults \in 0..MaxFaults /\ MaxFaults \in Nat
      BY BoundsAssumption DEF RestOK
    <3> QED BY <3>1, <3>2
  <2> QED BY <1>7, <2>1, <2>2 DEF Fail, RestOK, redis
<1> QED BY <1>1, <1>2, <1>3, <1>4, <1>5, <1>6, <1>7 DEF Step

LEMMA RestOfOthers ==
    ASSUME RestOK, Next, ~ \E i \in Attempts : Step(i)
    PROVE  RestOK'
<1>1. CASE Initialize
  BY <1>1, BoundsAssumption DEF Initialize, RestOK, redis, bounds
<1>2. CASE \/ \E f \in Flows, p \in Enabled : GetAuthorizationUrl(f, p)
           \/ \E i \in Attempts, f \in Flows, p \in Enabled : HandleCallback(i, f, p)
           \/ \E i \in Attempts, u \in Users, p \in Enabled : RefreshProviderToken(i, u, p)
  BY <1>2, Unchanged DEF GetAuthorizationUrl, HandleCallback, RefreshProviderToken, Others
<1>3. CASE \/ \E f \in Flows, u \in Users : Authorize(f, u)
           \/ \E f \in Flows : LapseState(f)
           \/ UNCHANGED vars
  BY <1>3, Unchanged DEF Authorize, LapseState, vars, Others
<1>4. CASE \/ \E i \in Attempts, u \in Users, p \in Enabled, a \in Accounts : Link(i, u, a, p)
           \/ \E i \in Attempts, u \in Users, p \in Enabled : Unlink(i, u, p)
  <2>1. excused' \in BOOLEAN
    BY <1>4, Zenon DEF Link, Unlink, RestOK
  <2> QED BY <1>4, <2>1 DEF Link, Unlink, RestOK, redis, bounds
<1>5. ASSUME NEW u \in Users, NEW p \in Enabled, LapseTokens(u, p)
      PROVE  RestOK'
  <2>1. tokens' \in [Users -> [Enabled -> TokenData \cup {None}]]
    BY <1>5 DEF LapseTokens, RestOK
  <2> QED BY <1>5, <2>1 DEF LapseTokens, RestOK, bounds
<1>6. CASE Restart
  <2>1. excused' \in BOOLEAN
    BY <1>6, Zenon DEF Restart, RestOK
  <2>2. faults' \in 0..MaxFaults /\ starts' \in 0..RetryAttempts /\ starts' < RetryAttempts
    BY <1>6, BoundsAssumption DEF Restart, RestOK
  <2> QED BY <1>6, <2>1, <2>2 DEF Restart, RestOK, redis
<1> QED BY <1>1, <1>2, <1>3, <1>4, <1>5, <1>6, Cases
LEMMA RestTyped ==
    ASSUME TInv, Next
    PROVE  RestOK'
<1>1. RestOK
  BY DEF RestOK, TInv, TypeOK, Fitting
<1> QED BY <1>1, RestOfSteps, RestOfOthers

\* Attempts and flows after a step, in all but Rest.
After ==
    /\ attempts' \in [Attempts -> Attempt]
    /\ \A k \in Attempts : attempts'[k] = Idle \/ Fits(attempts'[k])
    /\ flows' \in [Flows -> Flow]
    /\ \A f \in Flows : flows'[f].code # "none" => flows'[f].user \in Users
    /\ CodesOnce'
    /\ StateSpent => StateSpent'

LEMMA Idling ==
    /\ "idle" \notin Holders /\ "idle" \notin Passed /\ Holders \subseteq Passed
    /\ Passed \subseteq Stages
  BY DEF Holders, Passed, Stages

LEMMA KeepsAll ==
    ASSUME TInv, NEW i \in Attempts, Keeps(i)
    PROVE  /\ attempts' \in [Attempts -> Attempt]
           /\ \A k \in Attempts : attempts'[k] = Idle \/ Fits(attempts'[k])
  BY DEF Keeps, TInv, Fitting

LEMMA Stays ==
    ASSUME TInv, FlowsStay, StayIn(Holders), StayIn(Passed),
           attempts' \in [Attempts -> Attempt],
           \A k \in Attempts : attempts'[k] = Idle \/ Fits(attempts'[k])
    PROVE  After
  BY CodesStay, StateStays DEF After, FlowsStay

\* The attempt goes to a stage that is not the first of a kind.
LEMMA GoesOn ==
    ASSUME TInv, NEW i \in Attempts, Keeps(i), FlowsStay,
           \/ End(i)
           \/ \E stage \in Stages :
                 /\ Goto(i, stage)
                 /\ stage \in Holders => attempts[i].stage \in Holders
                 /\ stage \in Passed => attempts[i].stage \in Passed
    PROVE  After
<1>1. StayIn(Holders) /\ StayIn(Passed)
  <2>1. CASE End(i)
    BY <2>1, EndingStays, Idling
  <2>2. ASSUME NEW stage \in Stages, Goto(i, stage),
               stage \in Holders => attempts[i].stage \in Holders,
               stage \in Passed => attempts[i].stage \in Passed
        PROVE  StayIn(Holders) /\ StayIn(Passed)
    BY <2>2, GoingStays
  <2> QED BY <2>1, <2>2
<1> QED BY <1>1, KeepsAll, Stays

LEMMA AfterDelete ==
    ASSUME TInv, NEW i \in Attempts, DeleteState(i)
    PROVE  After
<1> DEFINE f == attempts[i].flow
<1>1. Keeps(i) /\ f \in Flows
  BY CallbackKeeps DEF Fits
<1>2. flows' = [flows EXCEPT ![f].state = "gone"]
  BY DEF DeleteState
<1>3. FlowsStay
  BY <1>1, <1>2, StateStay
<1>4. flows'[f].state = "gone"
  BY <1>1, <1>2 DEF TInv, TypeOK, Flow
<1>5. CASE End(i)
  BY <1>1, <1>3, <1>5, GoesOn
<1>6. CASE Goto(i, "exchanging")
  <2>1. "exchanging" \in Stages /\ "exchanging" \notin Holders
    BY DEF Stages, Holders
  <2>2. StayIn(Holders)
    BY <1>6, <2>1, GoingStays
  <2>3. CodesOnce'
    BY <1>3, <2>2, CodesStay
  <2>4. /\ attempts'[i].stage = "exchanging" /\ attempts'[i].flow = f
        /\ \A k \in Attempts \ {i} : attempts'[k] = attempts[k]
    BY <1>6, <2>1, Going DEF TInv, TypeOK, Alike
  <2>5. ASSUME StateSpent
        PROVE  StateSpent'
    <3>1. \A k \in Attempts : attempts[k].stage \in Passed => attempts[k].flow \in Flows
      BY Idling, Busy, OpOfStage DEF Fits
    <3>2. \A k \in Attempts : attempts'[k].stage \in Passed =>
              flows'[attempts'[k].flow].state = "gone"
      BY <1>3, <1>4, <2>4, <2>5, <3>1 DEF StateSpent, FlowsStay
    <3> QED BY <3>2 DEF StateSpent
  <2> QED BY <1>1, <1>3, <2>3, <2>5, KeepsAll DEF After, FlowsStay
<1> QED BY <1>5, <1>6 DEF DeleteState

LEMMA AfterExchange ==
    ASSUME TInv, NEW i \in Attempts,
           ExchangeGoogle(i) \/ ExchangeNative(i) \/ ExchangeAxios(i)
    PROVE  After
<1> DEFINE f == attempts[i].flow
<1>1. Keeps(i) /\ f \in Flows
  BY CallbackKeeps DEF Fits
<1>2. attempts[i].stage \in Passed /\ attempts[i].stage # "idle"
  BY DEF ExchangeGoogle, ExchangeNative, ExchangeAxios, At, Passed
<1>3. \/ TakeCode(f) /\ Goto(i, "fetching")
      \/ (TakeCode(f) \/ flows' = flows) /\ (End(i) \/ Goto(i, "exchangingAgain"))
  BY DEF ExchangeGoogle, ExchangeNative, ExchangeAxios
<1>4. CASE (TakeCode(f) \/ flows' = flows) /\ (End(i) \/ Goto(i, "exchangingAgain"))
  <2>1. FlowsStay
    BY <1>1, <1>4, SameFlows, TakeStay
  <2>2. "exchangingAgain" \in Stages /\ "exchangingAgain" \notin Holders
    BY DEF Stages, Holders
  <2> QED BY <1>1, <1>2, <1>4, <2>1, <2>2, GoesOn
<1>5. CASE TakeCode(f) /\ Goto(i, "fetching")
  <2>1. FlowsStay /\ flows[f].code = "issued" /\ flows'[f].code = "used"
    BY <1>1, <1>5, TakeStay
  <2>2. "fetching" \in Stages
    BY DEF Stages
  <2>3. StayIn(Passed)
    BY <1>2, <1>5, <2>2, GoingStays
  <2>4. StateSpent => StateSpent'
    BY <2>1, <2>3, StateStays
  <2>5. /\ attempts'[i].stage = "fetching" /\ attempts'[i].flow = f
        /\ \A k \in Attempts \ {i} : attempts'[k] = attempts[k]
    BY <1>5, <2>2, Going DEF TInv, TypeOK, Alike
  <2>6. \A k \in Attempts : attempts[k].stage \in Holders =>
            attempts[k].flow \in Flows /\ attempts[k].flow # f
    <3>1. \A k \in Attempts : attempts[k].stage \in Holders => attempts[k].flow \in Flows
      BY Idling, Busy, OpOfStage DEF Fits
    <3> QED BY <2>1, <3>1 DEF TInv, CodesOnce
  <2>7. flows'[f].logins = 0
    BY <1>1, <2>1 DEF FlowsStay, TInv, CodesOnce
  <2>8. \A k \in Attempts : attempts'[k].stage \in Holders =>
            /\ flows'[attempts'[k].flow].code = "used"
            /\ flows'[attempts'[k].flow].logins = 0
    BY <2>1, <2>5, <2>6, <2>7 DEF FlowsStay, TInv, CodesOnce
  <2>9. \A k, l \in Attempts :
            /\ attempts'[k].stage \in Holders /\ attempts'[l].stage \in Holders
            /\ attempts'[k].flow = attempts'[l].flow
            => k = l
    BY <2>5, <2>6 DEF TInv, CodesOnce
  <2>10. \A g \in Flows : /\ flows'[g].code # "used" => flows'[g].logins = 0
                          /\ flows'[g].logins <= 1
    BY <2>1 DEF FlowsStay, TInv, CodesOnce
  <2>11. CodesOnce'
    BY <2>8, <2>9, <2>10 DEF CodesOnce
  <2> QED BY <1>1, <2>1, <2>4, <2>11, KeepsAll DEF After, FlowsStay
<1> QED BY <1>3, <1>4, <1>5

LEMMA AfterGrant ==
    ASSUME TInv, NEW i \in Attempts, Grant(i)
    PROVE  After
<1> DEFINE f == attempts[i].flow
           w == flows[f]
<1>1. Keeps(i) /\ f \in Flows
  BY CallbackKeeps DEF Fits
<1>2. flows \in [Flows -> Flow] /\ flows' = [flows EXCEPT ![f].logins = @ + 1] /\ End(i)
  BY DEF Grant, TInv, TypeOK
<1>3. FlowGoes(f, [state |-> w.state, provider |-> w.provider, code |-> w.code,
                   user |-> w.user, logins |-> w.logins + 1])
  BY <1>1, <1>2, FlowSteps
<1>4. attempts[i].stage \in Holders
  BY DEF Grant, At, Holders
<1>5. w.code = "used" /\ w.logins = 0
  BY <1>4 DEF TInv, CodesOnce
<1>6. /\ flows' \in [Flows -> Flow]
      /\ flows'[f].state = w.state /\ flows'[f].code = "used" /\ flows'[f].user = w.user
      /\ flows'[f].logins = 1
      /\ \A g \in Flows \ {f} : flows'[g] = flows[g]
  BY <1>3, <1>5 DEF FlowGoes
<1>7. attempts'[i].stage = "idle" /\ \A k \in Attempts \ {i} : attempts'[k] = attempts[k]
  BY <1>2, Ending, Fields DEF TInv, TypeOK
<1>8. \A k \in Attempts : attempts'[k].stage \in Holders =>
          /\ k # i /\ attempts[k].stage \in Holders /\ attempts[k].flow \in Flows
          /\ attempts[k].flow # f
  <2>1. \A k \in Attempts : attempts[k].stage \in Holders => attempts[k].flow \in Flows
    BY Idling, Busy, OpOfStage DEF Fits
  <2> QED BY <1>4, <1>7, <2>1, Idling DEF TInv, CodesOnce
<1>9. CodesOnce'
  <2>1. \A k \in Attempts : attempts'[k].stage \in Holders =>
            /\ flows'[attempts'[k].flow].code = "used"
            /\ flows'[attempts'[k].flow].logins = 0
    BY <1>6, <1>7, <1>8 DEF TInv, CodesOnce
  <2>2. \A k, l \in Attempts :
            /\ attempts'[k].stage \in Holders /\ attempts'[l].stage \in Holders
            /\ attempts'[k].flow = attempts'[l].flow
            => k = l
    BY <1>7, <1>8 DEF TInv, CodesOnce
  <2>3. \A g \in Flows : /\ flows'[g].code # "used" => flows'[g].logins = 0
                         /\ flows'[g].logins <= 1
    BY <1>6 DEF TInv, CodesOnce
  <2> QED BY <2>1, <2>2, <2>3 DEF CodesOnce
<1>10. ASSUME StateSpent
       PROVE  StateSpent'
  <2>1. \A k \in Attempts : attempts[k].stage \in Passed => attempts[k].flow \in Flows
    BY Idling, Busy, OpOfStage DEF Fits
  <2>2. \A g \in Flows : flows'[g].state = flows[g].state
    BY <1>6
  <2>3. \A k \in Attempts : attempts'[k].stage \in Passed =>
            flows'[attempts'[k].flow].state = "gone"
    BY <1>7, <1>10, <2>1, <2>2, Idling DEF StateSpent
  <2> QED BY <2>3 DEF StateSpent
<1>11. \A g \in Flows : flows'[g].code # "none" => flows'[g].user \in Users
  BY <1>5, <1>6 DEF TInv, Fitting
<1> QED BY <1>1, <1>6, <1>9, <1>10, <1>11, KeepsAll DEF After
LEMMA AfterStep ==
    ASSUME TInv, NEW i \in Attempts, Step(i)
    PROVE  After
<1>1. CASE ReadState(i)
  <2>1. Keeps(i) /\ FlowsStay
    BY <1>1, CallbackKeeps, SameFlows DEF ReadState
  <2>2. End(i) \/ Goto(i, "deleting")
    BY <1>1 DEF ReadState
  <2>3. "deleting" \in Stages /\ "deleting" \notin Holders /\ "deleting" \notin Passed
    BY DEF Stages, Holders, Passed
  <2> QED BY <2>1, <2>2, <2>3, GoesOn
<1>2. CASE FetchUser(i)
  <2> DEFINE u == flows[attempts[i].flow].user
  <2>1. Keeps(i) /\ FlowsStay /\ attempts[i].flow \in Flows
    BY <1>2, CallbackKeeps, SameFlows DEF FetchUser, Fits
  <2>2. u \in Users \cup {None}
    BY <2>1, FlowFields DEF TInv, TypeOK
  <2>3. attempts[i].stage \in Holders /\ attempts[i].stage \in Passed
    BY <1>2 DEF FetchUser, At, Holders, Passed
  <2>4. End(i) \/ attempts' = [attempts EXCEPT ![i].stage = "finding", ![i].user = u]
    BY <1>2 DEF FetchUser
  <2> HIDE DEF u
  <2>5. CASE attempts' = [attempts EXCEPT ![i].stage = "finding", ![i].user = u]
    <3>1. /\ Alike(attempts'[i], attempts[i])
          /\ \A j \in Attempts \ {i} : attempts'[j] = attempts[j]
      BY <2>2, <2>5, Naming DEF TInv, TypeOK
    <3>2. StayIn(Holders) /\ StayIn(Passed)
      BY <2>3, <3>1 DEF StayIn, Alike
    <3> QED BY <2>1, <3>2, KeepsAll, Stays
  <2> QED BY <2>1, <2>4, <2>5, GoesOn
<1>3. CASE FindUser(i) \/ CreateUser(i) \/ StoreTokens(i)
  <2>1. Keeps(i) /\ FlowsStay
    BY <1>3, CallbackKeeps, SameFlows DEF FindUser, CreateUser, StoreTokens
  <2>2. attempts[i].stage \in Holders /\ attempts[i].stage \in Passed
    BY <1>3 DEF FindUser, CreateUser, StoreTokens, At, Holders, Passed
  <2>3. End(i) \/ \E stage \in {"storing", "creating", "granting"} : Goto(i, stage)
    BY <1>3 DEF FindUser, CreateUser, StoreTokens
  <2>4. {"storing", "creating", "granting"} \subseteq Stages
    BY DEF Stages
  <2> QED BY <2>1, <2>2, <2>3, <2>4, GoesOn
<1>4. CASE LookUpTokens(i) \/ RenewTokens(i) \/ SaveTokens(i)
  <2>1. Keeps(i) /\ FlowsStay
    BY <1>4, RefreshKeeps, SameFlows DEF LookUpTokens, RenewTokens, SaveTokens
  <2>2. End(i) \/ \E stage \in {"renewing", "saving"} : Goto(i, stage)
    BY <1>4 DEF LookUpTokens, RenewTokens, SaveTokens
  <2>3. \A stage \in {"renewing", "saving"} :
            stage \in Stages /\ stage \notin Holders /\ stage \notin Passed
    BY DEF Stages, Holders, Passed
  <2> QED BY <2>1, <2>2, <2>3, GoesOn
<1>5. CASE LinkAccount(i) \/ IndexAccount(i) \/ DropLink(i) \/ DropIndex(i)
  <2>1. Keeps(i) /\ FlowsStay
    BY <1>5, LinkKeeps, UnlinkKeeps, SameFlows
       DEF LinkAccount, IndexAccount, DropLink, DropIndex
  <2>2. End(i) \/ \E stage \in {"indexing", "droppingLink", "droppingIndex"} : Goto(i, stage)
    BY <1>5 DEF LinkAccount, IndexAccount, DropLink, DropIndex
  <2>3. \A stage \in {"indexing", "droppingLink", "droppingIndex"} :
            stage \in Stages /\ stage \notin Holders /\ stage \notin Passed
    BY DEF Stages, Holders, Passed
  <2> QED BY <2>1, <2>2, <2>3, GoesOn
<1>6. CASE FindLink(i)
  <2>1. Keeps(i) /\ FlowsStay /\ Fits(attempts[i]) /\ attempts[i].op = "unlink"
    BY <1>6, UnlinkKeeps, SameFlows DEF FindLink
  <2>2. attempts'[i].stage \in {"idle", "unlinking"}
    <3> DEFINE k == links[attempts[i].user][attempts[i].provider]
    <3>1. attempts'[i] = IF k = None THEN Idle
                         ELSE [attempts[i] EXCEPT !.stage = "unlinking", !.account = k]
      BY <1>6 DEF FindLink, TInv, TypeOK
    <3>2. [attempts[i] EXCEPT !.stage = "unlinking", !.account = k].stage = "unlinking"
      BY DEF TInv, TypeOK, Attempt
    <3> HIDE DEF k
    <3> QED BY <3>1, <3>2, Fields
  <2>3. attempts'[i].stage \notin Holders /\ attempts'[i].stage \notin Passed
    BY <2>2 DEF Holders, Passed
  <2>4. StayIn(Holders) /\ StayIn(Passed)
    BY <2>1, <2>3 DEF StayIn, Keeps
  <2> QED BY <2>1, <2>4, KeepsAll, Stays
<1>7. CASE Fail(i)
  <2>1. Keeps(i) /\ FlowsStay
    BY <1>7, FailKeeps, SameFlows DEF Fail
  <2>2. End(i) \/ \E stage \in {"droppingLink", "droppingIndex"} : Goto(i, stage)
    BY <1>7 DEF Fail
  <2>3. \A stage \in {"droppingLink", "droppingIndex"} :
            stage \in Stages /\ stage \notin Holders /\ stage \notin Passed
    BY DEF Stages, Holders, Passed
  <2> QED BY <2>1, <2>2, <2>3, GoesOn
<1>8. CASE TimeOut(i)
  <2>1. PICK j \in Attempts : Retrying(i, j)
    BY <1>8, TimingOut DEF TInv, TypeOK
  <2>2. \A k \in Attempts : attempts'[k] = Idle \/ Fits(attempts'[k])
    BY <2>1, RetryKeeps
  <2>3. j # i => attempts'[j].stage \in {"reading", "looking", "linking", "resolving"}
    BY <2>1 DEF Retrying, Again
  <2>4. \A stage \in {"reading", "looking", "linking", "resolving"} :
            stage \notin Holders /\ stage \notin Passed
    BY DEF Holders, Passed
  <2>5. StayIn(Holders) /\ StayIn(Passed)
    BY <2>1, <2>3, <2>4 DEF StayIn, Retrying, Alike
  <2>6. FlowsStay
    BY <1>8, SameFlows DEF TimeOut
  <2> QED BY <2>1, <2>2, <2>5, <2>6, Stays DEF Retrying
<1> QED BY <1>1, <1>2, <1>3, <1>4, <1>5, <1>6, <1>7, <1>8, AfterDelete, AfterExchange,
           AfterGrant DEF Step

LEMMA AfterNext ==
    ASSUME TInv, Next
    PROVE  After
<1>1. ASSUME attempts' = attempts
      PROVE  /\ StayIn(Holders) /\ StayIn(Passed) /\ attempts' \in [Attempts -> Attempt]
             /\ \A k \in Attempts : attempts'[k] = Idle \/ Fits(attempts'[k])
  BY <1>1 DEF StayIn, TInv, TypeOK, Fitting
<1>2. CASE Initialize \/ (\E u \in Users, p \in Enabled : LapseTokens(u, p)) \/ UNCHANGED vars
  <2>1. attempts' = attempts /\ flows' = flows
    BY <1>2 DEF Initialize, LapseTokens, vars
  <2> QED BY <1>1, <2>1, SameFlows, Stays
<1>3. CASE \/ \E f \in Flows, p \in Enabled : GetAuthorizationUrl(f, p)
           \/ \E f \in Flows, u \in Users : Authorize(f, u)
           \/ \E f \in Flows : LapseState(f)
  <2>1. attempts' = attempts
    BY <1>3 DEF GetAuthorizationUrl, Authorize, LapseState
  <2>2. FlowsStay
    BY <1>3, StateStay DEF GetAuthorizationUrl
  <2> QED BY <1>1, <2>1, <2>2, Stays
<1>4. CASE Restart
  <2>1. attempts' = [i \in Attempts |-> Idle] /\ FlowsStay
    BY <1>4, SameFlows DEF Restart
  <2>2. StayIn(Holders) /\ StayIn(Passed)
    BY <2>1, Fields, Idling DEF StayIn
  <2> QED BY <2>1, <2>2, Fields, Stays
<1>5. ASSUME NEW i \in Attempts,
             \/ \E f \in Flows, p \in Enabled : HandleCallback(i, f, p)
             \/ \E u \in Users, p \in Enabled : RefreshProviderToken(i, u, p)
             \/ \E u \in Users, p \in Enabled, a \in Accounts : Link(i, u, a, p)
             \/ \E u \in Users, p \in Enabled : Unlink(i, u, p)
      PROVE  After
  <2>1. Keeps(i)
    BY <1>5, BeginningKeeps
  <2>2. FlowsStay
    BY <1>5, SameFlows DEF HandleCallback, RefreshProviderToken, Link, Unlink
  <2>3. attempts'[i].stage \in {"reading", "looking", "linking", "resolving"}
    BY <1>5 DEF HandleCallback, RefreshProviderToken, Link, Unlink, Begin, TInv, TypeOK
  <2>4. \A stage \in {"reading", "looking", "linking", "resolving"} :
            stage \notin Holders /\ stage \notin Passed
    BY DEF Holders, Passed
  <2>5. StayIn(Holders) /\ StayIn(Passed)
    BY <2>1, <2>3, <2>4 DEF StayIn, Keeps
  <2> QED BY <2>1, <2>2, <2>5, KeepsAll, Stays
<1> QED BY <1>2, <1>3, <1>4, <1>5, AfterStep, Cases

LEMMA TypesFirst ==
    ASSUME Init
    PROVE  TInv /\ StateSpent
<1>1. attempts = [i \in Attempts |-> Idle] /\ flows = [f \in Flows |-> NoFlow]
  BY DEF Init
<1>2. attempts \in [Attempts -> Attempt] /\ flows \in [Flows -> Flow]
  BY <1>1, Fields, FlowFields
<1>3. CodesOnce
  BY <1>1, Fields, FlowFields, Idling DEF CodesOnce
<1>4. Fitting
  BY <1>1, FlowFields, BoundsAssumption DEF Fitting, Init
<1>5. StateSpent
  BY <1>1, Fields, Idling DEF StateSpent
<1>6. TypeOK
  <2>1. excused \in BOOLEAN
    BY Zenon DEF Init
  <2>2. service \in {"starting", "ready", "off"} /\ starts \in 0..RetryAttempts
    BY BoundsAssumption DEF Init
  <2>3. /\ tokens \in [Users -> [Enabled -> TokenData \cup {None}]]
        /\ links \in [Users -> [Enabled -> Accounts \cup {None}]]
        /\ index \in [Enabled -> [Accounts -> Users \cup {None}]]
    BY DEF Init
  <2>4. known \in SUBSET Users /\ faults \in 0..MaxFaults /\ work \in Works
    BY BoundsAssumption DEF Init
  <2> QED BY <1>2, <2>1, <2>2, <2>3, <2>4 DEF TypeOK
<1> QED BY <1>3, <1>4, <1>5, <1>6 DEF TInv

LEMMA TypesNext ==
    ASSUME TInv /\ StateSpent, [Next]_vars
    PROVE  (TInv /\ StateSpent)'
<1>1. CASE Next
  <2>1. RestOK' /\ After
    BY <1>1, RestTyped, AfterNext
  <2> QED BY <2>1 DEF RestOK, After, TInv, TypeOK, Fitting
<1>2. CASE UNCHANGED vars
  BY <1>2 DEF vars, redis, bounds, TInv, TypeOK, Fitting, CodesOnce, StateSpent
<1> QED BY <1>1, <1>2
-----------------------------------------------------------------------------
(* Links.                                                                  *)

OpsOf(w) == IF w = "links" THEN {"link", "unlink"} ELSE {"callback", "refresh"}
WorkFits == \A i \in Attempts : attempts[i] = Idle \/ attempts[i].op \in OpsOf(work)

\* Attempt i is about account k that user u links at p.
About(i, u, p, k) ==
    attempts[i].user = u /\ attempts[i].provider = p /\ attempts[i].account = k

\* All attempts about links make the same request.
OneRequest ==
    \A i, j \in Attempts :
        attempts[i].op \in {"link", "unlink"} /\ attempts[j] # Idle =>
            /\ attempts[j].op = attempts[i].op /\ attempts[j].user = attempts[i].user
            /\ attempts[i].op = "link" => attempts[j].account = attempts[i].account

\* Where the links and the index differ, an attempt is about to write the other.
Pairs ==
    \A u \in Users, p \in Enabled, k \in Accounts :
        /\ links[u][p] = k /\ index[p][k] # u =>
               \E i \in Attempts : (/\ attempts[i].stage \in {"indexing", "droppingLink"}
                                    /\ About(i, u, p, k))
        /\ index[p][k] = u /\ links[u][p] # k =>
               \E i \in Attempts : (attempts[i].stage = "droppingIndex" /\ About(i, u, p, k))

\* What an attempt has done, and what it leaves to itself.
Halves ==
    \A i \in Attempts, u \in Users, p \in Enabled, k \in Accounts :
        /\ (attempts[i].stage = "indexing" /\ About(i, u, p, k)) =>
               links[u][p] = k /\ index[p][k] \in {None, u}
        /\ (attempts[i].stage \in Dropping /\ About(i, u, p, k)) =>
               links[u][p] \in {None, k} /\ index[p][k] \in {None, u}
        /\ (attempts[i].stage = "droppingLink" /\ About(i, u, p, k)) => index[p][k] = None
        /\ (attempts[i].stage = "droppingIndex" /\ About(i, u, p, k)) => links[u][p] = None

LInv == WorkFits /\ (~ excused => OneRequest /\ Pairs /\ Halves)

LEMMA WorkNext ==
    ASSUME TInv, WorkFits, Next
    PROVE  WorkFits' /\ work' = work
<1>0. work' = work
  BY Cases DEF Initialize, GetAuthorizationUrl, HandleCallback, RefreshProviderToken, Link,
       Unlink, Authorize, LapseState, LapseTokens, Restart, vars, Step, ReadState, DeleteState,
       ExchangeGoogle, ExchangeNative, ExchangeAxios, FetchUser, FindUser, CreateUser,
       StoreTokens, Grant, LookUpTokens, RenewTokens, SaveTokens, LinkAccount, IndexAccount,
       FindLink, DropLink, DropIndex, TimeOut, Fail, bounds
<1>1. ASSUME NEW i \in Attempts, Keeps(i), attempts[i] # Idle
      PROVE  WorkFits'
  BY <1>0, <1>1 DEF Keeps, WorkFits
<1>2. ASSUME NEW i \in Attempts, Step(i)
      PROVE  WorkFits'
  <2>1. CASE TimeOut(i)
    <3>1. PICK j \in Attempts : Retrying(i, j)
      BY <2>1, TimingOut DEF TInv, TypeOK
    <3>2. \A k \in Attempts : \/ attempts'[k].op = attempts[i].op
                              \/ attempts'[k] = attempts[k]
      BY <3>1 DEF Retrying, Again, Alike
    <3> QED BY <1>0, <3>1, <3>2 DEF WorkFits, Retrying
  <2>2. CASE ~ TimeOut(i)
    <3>1. Keeps(i)
      BY <1>2, <2>2, CallbackKeeps, RefreshKeeps, LinkKeeps, UnlinkKeeps, FailKeeps DEF Step
    <3>2. attempts[i] # Idle
      <4>1. CASE Fail(i)
        BY <4>1 DEF Fail
      <4>2. CASE ~ Fail(i)
        <5>1. Fits(attempts[i])
          BY <1>2, <2>2, <4>2, CallbackKeeps, RefreshKeeps, LinkKeeps, UnlinkKeeps DEF Step
        <5> QED BY <5>1, OpOfStage, Fields
      <4> QED BY <4>1, <4>2
    <3> QED BY <1>1, <3>1, <3>2
  <2> QED BY <2>1, <2>2
<1>3. ASSUME NEW i \in Attempts, NEW op \in OpsOf(work), Keeps(i), attempts'[i].op = op
      PROVE  WorkFits'
  BY <1>0, <1>3 DEF Keeps, WorkFits
<1>4. ASSUME NEW i \in Attempts,
             \/ \E f \in Flows, p \in Enabled : HandleCallback(i, f, p)
             \/ \E u \in Users, p \in Enabled : RefreshProviderToken(i, u, p)
             \/ \E u \in Users, p \in Enabled, a \in Accounts : Link(i, u, a, p)
             \/ \E u \in Users, p \in Enabled : Unlink(i, u, p)
      PROVE  WorkFits'
  <2>1. Keeps(i)
    BY <1>4, BeginningKeeps
  <2>2. attempts'[i].op \in OpsOf(work)
    BY <1>4 DEF HandleCallback, RefreshProviderToken, Link, Unlink, Begin, TInv, TypeOK, OpsOf
  <2> QED BY <1>3, <2>1, <2>2
<1>5. CASE Restart
  BY <1>5 DEF Restart, WorkFits
<1>6. ASSUME attempts' = attempts
      PROVE  WorkFits'
  BY <1>0, <1>6 DEF WorkFits
<1> QED BY <1>0, <1>2, <1>4, <1>5, <1>6, Cases
         DEF Initialize, GetAuthorizationUrl, Authorize, LapseState, LapseTokens, vars
LEMMA Untouching ==
    ASSUME NEW a, a = Idle \/ (Fits(a) /\ a.op \in {"callback", "refresh"})
    PROVE  a.stage # "indexing" /\ a.stage \notin Dropping /\ a.op \notin {"link", "unlink"}
<1>1. CASE a = Idle
  BY <1>1, Fields DEF Dropping
<1>2. CASE Fits(a) /\ a.op \in {"callback", "refresh"}
  BY <1>2, OpOfStage
<1> QED BY <1>1, <1>2

\* While flows are served, nothing is about links.
LEMMA InFlows ==
    ASSUME TInv, LInv, work # "links", WorkFits', work' = work,
           \A k \in Attempts : attempts'[k] = Idle \/ Fits(attempts'[k]),
           UNCHANGED <<links, index>>, excused => excused'
    PROVE  LInv'
<1>1. \A k \in Attempts : /\ attempts[k].stage # "indexing" /\ attempts[k].stage \notin Dropping
                          /\ attempts[k].op \notin {"link", "unlink"}
  BY Untouching DEF TInv, Fitting, LInv, WorkFits, OpsOf
<1>2. \A k \in Attempts : /\ attempts'[k].stage # "indexing" /\ attempts'[k].stage \notin Dropping
                          /\ attempts'[k].op \notin {"link", "unlink"}
  BY Untouching DEF WorkFits, OpsOf
<1>3. {"droppingLink", "droppingIndex"} \subseteq Dropping
  BY DEF Dropping
<1>4. OneRequest'
  BY <1>2 DEF OneRequest
<1>5. Halves'
  BY <1>2, <1>3 DEF Halves, About
<1>6. ASSUME ~ excused
      PROVE  Pairs'
  <2>1. \A u \in Users, p \in Enabled, k \in Accounts : links[u][p] = k <=> index[p][k] = u
    <3>1. Pairs
      BY <1>6 DEF LInv
    <3>2. \A k \in Attempts : attempts[k].stage \notin {"indexing", "droppingLink", "droppingIndex"}
      BY <1>1, <1>3
    <3> QED BY <3>1, <3>2 DEF Pairs
  <2> QED BY <2>1 DEF Pairs
<1> QED BY <1>4, <1>5, <1>6 DEF LInv

\* The steps of attempts about links, of which there has been one request.
Linking == TInv /\ OneRequest /\ Pairs /\ Halves

\* An attempt that goes on has the request that it had.
LEMMA SameRequest ==
    ASSUME OneRequest,
           \A k \in Attempts : \/ attempts'[k] = Idle
                               \/ /\ attempts[k] # Idle
                                  /\ attempts'[k].op = attempts[k].op
                                  /\ attempts'[k].user = attempts[k].user
                                  /\ attempts[k].op = "link" =>
                                         attempts'[k].account = attempts[k].account
    PROVE  OneRequest'
<1>1. \A k \in Attempts : attempts'[k].op \in {"link", "unlink"} => attempts'[k] # Idle
  BY Fields
<1> QED BY <1>1 DEF OneRequest

\* The others make the same request as attempt i.
LEMMA Fellows ==
    ASSUME Linking, NEW i \in Attempts, Fits(attempts[i]), attempts[i].op \in {"link", "unlink"}
    PROVE  \A j \in Attempts : attempts[j].stage # "idle" =>
               /\ Fits(attempts[j]) /\ attempts[j].user = attempts[i].user
               /\ attempts[i].op = "link" =>
                      /\ attempts[j].stage \in {"linking", "indexing"}
                      /\ attempts[j].account = attempts[i].account
               /\ attempts[i].op = "unlink" => attempts[j].stage \in {"resolving"} \cup Dropping
<1>1. ASSUME NEW j \in Attempts, attempts[j].stage # "idle"
      PROVE  /\ Fits(attempts[j]) /\ attempts[j].op = attempts[i].op
             /\ attempts[j].user = attempts[i].user
             /\ attempts[i].op = "link" => attempts[j].account = attempts[i].account
  BY <1>1, Busy DEF Linking, OneRequest
<1>2. \A a : Fits(a) /\ a.op = "link" => a.stage \in {"linking", "indexing"}
  BY Words DEF Fits
<1>3. \A a : Fits(a) /\ a.op = "unlink" => a.stage \in {"resolving"} \cup Dropping
  BY Words DEF Fits, Dropping
<1> QED BY <1>1, <1>2, <1>3

LEMMA LinkAccountStep ==
    ASSUME Linking, NEW i \in Attempts, LinkAccount(i), ~ excused'
    PROVE  (OneRequest /\ Pairs /\ Halves)'
<1> DEFINE u == attempts[i].user
           p == attempts[i].provider
           k == attempts[i].account
<1>1. Fits(attempts[i]) /\ attempts[i].op = "link" /\ attempts[i].stage = "linking"
  BY LinkKeeps DEF LinkAccount, At, Linking
<1>2. u \in Users /\ p \in Enabled /\ k \in Accounts
  BY <1>1 DEF Fits
<1>3. links[u][p] \in {None, k} /\ index[p][k] \in {None, u}
  BY DEF LinkAccount, Displaces
<1>4. links' = [links EXCEPT ![u][p] = k] /\ index' = index
  BY DEF LinkAccount
<1>5. /\ attempts'[i].stage = "indexing" /\ attempts'[i].op = "link"
      /\ attempts'[i].user = u /\ attempts'[i].provider = p /\ attempts'[i].account = k
      /\ \A j \in Attempts \ {i} : attempts'[j] = attempts[j]
  <2>1. Goto(i, "indexing") /\ "indexing" \in Stages
    BY DEF LinkAccount, Stages
  <2> QED BY <1>1, <2>1, Going DEF Linking, TInv, TypeOK, Alike
<1>6. \A j \in Attempts : attempts[j].stage # "idle" =>
          /\ attempts[j].user = u /\ attempts[j].account = k
          /\ attempts[j].stage \in {"linking", "indexing"}
  BY <1>1, Fellows
<1>7. OneRequest'
  BY <1>1, <1>5, SameRequest, Fields DEF Linking
<1> HIDE DEF u, p, k
<1>8. /\ links'[u][p] = k /\ index' = index
      /\ \A v \in Users, q \in Enabled : v # u \/ q # p => links'[v][q] = links[v][q]
  BY <1>2, <1>4 DEF Linking, TInv, TypeOK
<1>9. Pairs'
  <2>1. ASSUME NEW v \in Users, NEW q \in Enabled, NEW l \in Accounts,
               links'[v][q] = l, index'[q][l] # v
        PROVE  \E j \in Attempts : (/\ attempts[j].stage \in {"indexing", "droppingLink"}
                                      /\ About(j, v, q, l))'
    <3>1. CASE v = u /\ q = p
      BY <1>5, <1>8, <2>1, <3>1 DEF About
    <3>2. CASE v # u \/ q # p
      <4>1. PICK j \in Attempts : (/\ attempts[j].stage \in {"indexing", "droppingLink"}
                                     /\ About(j, v, q, l))
        <5>1. links[v][q] = l /\ index[q][l] # v
          BY <1>8, <2>1, <3>2
        <5> QED BY <5>1 DEF Linking, Pairs
      <4>2. j # i
        BY <1>1, <4>1 DEF About
      <4> QED BY <1>5, <4>1, <4>2 DEF About
    <3> QED BY <3>1, <3>2
  <2>2. ASSUME NEW v \in Users, NEW q \in Enabled, NEW l \in Accounts,
               index'[q][l] = v, links'[v][q] # l
        PROVE  FALSE
    <3>1. links[v][q] # l
      BY <1>3, <1>8, <2>2, NoneAssumption
    <3>2. PICK j \in Attempts : (attempts[j].stage = "droppingIndex" /\ About(j, v, q, l))
      BY <1>8, <2>2, <3>1 DEF Linking, Pairs
    <3> QED BY <1>6, <3>2 DEF About
  <2> QED BY <2>1, <2>2 DEF Pairs
<1>10. Halves'
  <2>1. \A j \in Attempts : attempts'[j].stage \notin Dropping
    BY <1>5, <1>6 DEF Dropping
  <2>2. ASSUME NEW j \in Attempts, NEW v \in Users, NEW q \in Enabled, NEW l \in Accounts,
               (attempts[j].stage = "indexing" /\ About(j, v, q, l))'
        PROVE  links'[v][q] = l /\ index'[q][l] \in {None, v}
    <3>1. v = u /\ l = k
      BY <1>5, <1>6, <2>2 DEF About
    <3>2. CASE q = p
      BY <1>3, <1>8, <3>1, <3>2
    <3>3. CASE q # p
      <4>1. j # i
        BY <1>5, <2>2, <3>3 DEF About
      <4>2. (attempts[j].stage = "indexing" /\ About(j, v, q, l))
        BY <1>5, <2>2, <4>1 DEF About
      <4>3. links[v][q] = l /\ index[q][l] \in {None, v}
        BY <4>2 DEF Linking, Halves
      <4> QED BY <1>8, <3>3, <4>3
    <3> QED BY <3>2, <3>3
  <2>3. {"droppingLink", "droppingIndex"} \subseteq Dropping
    BY DEF Dropping
  <2>4. \A j \in Attempts : attempts'[j].stage \notin {"droppingLink", "droppingIndex"}
    BY <2>1, <2>3
  <2> QED BY <2>1, <2>2, <2>4 DEF Halves
<1> QED BY <1>7, <1>9, <1>10
LEMMA IndexAccountStep ==
    ASSUME Linking, NEW i \in Attempts, IndexAccount(i)
    PROVE  (OneRequest /\ Pairs /\ Halves)'
<1> DEFINE u == attempts[i].user
           p == attempts[i].provider
           k == attempts[i].account
<1>1. Fits(attempts[i]) /\ attempts[i].op = "link" /\ attempts[i].stage = "indexing"
  BY LinkKeeps DEF IndexAccount, At, Linking
<1>2. u \in Users /\ p \in Enabled /\ k \in Accounts
  BY <1>1 DEF Fits
<1>3. links[u][p] = k /\ index[p][k] \in {None, u}
  BY <1>1, <1>2 DEF Linking, Halves, About
<1>4. links' = links /\ index' = [index EXCEPT ![p][k] = u]
  BY DEF IndexAccount
<1>5. attempts'[i] = Idle /\ \A j \in Attempts \ {i} : attempts'[j] = attempts[j]
  BY Ending DEF IndexAccount, Linking, TInv, TypeOK
<1>6. \A j \in Attempts : attempts[j].stage # "idle" =>
          /\ attempts[j].user = u /\ attempts[j].account = k
          /\ attempts[j].stage \in {"linking", "indexing"}
  BY <1>1, Fellows
<1>7. OneRequest'
  <2>1. \A j \in Attempts : \/ attempts'[j] = Idle
                            \/ attempts[j] # Idle /\ attempts'[j] = attempts[j]
    BY <1>5
  <2> QED BY <2>1, SameRequest DEF Linking
<1>8. attempts[i].user = u /\ attempts[i].provider = p /\ attempts[i].account = k
  OBVIOUS
<1> HIDE DEF u, p, k
<1>9. /\ index'[p][k] = u /\ links' = links
      /\ \A q \in Enabled, l \in Accounts : q # p \/ l # k => index'[q][l] = index[q][l]
  BY <1>2, <1>4 DEF Linking, TInv, TypeOK
<1>10. Pairs'
  <2>1. ASSUME NEW v \in Users, NEW q \in Enabled, NEW l \in Accounts,
               links'[v][q] = l, index'[q][l] # v
        PROVE  \E j \in Attempts :
                   (attempts[j].stage \in {"indexing", "droppingLink"} /\ About(j, v, q, l))'
    <3>1. index[q][l] # v
      BY <1>2, <1>3, <1>9, <2>1, NoneAssumption
    <3>2. PICK j \in Attempts : /\ attempts[j].stage \in {"indexing", "droppingLink"}
                                /\ About(j, v, q, l)
      BY <1>9, <2>1, <3>1 DEF Linking, Pairs
    <3>3. v = u
      BY <1>6, <3>2 DEF About
    <3>4. j # i
      BY <1>8, <1>9, <2>1, <3>2, <3>3 DEF About
    <3> QED BY <1>5, <3>2, <3>4 DEF About
  <2>2. ASSUME NEW v \in Users, NEW q \in Enabled, NEW l \in Accounts,
               index'[q][l] = v, links'[v][q] # l
        PROVE  FALSE
    <3>1. index[q][l] = v
      BY <1>3, <1>9, <2>2
    <3>2. PICK j \in Attempts : attempts[j].stage = "droppingIndex" /\ About(j, v, q, l)
      BY <1>9, <2>2, <3>1 DEF Linking, Pairs
    <3> QED BY <1>6, <3>2
  <2> QED BY <2>1, <2>2 DEF Pairs
<1>11. Halves'
  <2>1. \A j \in Attempts : attempts'[j].stage \notin {"unlinking", "droppingLink", "droppingIndex"}
    BY <1>5, <1>6, Fields
  <2>2. ASSUME NEW j \in Attempts, NEW v \in Users, NEW q \in Enabled, NEW l \in Accounts,
               attempts'[j].stage = "indexing", About(j, v, q, l)'
        PROVE  links'[v][q] = l /\ index'[q][l] \in {None, v}
    <3>1. j # i /\ attempts[j].stage = "indexing" /\ About(j, v, q, l)
      BY <1>5, <2>2, Fields DEF About
    <3>2. links[v][q] = l /\ index[q][l] \in {None, v} /\ v = u
      BY <1>6, <3>1 DEF Linking, Halves, About
    <3> QED BY <1>9, <3>2
  <2> QED BY <2>1, <2>2 DEF Halves, Dropping
<1> QED BY <1>7, <1>10, <1>11

LEMMA FindLinkStep ==
    ASSUME Linking, NEW i \in Attempts, FindLink(i)
    PROVE  (OneRequest /\ Pairs /\ Halves)'
<1> DEFINE u == attempts[i].user
           p == attempts[i].provider
           k == links[u][p]
<1>1. Fits(attempts[i]) /\ attempts[i].op = "unlink" /\ attempts[i].stage = "resolving"
  BY UnlinkKeeps DEF FindLink, At, Linking
<1>2. u \in Users /\ p \in Enabled /\ k \in Accounts \cup {None}
  BY <1>1 DEF Fits, Linking, TInv, TypeOK
<1>3. links' = links /\ index' = index
  BY DEF FindLink, redis
<1>4. /\ \/ k = None /\ attempts'[i] = Idle
         \/ /\ k \in Accounts /\ attempts'[i].op = "unlink" /\ attempts'[i].stage = "unlinking"
            /\ attempts'[i].user = u /\ attempts'[i].provider = p /\ attempts'[i].account = k
      /\ \A j \in Attempts \ {i} : attempts'[j] = attempts[j]
  <2>1. attempts' = [attempts EXCEPT ![i] =
            IF k = None THEN Idle ELSE [attempts[i] EXCEPT !.stage = "unlinking", !.account = k]]
    BY DEF FindLink
  <2>2. attempts \in [Attempts -> Attempt]
    BY DEF Linking, TInv, TypeOK
  <2>3. attempts[i].user = u /\ attempts[i].provider = p
    OBVIOUS
  <2> HIDE DEF u, p, k
  <2>4. CASE k = None
    BY <2>1, <2>2, <2>4
  <2>5. CASE k # None
    <3>1. attempts' = [attempts EXCEPT ![i] =
              [attempts[i] EXCEPT !.stage = "unlinking", !.account = k]]
      BY <2>1, <2>5
    <3> QED BY <1>1, <1>2, <2>2, <2>3, <2>5, <3>1, Found DEF Alike
  <2> QED BY <2>4, <2>5
<1>5. \A j \in Attempts : attempts[j].stage # "idle" =>
          /\ attempts[j].user = u
          /\ attempts[j].stage \in {"resolving", "unlinking", "droppingLink", "droppingIndex"}
  BY <1>1, Fellows DEF Dropping
<1>6. OneRequest'
  <2>1. attempts[i] # Idle /\ attempts[i].user = u
    BY <1>1, Fields
  <2>2. \A j \in Attempts : \/ attempts'[j] = Idle
                            \/ attempts[j] # Idle /\ attempts'[j] = attempts[j]
                            \/ /\ attempts[j] # Idle /\ attempts[j].op = "unlink"
                               /\ attempts'[j].op = "unlink"
                               /\ attempts'[j].user = attempts[j].user
    BY <1>1, <1>4, <2>1
  <2> QED BY <2>2, SameRequest DEF Linking
<1>7. k = links[u][p]
  OBVIOUS
<1> HIDE DEF u, p, k
<1>8. Pairs'
  <2>1. ASSUME NEW v \in Users, NEW q \in Enabled, NEW l \in Accounts,
               links'[v][q] = l, index'[q][l] # v
        PROVE  \E j \in Attempts :
                   (attempts[j].stage \in {"indexing", "droppingLink"} /\ About(j, v, q, l))'
    <3>1. PICK j \in Attempts : /\ attempts[j].stage \in {"indexing", "droppingLink"}
                                /\ About(j, v, q, l)
      BY <1>3, <2>1 DEF Linking, Pairs
    <3>2. j # i
      BY <1>1, <3>1
    <3> QED BY <1>4, <3>1, <3>2 DEF About
  <2>2. ASSUME NEW v \in Users, NEW q \in Enabled, NEW l \in Accounts,
               index'[q][l] = v, links'[v][q] # l
        PROVE  \E j \in Attempts : (attempts[j].stage = "droppingIndex" /\ About(j, v, q, l))'
    <3>1. PICK j \in Attempts : attempts[j].stage = "droppingIndex" /\ About(j, v, q, l)
      BY <1>3, <2>2 DEF Linking, Pairs
    <3>2. j # i
      BY <1>1, <3>1
    <3> QED BY <1>4, <3>1, <3>2 DEF About
  <2> QED BY <2>1, <2>2 DEF Pairs
<1>9. k \in Accounts => index[p][k] \in {None, u}
  <2>1. SUFFICES ASSUME k \in Accounts, index[p][k] # u
                 PROVE  index[p][k] = None
    OBVIOUS
  <2>2. PICK j \in Attempts : /\ attempts[j].stage \in {"indexing", "droppingLink"}
                              /\ About(j, u, p, k)
    BY <1>2, <1>7, <2>1 DEF Linking, Pairs
  <2>3. attempts[j].stage = "droppingLink"
    BY <1>5, <2>2
  <2> QED BY <1>2, <2>1, <2>2, <2>3 DEF Linking, Halves
<1>10. Halves'
  <2>1. ASSUME NEW j \in Attempts, NEW v \in Users, NEW q \in Enabled, NEW l \in Accounts,
               About(j, v, q, l)'
        PROVE  /\ attempts'[j].stage # "indexing"
               /\ attempts'[j].stage \in Dropping =>
                      links'[v][q] \in {None, l} /\ index'[q][l] \in {None, v}
               /\ attempts'[j].stage = "droppingLink" => index'[q][l] = None
               /\ attempts'[j].stage = "droppingIndex" => links'[v][q] = None
    <3>1. CASE j # i
      <4>1. attempts'[j] = attempts[j] /\ About(j, v, q, l)
        BY <1>4, <2>1, <3>1 DEF About
      <4>2. attempts[j].stage # "indexing"
        BY <1>5
      <4> QED BY <1>3, <4>1, <4>2 DEF Linking, Halves
    <3>2. CASE j = i /\ attempts'[i] = Idle
      BY <3>2, Fields DEF Dropping
    <3>3. CASE j = i /\ attempts'[i] # Idle
      <4>1. v = u /\ q = p /\ l = k /\ attempts'[j].stage = "unlinking"
        BY <1>4, <2>1, <3>3 DEF About
      <4> QED BY <1>3, <1>7, <1>9, <2>1, <4>1
    <3> QED BY <3>1, <3>2, <3>3
  <2> QED BY <2>1 DEF Halves
<1> QED BY <1>6, <1>8, <1>10
LEMMA DropLinkStep ==
    ASSUME Linking, NEW i \in Attempts, DropLink(i)
    PROVE  (OneRequest /\ Pairs /\ Halves)'
<1> DEFINE u == attempts[i].user
           p == attempts[i].provider
           k == attempts[i].account
<1>1. /\ Fits(attempts[i]) /\ attempts[i].op = "unlink"
      /\ attempts[i].stage \in {"unlinking", "droppingLink"}
  BY UnlinkKeeps DEF DropLink, Linking
<1>2. u \in Users /\ p \in Enabled /\ k \in Accounts
  BY <1>1 DEF Fits, Dropping
<1>3. /\ links[u][p] \in {None, k} /\ index[p][k] \in {None, u}
      /\ attempts[i].stage = "droppingLink" => index[p][k] = None
  BY <1>1, <1>2 DEF Linking, Halves, About, Dropping
<1>4. links' = [links EXCEPT ![u][p] = None] /\ index' = index
  BY DEF DropLink
<1>5. /\ attempts[i].stage = "unlinking" =>
             /\ attempts'[i].op = "unlink" /\ attempts'[i].stage = "droppingIndex"
             /\ attempts'[i].user = u /\ attempts'[i].provider = p /\ attempts'[i].account = k
      /\ attempts[i].stage # "unlinking" => attempts'[i] = Idle
      /\ \A j \in Attempts \ {i} : attempts'[j] = attempts[j]
  <2>1. CASE attempts[i].stage = "unlinking"
    <3>1. Goto(i, "droppingIndex") /\ "droppingIndex" \in Stages
      BY <2>1 DEF DropLink, Stages
    <3> QED BY <1>1, <2>1, <3>1, Going DEF Linking, TInv, TypeOK, Alike
  <2>2. CASE attempts[i].stage # "unlinking"
    BY <2>2, Ending DEF DropLink, Linking, TInv, TypeOK
  <2> QED BY <2>1, <2>2
<1>6. \A j \in Attempts : attempts[j].stage # "idle" =>
          /\ attempts[j].user = u
          /\ attempts[j].stage \in {"resolving", "unlinking", "droppingLink", "droppingIndex"}
  BY <1>1, Fellows DEF Dropping
<1>7. OneRequest'
  <2>1. attempts[i] # Idle /\ attempts[i].user = u
    BY <1>1, Fields
  <2>2. \A j \in Attempts : \/ attempts'[j] = Idle
                            \/ attempts[j] # Idle /\ attempts'[j] = attempts[j]
                            \/ /\ attempts[j] # Idle /\ attempts[j].op = "unlink"
                               /\ attempts'[j].op = "unlink"
                               /\ attempts'[j].user = attempts[j].user
    BY <1>1, <1>5, <2>1
  <2> QED BY <2>2, SameRequest DEF Linking
<1>8. attempts[i].user = u /\ attempts[i].provider = p /\ attempts[i].account = k
  OBVIOUS
<1> HIDE DEF u, p, k
<1>9. /\ links'[u][p] = None /\ index' = index
      /\ \A v \in Users, q \in Enabled : v # u \/ q # p => links'[v][q] = links[v][q]
  BY <1>2, <1>4 DEF Linking, TInv, TypeOK
<1>10. Pairs'
  <2>1. ASSUME NEW v \in Users, NEW q \in Enabled, NEW l \in Accounts,
               links'[v][q] = l, index'[q][l] # v
        PROVE  \E j \in Attempts :
                   (attempts[j].stage \in {"indexing", "droppingLink"} /\ About(j, v, q, l))'
    <3>1. v # u \/ q # p
      BY <1>9, <2>1, NoneAssumption
    <3>2. PICK j \in Attempts : /\ attempts[j].stage \in {"indexing", "droppingLink"}
                                /\ About(j, v, q, l)
      BY <1>9, <2>1, <3>1 DEF Linking, Pairs
    <3>3. j # i
      BY <1>8, <3>1, <3>2 DEF About
    <3> QED BY <1>5, <3>2, <3>3 DEF About
  <2>2. ASSUME NEW v \in Users, NEW q \in Enabled, NEW l \in Accounts,
               index'[q][l] = v, links'[v][q] # l
        PROVE  \E j \in Attempts : (attempts[j].stage = "droppingIndex" /\ About(j, v, q, l))'
    <3>1. CASE v = u /\ q = p /\ l = k
      <4>1. attempts[i].stage = "unlinking"
        BY <1>1, <1>2, <1>3, <1>9, <2>2, <3>1, NoneAssumption
      <4> QED BY <1>5, <3>1, <4>1 DEF About
    <3>2. CASE ~ (v = u /\ q = p /\ l = k)
      <4>1. links[v][q] # l
        BY <1>3, <1>9, <2>2, <3>2, NoneAssumption
      <4>2. PICK j \in Attempts : attempts[j].stage = "droppingIndex" /\ About(j, v, q, l)
        BY <1>9, <2>2, <4>1 DEF Linking, Pairs
      <4>3. j # i
        BY <1>8, <3>2, <4>2 DEF About
      <4> QED BY <1>5, <4>2, <4>3 DEF About
    <3> QED BY <3>1, <3>2
  <2> QED BY <2>1, <2>2 DEF Pairs
<1>11. Halves'
  <2>1. ASSUME NEW j \in Attempts, NEW v \in Users, NEW q \in Enabled, NEW l \in Accounts,
               About(j, v, q, l)'
        PROVE  /\ attempts'[j].stage # "indexing"
               /\ attempts'[j].stage \in Dropping =>
                      links'[v][q] \in {None, l} /\ index'[q][l] \in {None, v}
               /\ attempts'[j].stage = "droppingLink" => index'[q][l] = None
               /\ attempts'[j].stage = "droppingIndex" => links'[v][q] = None
    <3>1. CASE j # i
      <4>1. attempts'[j] = attempts[j] /\ About(j, v, q, l)
        BY <1>5, <2>1, <3>1 DEF About
      <4>2. attempts[j].stage # "indexing"
        BY <1>6
      <4>3. links'[v][q] = None \/ links'[v][q] = links[v][q]
        BY <1>9
      <4> QED BY <1>9, <4>1, <4>2, <4>3 DEF Linking, Halves
    <3>2. CASE j = i /\ attempts'[i] = Idle
      BY <3>2, Fields DEF Dropping
    <3>3. CASE j = i /\ attempts[i].stage = "unlinking"
      <4>1. v = u /\ q = p /\ l = k /\ attempts'[j].stage = "droppingIndex"
        BY <1>5, <2>1, <3>3 DEF About
      <4> QED BY <1>3, <1>9, <4>1
    <3> QED BY <1>5, <3>1, <3>2, <3>3
  <2> QED BY <2>1 DEF Halves
<1> QED BY <1>7, <1>10, <1>11

LEMMA DropIndexStep ==
    ASSUME Linking, NEW i \in Attempts, DropIndex(i)
    PROVE  (OneRequest /\ Pairs /\ Halves)'
<1> DEFINE u == attempts[i].user
           p == attempts[i].provider
           k == attempts[i].account
<1>1. /\ Fits(attempts[i]) /\ attempts[i].op = "unlink"
      /\ attempts[i].stage \in {"unlinking", "droppingIndex"}
  BY UnlinkKeeps DEF DropIndex, Linking
<1>2. u \in Users /\ p \in Enabled /\ k \in Accounts
  BY <1>1 DEF Fits, Dropping
<1>3. /\ links[u][p] \in {None, k} /\ index[p][k] \in {None, u}
      /\ attempts[i].stage = "droppingIndex" => links[u][p] = None
  BY <1>1, <1>2 DEF Linking, Halves, About, Dropping
<1>4. links' = links /\ index' = [index EXCEPT ![p][k] = None]
  BY DEF DropIndex
<1>5. /\ attempts[i].stage = "unlinking" =>
             /\ attempts'[i].op = "unlink" /\ attempts'[i].stage = "droppingLink"
             /\ attempts'[i].user = u /\ attempts'[i].provider = p /\ attempts'[i].account = k
      /\ attempts[i].stage # "unlinking" => attempts'[i] = Idle
      /\ \A j \in Attempts \ {i} : attempts'[j] = attempts[j]
  <2>1. CASE attempts[i].stage = "unlinking"
    <3>1. Goto(i, "droppingLink") /\ "droppingLink" \in Stages
      BY <2>1 DEF DropIndex, Stages
    <3> QED BY <1>1, <2>1, <3>1, Going DEF Linking, TInv, TypeOK, Alike
  <2>2. CASE attempts[i].stage # "unlinking"
    BY <2>2, Ending DEF DropIndex, Linking, TInv, TypeOK
  <2> QED BY <2>1, <2>2
<1>6. \A j \in Attempts : attempts[j].stage # "idle" =>
          /\ attempts[j].user = u
          /\ attempts[j].stage \in {"resolving", "unlinking", "droppingLink", "droppingIndex"}
  BY <1>1, Fellows DEF Dropping
<1>7. OneRequest'
  <2>1. attempts[i] # Idle /\ attempts[i].user = u
    BY <1>1, Fields
  <2>2. \A j \in Attempts : \/ attempts'[j] = Idle
                            \/ attempts[j] # Idle /\ attempts'[j] = attempts[j]
                            \/ /\ attempts[j] # Idle /\ attempts[j].op = "unlink"
                               /\ attempts'[j].op = "unlink"
                               /\ attempts'[j].user = attempts[j].user
    BY <1>1, <1>5, <2>1
  <2> QED BY <2>2, SameRequest DEF Linking
<1>8. attempts[i].user = u /\ attempts[i].provider = p /\ attempts[i].account = k
  OBVIOUS
<1> HIDE DEF u, p, k
<1>9. /\ index'[p][k] = None /\ links' = links
      /\ \A q \in Enabled, l \in Accounts : q # p \/ l # k => index'[q][l] = index[q][l]
  BY <1>2, <1>4 DEF Linking, TInv, TypeOK
<1>10. Pairs'
  <2>1. ASSUME NEW v \in Users, NEW q \in Enabled, NEW l \in Accounts,
               links'[v][q] = l, index'[q][l] # v
        PROVE  \E j \in Attempts :
                   (attempts[j].stage \in {"indexing", "droppingLink"} /\ About(j, v, q, l))'
    <3>1. CASE v = u /\ q = p /\ l = k
      <4>1. attempts[i].stage = "unlinking"
        BY <1>1, <1>2, <1>3, <1>9, <2>1, <3>1, NoneAssumption
      <4> QED BY <1>5, <3>1, <4>1 DEF About
    <3>2. CASE ~ (v = u /\ q = p /\ l = k)
      <4>1. index[q][l] # v
        BY <1>3, <1>9, <2>1, <3>2, NoneAssumption
      <4>2. PICK j \in Attempts : /\ attempts[j].stage \in {"indexing", "droppingLink"}
                                  /\ About(j, v, q, l)
        BY <1>9, <2>1, <4>1 DEF Linking, Pairs
      <4>3. j # i
        BY <1>1, <4>2
      <4> QED BY <1>5, <4>2, <4>3 DEF About
    <3> QED BY <3>1, <3>2
  <2>2. ASSUME NEW v \in Users, NEW q \in Enabled, NEW l \in Accounts,
               index'[q][l] = v, links'[v][q] # l
        PROVE  \E j \in Attempts : (attempts[j].stage = "droppingIndex" /\ About(j, v, q, l))'
    <3>1. q # p \/ l # k
      BY <1>9, <2>2, NoneAssumption
    <3>2. PICK j \in Attempts : attempts[j].stage = "droppingIndex" /\ About(j, v, q, l)
      BY <1>9, <2>2, <3>1 DEF Linking, Pairs
    <3>3. j # i
      BY <1>8, <3>1, <3>2 DEF About
    <3> QED BY <1>5, <3>2, <3>3 DEF About
  <2> QED BY <2>1, <2>2 DEF Pairs
<1>11. Halves'
  <2>1. ASSUME NEW j \in Attempts, NEW v \in Users, NEW q \in Enabled, NEW l \in Accounts,
               About(j, v, q, l)'
        PROVE  /\ attempts'[j].stage # "indexing"
               /\ attempts'[j].stage \in Dropping =>
                      links'[v][q] \in {None, l} /\ index'[q][l] \in {None, v}
               /\ attempts'[j].stage = "droppingLink" => index'[q][l] = None
               /\ attempts'[j].stage = "droppingIndex" => links'[v][q] = None
    <3>1. CASE j # i
      <4>1. attempts'[j] = attempts[j] /\ About(j, v, q, l)
        BY <1>5, <2>1, <3>1 DEF About
      <4>2. attempts[j].stage # "indexing"
        BY <1>6
      <4>3. index'[q][l] = None \/ index'[q][l] = index[q][l]
        BY <1>9
      <4> QED BY <1>9, <4>1, <4>2, <4>3 DEF Linking, Halves
    <3>2. CASE j = i /\ attempts'[i] = Idle
      BY <3>2, Fields DEF Dropping
    <3>3. CASE j = i /\ attempts[i].stage = "unlinking"
      <4>1. v = u /\ q = p /\ l = k /\ attempts'[j].stage = "droppingLink"
        BY <1>5, <2>1, <3>3 DEF About
      <4> QED BY <1>3, <1>9, <4>1
    <3> QED BY <1>5, <3>1, <3>2, <3>3
  <2> QED BY <2>1 DEF Halves
<1> QED BY <1>7, <1>10, <1>11
\* Nothing is written, and the attempts that have something to write stay.
LEMMA Standing ==
    ASSUME Pairs, Halves, UNCHANGED <<links, index>>,
           \A j \in Attempts :
               \/ /\ attempts'[j].stage = attempts[j].stage /\ attempts'[j].user = attempts[j].user
                  /\ attempts'[j].provider = attempts[j].provider
                  /\ attempts'[j].account = attempts[j].account
               \/ /\ attempts[j].stage \notin {"indexing"} \cup Dropping
                  /\ attempts'[j].stage \notin {"indexing"} \cup Dropping
    PROVE  (Pairs /\ Halves)'
<1>1. \A j \in Attempts, u \in Users, p \in Enabled, k \in Accounts :
          attempts[j].stage \in {"indexing"} \cup Dropping /\ About(j, u, p, k) =>
              attempts'[j].stage = attempts[j].stage /\ About(j, u, p, k)'
  BY DEF About
<1>2. \A j \in Attempts, u \in Users, p \in Enabled, k \in Accounts :
          attempts'[j].stage \in {"indexing"} \cup Dropping /\ About(j, u, p, k)' =>
              attempts'[j].stage = attempts[j].stage /\ About(j, u, p, k)
  BY DEF About
<1>3. links' = links /\ index' = index
  OBVIOUS
<1>4. Pairs'
  <2>1. ASSUME NEW u \in Users, NEW p \in Enabled, NEW k \in Accounts
        PROVE  /\ links'[u][p] = k /\ index'[p][k] # u =>
                      \E j \in Attempts : (/\ attempts[j].stage \in {"indexing", "droppingLink"}
                                           /\ About(j, u, p, k))'
               /\ index'[p][k] = u /\ links'[u][p] # k =>
                      \E j \in Attempts : (/\ attempts[j].stage = "droppingIndex"
                                           /\ About(j, u, p, k))'
    <3>1. CASE links[u][p] = k /\ index[p][k] # u
      <4>1. PICK j \in Attempts : /\ attempts[j].stage \in {"indexing", "droppingLink"}
                                  /\ About(j, u, p, k)
        BY <3>1 DEF Pairs
      <4> QED BY <1>1, <1>3, <3>1, <4>1 DEF Dropping
    <3>2. CASE index[p][k] = u /\ links[u][p] # k
      <4>1. PICK j \in Attempts : attempts[j].stage = "droppingIndex" /\ About(j, u, p, k)
        BY <3>2 DEF Pairs
      <4> QED BY <1>1, <1>3, <3>2, <4>1 DEF Dropping
    <3> QED BY <1>3, <3>1, <3>2
  <2> QED BY <2>1 DEF Pairs
<1>5. Halves'
  <2>1. ASSUME NEW j \in Attempts, NEW u \in Users, NEW p \in Enabled, NEW k \in Accounts,
               attempts'[j].stage \in {"indexing"} \cup Dropping, About(j, u, p, k)'
        PROVE  /\ attempts'[j].stage = "indexing" =>
                      links'[u][p] = k /\ index'[p][k] \in {None, u}
               /\ attempts'[j].stage \in Dropping =>
                      links'[u][p] \in {None, k} /\ index'[p][k] \in {None, u}
               /\ attempts'[j].stage = "droppingLink" => index'[p][k] = None
               /\ attempts'[j].stage = "droppingIndex" => links'[u][p] = None
    <3>1. attempts'[j].stage = attempts[j].stage /\ About(j, u, p, k)
      BY <1>2, <2>1
    <3> QED BY <1>3, <3>1 DEF Halves
  <2> QED BY <2>1 DEF Halves, Dropping
<1> QED BY <1>4, <1>5

LEMMA RequestStep ==
    ASSUME Linking, NEW i \in Attempts, NEW u \in Users, NEW p \in Enabled,
           (\E k \in Accounts : Link(i, u, k, p)) \/ Unlink(i, u, p), ~ excused'
    PROVE  (OneRequest /\ Pairs /\ Halves)'
<1>1. /\ attempts[i] = Idle /\ attempts \in [Attempts -> Attempt]
      /\ attempts'[i].stage \in {"linking", "resolving"}
      /\ \A j \in Attempts \ {i} : attempts'[j] = attempts[j]
  BY DEF Link, Unlink, Begin, Linking, TInv, TypeOK
<1>2. (Pairs /\ Halves)'
  <2>1. UNCHANGED <<links, index>>
    BY DEF Link, Unlink, redis
  <2>2. /\ attempts[i].stage \notin {"indexing"} \cup Dropping
        /\ attempts'[i].stage \notin {"indexing"} \cup Dropping
    BY <1>1, Fields DEF Dropping
  <2> QED BY <1>1, <2>1, <2>2, Standing DEF Linking
<1>3. ASSUME NEW k \in Accounts, Link(i, u, k, p)
      PROVE  OneRequest'
  <2>1. \A j \in Attempts : \/ attempts[j] = Idle
                            \/ /\ attempts[j].op = "link" /\ attempts[j].user = u
                               /\ attempts[j].account = k
    BY <1>3 DEF Link, Overlaps
  <2>2. /\ attempts'[i].op = "link" /\ attempts'[i].user = u /\ attempts'[i].account = k
    BY <1>1, <1>3 DEF Link, Begin
  <2>3. \A j \in Attempts : \/ attempts'[j] = Idle
                            \/ /\ attempts'[j].op = "link" /\ attempts'[j].user = u
                               /\ attempts'[j].account = k
    BY <1>1, <2>1, <2>2
  <2> QED BY <2>3, Fields DEF OneRequest
<1>4. ASSUME Unlink(i, u, p)
      PROVE  OneRequest'
  <2>1. \A j \in Attempts : \/ attempts[j] = Idle
                            \/ attempts[j].op = "unlink" /\ attempts[j].user = u
    BY <1>4 DEF Unlink, Overlaps
  <2>2. attempts'[i].op = "unlink" /\ attempts'[i].user = u
    BY <1>1, <1>4 DEF Unlink, Begin
  <2>3. \A j \in Attempts : \/ attempts'[j] = Idle
                            \/ attempts'[j].op = "unlink" /\ attempts'[j].user = u
    BY <1>1, <2>1, <2>2
  <2> QED BY <2>3, Fields DEF OneRequest
<1> QED BY <1>2, <1>3, <1>4

LEMMA TimeOutStep ==
    ASSUME Linking, NEW i \in Attempts, TimeOut(i), attempts[i].op \in {"link", "unlink"}
    PROVE  (OneRequest /\ Pairs /\ Halves)'
<1>1. PICK j \in Attempts : Retrying(i, j)
  BY TimingOut DEF Linking, TInv, TypeOK
<1>2. (Pairs /\ Halves)'
  <2>1. UNCHANGED <<links, index>>
    BY DEF TimeOut, redis
  <2>2. j # i => /\ attempts[j].stage = "idle"
                 /\ attempts'[j].stage \in {"reading", "looking", "linking", "resolving"}
    BY <1>1, Fields DEF Retrying, Again
  <2>3. j # i => /\ attempts[j].stage \notin {"indexing"} \cup Dropping
                 /\ attempts'[j].stage \notin {"indexing"} \cup Dropping
    BY <2>2 DEF Dropping
  <2> QED BY <1>1, <2>1, <2>3, Standing DEF Linking, Retrying, Alike
<1>3. OneRequest'
  <2> DEFINE o == attempts[i].op
             u == attempts[i].user
             k == attempts[i].account
  <2>1. \A l \in Attempts : \/ attempts[l] = Idle
                            \/ /\ attempts[l].op = o /\ attempts[l].user = u
                               /\ o = "link" => attempts[l].account = k
    BY DEF Linking, OneRequest
  <2>2. attempts'[i].op = o /\ attempts'[i].user = u /\ attempts'[i].account = k
    BY <1>1 DEF Retrying, Alike
  <2>3. j # i => /\ attempts'[j].op = o /\ attempts'[j].user = u
                 /\ o = "link" => attempts'[j].account = k
    BY <1>1 DEF Retrying, Again, Alike
  <2>4. \A l \in Attempts \ {i, j} : attempts'[l] = attempts[l]
    BY <1>1 DEF Retrying
  <2> HIDE DEF o, u, k
  <2>5. \A l \in Attempts : \/ attempts'[l] = Idle
                            \/ /\ attempts'[l].op = o /\ attempts'[l].user = u
                               /\ o = "link" => attempts'[l].account = k
    BY <2>1, <2>2, <2>3, <2>4
  <2> QED BY <2>5, Fields DEF OneRequest
<1> QED BY <1>2, <1>3

-----------------------------------------------------------------------------
(* The invariant, and the theorems.                                        *)

LEMMA LinksFirst ==
    ASSUME Init
    PROVE  LInv
<1>1. attempts = [i \in Attempts |-> Idle]
  BY DEF Init
<1>2. \A i \in Attempts : attempts[i].stage = "idle" /\ attempts[i].op = "none"
  BY <1>1, Fields
<1>3. WorkFits
  BY <1>1 DEF WorkFits
<1>4. OneRequest
  BY <1>2 DEF OneRequest
<1>5. Halves
  BY <1>2 DEF Halves, Dropping
<1>6. Pairs
  BY NoneAssumption DEF Init, Pairs
<1> QED BY <1>3, <1>4, <1>5, <1>6 DEF LInv

LEMMA LinksNext ==
    ASSUME TInv, LInv, Next
    PROVE  LInv'
<1>1. WorkFits' /\ work' = work
  BY WorkNext DEF LInv
<1>2. \A k \in Attempts : attempts'[k] = Idle \/ Fits(attempts'[k])
  BY AfterNext DEF After
<1>3. ASSUME NEW i \in Attempts,
             LinkAccount(i) \/ IndexAccount(i) \/ FindLink(i) \/ DropLink(i) \/ DropIndex(i)
      PROVE  work = "links"
  <2>1. Fits(attempts[i]) /\ attempts[i].op \in {"link", "unlink"}
    BY <1>3, LinkKeeps, UnlinkKeeps
  <2>2. attempts[i] # Idle
    BY <2>1, Fields
  <2> QED BY <2>1, <2>2 DEF LInv, WorkFits, OpsOf
<1>4. excused => excused'
  <2>1. CASE excused' = excused
    BY <2>1
  <2>2. ASSUME NEW i \in Attempts, LinkAccount(i) \/ Fail(i)
        PROVE  excused => excused'
    <3>1. CASE LinkAccount(i)
      BY <3>1 DEF LinkAccount
    <3>2. CASE Fail(i)
      BY <3>2 DEF Fail
    <3> QED BY <2>2, <3>1, <3>2
  <2>3. CASE Restart
    BY <2>3 DEF Restart
  <2>4. ASSUME NEW i \in Attempts, NEW u \in Users, NEW p \in Enabled,
               (\E a \in Accounts : Link(i, u, a, p)) \/ Unlink(i, u, p)
        PROVE  excused => excused'
    <3>1. ASSUME NEW a \in Accounts, Link(i, u, a, p)
          PROVE  excused => excused'
      BY <3>1 DEF Link
    <3>2. CASE Unlink(i, u, p)
      BY <3>2 DEF Unlink
    <3> QED BY <2>4, <3>1, <3>2
  <2>5. ASSUME NEW i \in Attempts, Step(i), ~ LinkAccount(i), ~ Fail(i)
        PROVE  excused' = excused
    BY <2>5 DEF Step, ReadState, DeleteState, ExchangeGoogle, ExchangeNative, ExchangeAxios,
         FetchUser, FindUser, CreateUser, StoreTokens, Grant, LookUpTokens, RenewTokens,
         SaveTokens, IndexAccount, FindLink, DropLink, DropIndex, TimeOut
  <2>6. CASE \/ Initialize
             \/ \E f \in Flows, p \in Enabled : GetAuthorizationUrl(f, p)
             \/ \E i \in Attempts, f \in Flows, p \in Enabled : HandleCallback(i, f, p)
             \/ \E i \in Attempts, u \in Users, p \in Enabled : RefreshProviderToken(i, u, p)
             \/ \E f \in Flows, u \in Users : Authorize(f, u)
             \/ \E f \in Flows : LapseState(f)
             \/ \E u \in Users, p \in Enabled : LapseTokens(u, p)
             \/ UNCHANGED vars
    BY <2>1, <2>6 DEF Initialize, GetAuthorizationUrl, HandleCallback, RefreshProviderToken,
         Authorize, LapseState, LapseTokens, vars
  <2> QED BY <2>1, <2>2, <2>3, <2>4, <2>5, <2>6, Cases
<1>5. CASE work # "links"
  <2>1. UNCHANGED <<links, index>>
    BY <1>3, <1>5, Cases DEF Initialize, GetAuthorizationUrl, HandleCallback,
       RefreshProviderToken, Link, Unlink, Authorize, LapseState, LapseTokens, Restart, vars,
       Step, ReadState, DeleteState, ExchangeGoogle, ExchangeNative, ExchangeAxios, FetchUser,
       FindUser, CreateUser, StoreTokens, Grant, LookUpTokens, RenewTokens, SaveTokens,
       TimeOut, Fail, redis
  <2> QED BY <1>1, <1>2, <1>4, <1>5, <2>1, InFlows
<1>6. CASE work = "links" /\ ~ excused'
  <2>1. Linking
    BY <1>4, <1>6 DEF LInv, Linking
  <2>2. \A i \in Attempts : attempts[i] # Idle => attempts[i].op \in {"link", "unlink"}
    BY <1>6 DEF LInv, WorkFits, OpsOf
  <2>3. SUFFICES (OneRequest /\ Pairs /\ Halves)'
    BY <1>1 DEF LInv
  <2>4. ASSUME attempts' = attempts, UNCHANGED <<links, index>>
        PROVE  (OneRequest /\ Pairs /\ Halves)'
    <3>1. OneRequest'
      BY <2>1, <2>4 DEF Linking, OneRequest
    <3> QED BY <2>1, <2>4, <3>1, Standing DEF Linking
  <2>5. ASSUME NEW i \in Attempts, Step(i)
        PROVE  (OneRequest /\ Pairs /\ Halves)'
    <3>1. CASE Fail(i)
      BY <1>6, <3>1 DEF Fail
    <3>2. CASE TimeOut(i)
      <4>1. attempts[i] # Idle
        BY <3>2, Fields DEF TimeOut
      <4> QED BY <2>1, <2>2, <3>2, <4>1, TimeOutStep
    <3>3. CASE ~ Fail(i) /\ ~ TimeOut(i)
      <4>1. attempts[i].stage # "idle"
        BY <2>5, <3>3 DEF Step, ReadState, DeleteState, ExchangeGoogle, ExchangeNative,
             ExchangeAxios, FetchUser, FindUser, CreateUser, StoreTokens, Grant, LookUpTokens,
             RenewTokens, SaveTokens, LinkAccount, IndexAccount, FindLink, DropLink, DropIndex, At
      <4>2. attempts[i].op \in {"link", "unlink"}
        BY <2>2, <4>1, Fields
      <4>3. LinkAccount(i) \/ IndexAccount(i) \/ FindLink(i) \/ DropLink(i) \/ DropIndex(i)
        BY <2>5, <3>3, <4>2, CallbackKeeps, RefreshKeeps DEF Step
      <4> QED BY <1>6, <2>1, <4>3, LinkAccountStep, IndexAccountStep, FindLinkStep,
                 DropLinkStep, DropIndexStep
    <3> QED BY <3>1, <3>2, <3>3
  <2>6. CASE Restart
    BY <1>6, <2>6 DEF Restart
  <2>7. CASE \/ Initialize
             \/ \E u \in Users, p \in Enabled : LapseTokens(u, p)
             \/ \E f \in Flows, u \in Users : Authorize(f, u)
             \/ \E f \in Flows : LapseState(f)
             \/ UNCHANGED vars
    BY <2>4, <2>7 DEF Initialize, LapseTokens, Authorize, LapseState, vars, redis
  <2>8. CASE \/ \E f \in Flows, p \in Enabled : GetAuthorizationUrl(f, p)
             \/ \E i \in Attempts, f \in Flows, p \in Enabled : HandleCallback(i, f, p)
             \/ \E i \in Attempts, u \in Users, p \in Enabled : RefreshProviderToken(i, u, p)
    BY <1>6, <2>8 DEF GetAuthorizationUrl, HandleCallback, RefreshProviderToken
  <2>9. CASE \/ \E i \in Attempts, u \in Users, p \in Enabled, a \in Accounts : Link(i, u, a, p)
             \/ \E i \in Attempts, u \in Users, p \in Enabled : Unlink(i, u, p)
    BY <1>6, <2>1, <2>9, RequestStep
  <2> QED BY <2>5, <2>6, <2>7, <2>8, <2>9, Cases
<1>7. CASE excused'
  BY <1>1, <1>7 DEF LInv
<1> QED BY <1>5, <1>6, <1>7

-----------------------------------------------------------------------------
(* Whose the tokens are.                                                   *)

Renewing == {"renewing", "saving"}

\* User u came back from provider p with a code, which was taken.
Signed(f, u, p) == flows[f].provider = p /\ flows[f].user = u /\ flows[f].code = "used"
HasFlow(u, p) == \E f \in Flows : Signed(f, u, p)

\* A callback let through is for the provider of its flow, and signs in the
\* user of its flow; a renewal read tokens that were stored.
FInv ==
    /\ \A f \in Flows : flows[f].code # "none" => flows[f].state # "none"
    /\ \A i \in Attempts : attempts[i].stage \in Passed =>
           flows[attempts[i].flow].provider = attempts[i].provider
    /\ \A i \in Attempts : attempts[i].stage \in Named =>
           flows[attempts[i].flow].user = attempts[i].user
    /\ \A i \in Attempts, u \in Users, p \in Enabled :
           /\ attempts[i].stage \in Renewing
           /\ attempts[i].user = u /\ attempts[i].provider = p
           => HasFlow(u, p)
    /\ TokensHaveFlow

\* The provider of a flow is set once, and so is the user.
FlowsLast ==
    \A f \in Flows :
        /\ flows[f].state # "none" => flows'[f].provider = flows[f].provider
        /\ flows[f].code # "none" => flows'[f].user = flows[f].user
        /\ flows[f].code = "used" => flows'[f].code = "used"
        /\ flows'[f].code # "none" => flows'[f].state # "none"

\* What flow f becomes, when s, p, c and u are its state, provider, code and user.
LEMMA GoesLast ==
    ASSUME FInv, NEW f \in Flows, NEW s, NEW p, NEW c, NEW u, NEW n,
           FlowGoes(f, [state |-> s, provider |-> p, code |-> c, user |-> u, logins |-> n]),
           flows[f].state # "none" => p = flows[f].provider,
           flows[f].code # "none" => u = flows[f].user,
           flows[f].code = "used" => c = "used",
           c # "none" => s # "none"
    PROVE  FlowsLast
<1>1. /\ flows'[f].state = s /\ flows'[f].provider = p
      /\ flows'[f].code = c /\ flows'[f].user = u
  BY DEF FlowGoes
<1> QED BY <1>1 DEF FlowGoes, FlowsLast, FInv

LEMMA SameLast ==
    ASSUME FInv, flows' = flows
    PROVE  FlowsLast
  BY DEF FlowsLast, FInv

LEMMA FlowStepsLast ==
    ASSUME TInv, FInv, NEW f \in Flows,
           \/ \E p \in Enabled : StoreState(f, p)
           \/ \E u \in Users : Authorize(f, u)
           \/ flows' = [flows EXCEPT ![f].state = "gone"]
           \/ TakeCode(f)
           \/ flows' = [flows EXCEPT ![f].logins = @ + 1]
    PROVE  FlowsLast
<1> DEFINE w == flows[f]
<1>0. flows \in [Flows -> Flow]
  BY DEF TInv, TypeOK
<1>1. w.code # "none" => w.state # "none"
  BY DEF FInv
<1>2. ASSUME NEW p \in Enabled, StoreState(f, p)
      PROVE  FlowsLast
  <2>1. FlowGoes(f, [state |-> "stored", provider |-> p, code |-> w.code,
                     user |-> w.user, logins |-> w.logins])
    BY <1>0, <1>2, FlowSteps DEF StoreState
  <2>2. w.state = "none"
    BY <1>2 DEF StoreState
  <2> QED BY <2>1, <2>2, GoesLast
<1>3. ASSUME NEW u \in Users, Authorize(f, u)
      PROVE  FlowsLast
  <2>1. FlowGoes(f, [state |-> w.state, provider |-> w.provider,
                     code |-> "issued", user |-> u, logins |-> w.logins])
    BY <1>0, <1>3, FlowSteps DEF Authorize
  <2>2. w.state # "none" /\ w.code = "none"
    BY <1>3 DEF Authorize
  <2> QED BY <2>1, <2>2, GoesLast
<1>4. CASE flows' = [flows EXCEPT ![f].state = "gone"]
  <2>1. FlowGoes(f, [state |-> "gone", provider |-> w.provider, code |-> w.code,
                     user |-> w.user, logins |-> w.logins])
    BY <1>0, <1>4, FlowSteps
  <2> QED BY <2>1, GoesLast
<1>5. CASE TakeCode(f)
  <2>1. flows' = [flows EXCEPT ![f].code = "used"] /\ w.code = "issued"
    BY <1>5 DEF TakeCode
  <2>2. FlowGoes(f, [state |-> w.state, provider |-> w.provider, code |-> "used",
                     user |-> w.user, logins |-> w.logins])
    BY <1>0, <2>1, FlowSteps
  <2> QED BY <1>1, <2>1, <2>2, GoesLast
<1>6. CASE flows' = [flows EXCEPT ![f].logins = @ + 1]
  <2>1. FlowGoes(f, [state |-> w.state, provider |-> w.provider, code |-> w.code,
                     user |-> w.user, logins |-> w.logins + 1])
    BY <1>0, <1>6, FlowSteps
  <2> QED BY <1>1, <2>1, GoesLast
<1> QED BY <1>2, <1>3, <1>4, <1>5, <1>6

LEMMA NextLast ==
    ASSUME TInv, FInv, Next
    PROVE  FlowsLast
<1>1. ASSUME NEW i \in Attempts, Step(i)
      PROVE  FlowsLast
  <2>1. CASE \/ DeleteState(i) \/ ExchangeGoogle(i) \/ ExchangeNative(i)
             \/ ExchangeAxios(i) \/ Grant(i)
    <3> DEFINE f == attempts[i].flow
    <3>1. f \in Flows
      BY <2>1, CallbackKeeps DEF Fits
    <3>2. \/ flows' = [flows EXCEPT ![f].state = "gone"] \/ TakeCode(f) \/ flows' = flows
          \/ flows' = [flows EXCEPT ![f].logins = @ + 1]
      BY <2>1 DEF DeleteState, ExchangeGoogle, ExchangeNative, ExchangeAxios, Grant
    <3> HIDE DEF f
    <3> QED BY <3>1, <3>2, FlowStepsLast, SameLast
  <2>2. CASE ~ (\/ DeleteState(i) \/ ExchangeGoogle(i) \/ ExchangeNative(i)
                \/ ExchangeAxios(i) \/ Grant(i))
    <3>1. flows' = flows
      BY <1>1, <2>2 DEF Step, ReadState, FetchUser, FindUser, CreateUser, StoreTokens,
           LookUpTokens, RenewTokens, SaveTokens, LinkAccount, IndexAccount, FindLink,
           DropLink, DropIndex, TimeOut, Fail
    <3> QED BY <3>1, SameLast
  <2> QED BY <2>1, <2>2
<1>2. CASE \/ \E f \in Flows, p \in Enabled : GetAuthorizationUrl(f, p)
           \/ \E f \in Flows, u \in Users : Authorize(f, u)
           \/ \E f \in Flows : LapseState(f)
  BY <1>2, FlowStepsLast DEF GetAuthorizationUrl, LapseState
<1>3. CASE \/ Initialize \/ Restart \/ UNCHANGED vars
           \/ \E u \in Users, p \in Enabled : LapseTokens(u, p)
           \/ \E i \in Attempts, f \in Flows, p \in Enabled : HandleCallback(i, f, p)
           \/ \E i \in Attempts, u \in Users, p \in Enabled : RefreshProviderToken(i, u, p)
           \/ \E i \in Attempts, u \in Users, p \in Enabled, a \in Accounts : Link(i, u, a, p)
           \/ \E i \in Attempts, u \in Users, p \in Enabled : Unlink(i, u, p)
  <2>1. flows' = flows
    BY <1>3 DEF Initialize, Restart, LapseTokens, HandleCallback, RefreshProviderToken,
         Link, Unlink, vars
  <2> QED BY <2>1, SameLast
<1> QED BY <1>1, <1>2, <1>3, Cases

\* A flow that a user came back from stays one.
LEMMA HasFlowStays ==
    ASSUME FInv, FlowsLast, NEW u, NEW p, HasFlow(u, p)
    PROVE  HasFlow(u, p)'
<1>1. PICK f \in Flows : Signed(f, u, p)
  BY DEF HasFlow
<1>2. flows[f].state # "none" /\ flows[f].code = "used"
  BY <1>1 DEF FInv, Signed
<1>3. flows'[f].provider = p /\ flows'[f].user = u /\ flows'[f].code = "used"
  BY <1>1, <1>2 DEF FlowsLast, Signed
<1> QED BY <1>3 DEF HasFlow, Signed

\* The attempts at the stages S were at one of them with the same request.
SameIn(S) ==
    \A k \in Attempts : attempts'[k].stage \in S =>
        /\ attempts[k].stage \in S
        /\ attempts'[k].flow = attempts[k].flow /\ attempts'[k].user = attempts[k].user
        /\ attempts'[k].provider = attempts[k].provider

LEMMA EndingSame ==
    ASSUME TInv, NEW i \in Attempts, End(i), NEW S, "idle" \notin S
    PROVE  SameIn(S)
  BY Ending, Fields DEF SameIn, TInv, TypeOK

LEMMA GoingSame ==
    ASSUME TInv, NEW i \in Attempts, NEW stage \in Stages, Goto(i, stage),
           NEW S, stage \in S => attempts[i].stage \in S
    PROVE  SameIn(S)
<1>1. /\ attempts'[i].stage = stage /\ attempts'[i].flow = attempts[i].flow
      /\ attempts'[i].user = attempts[i].user
      /\ attempts'[i].provider = attempts[i].provider
      /\ \A j \in Attempts \ {i} : attempts'[j] = attempts[j]
  BY Going DEF TInv, TypeOK, Alike
<1> QED BY <1>1 DEF SameIn

\* Each part of FInv about attempts, where no attempt comes in anew.
LEMMA PassedFit ==
    ASSUME TInv, StateSpent, FInv, FlowsLast, NEW k \in Attempts,
           attempts[k].stage \in Passed
    PROVE  flows'[attempts[k].flow].provider = attempts[k].provider
<1>1. attempts[k].flow \in Flows
  BY Idling, Busy, OpOfStage DEF Fits
<1>2. flows[attempts[k].flow].state # "none"
  BY DEF StateSpent
<1> QED BY <1>1, <1>2 DEF FlowsLast, FInv

LEMMA NamedFit ==
    ASSUME TInv, FInv, FlowsLast, NEW k \in Attempts, attempts[k].stage \in Named
    PROVE  flows'[attempts[k].flow].user = attempts[k].user
<1>1. attempts[k].stage \in Holders
  BY DEF Holders, Named
<1>2. attempts[k].flow \in Flows
  BY <1>1, Idling, Busy, OpOfStage DEF Fits
<1>3. flows[attempts[k].flow].code = "used"
  BY <1>1 DEF TInv, CodesOnce
<1> QED BY <1>2, <1>3 DEF FlowsLast, FInv

LEMMA PassedSame ==
    ASSUME TInv, StateSpent, FInv, FlowsLast, SameIn(Passed)
    PROVE  \A k \in Attempts : attempts'[k].stage \in Passed =>
               flows'[attempts'[k].flow].provider = attempts'[k].provider
  BY PassedFit DEF SameIn

LEMMA NamedSame ==
    ASSUME TInv, FInv, FlowsLast, SameIn(Named)
    PROVE  \A k \in Attempts : attempts'[k].stage \in Named =>
               flows'[attempts'[k].flow].user = attempts'[k].user
  BY NamedFit DEF SameIn

LEMMA RenewingSame ==
    ASSUME FInv, FlowsLast, SameIn(Renewing)
    PROVE  \A k \in Attempts, u \in Users, p \in Enabled :
               /\ attempts'[k].stage \in Renewing
               /\ attempts'[k].user = u /\ attempts'[k].provider = p
               => HasFlow(u, p)'
<1> SUFFICES ASSUME NEW k \in Attempts, NEW u \in Users, NEW p \in Enabled,
                    attempts'[k].stage \in Renewing,
                    attempts'[k].user = u, attempts'[k].provider = p
             PROVE  HasFlow(u, p)'
  OBVIOUS
<1>1. HasFlow(u, p)
  BY DEF FInv, SameIn
<1> QED BY <1>1, HasFlowStays

\* Tokens lapse, or are replaced where there is a flow.
LEMMA TokensStay ==
    ASSUME FInv, FlowsLast,
           \A u \in Users, p \in Enabled :
               tokens'[u][p] \in {tokens[u][p], None} \/ HasFlow(u, p)'
    PROVE  TokensHaveFlow'
<1> SUFFICES ASSUME NEW u \in Users, NEW p \in Enabled, tokens'[u][p] # None
             PROVE  HasFlow(u, p)'
  BY DEF TokensHaveFlow, HasFlow, Signed
<1>1. CASE HasFlow(u, p)'
  BY <1>1
<1>2. CASE tokens'[u][p] = tokens[u][p]
  <2>1. HasFlow(u, p)
    BY <1>2 DEF FInv, TokensHaveFlow, HasFlow, Signed
  <2> QED BY <2>1, HasFlowStays
<1> QED BY <1>1, <1>2

\* Where no attempt comes to one of the stages from elsewhere.
LEMMA FInvSame ==
    ASSUME TInv, StateSpent, FInv, FlowsLast,
           SameIn(Passed), SameIn(Named), SameIn(Renewing), TokensHaveFlow'
    PROVE  FInv'
<1>1. \A f \in Flows : flows'[f].code # "none" => flows'[f].state # "none"
  BY DEF FlowsLast
<1> QED BY <1>1, PassedSame, NamedSame, RenewingSame DEF FInv

LEMMA NotIdle ==
    /\ "idle" \notin Passed /\ "idle" \notin Named /\ "idle" \notin Renewing
    /\ Named \subseteq Passed /\ Passed \cap Renewing = {}
  BY DEF Passed, Named, Renewing

\* An attempt ends, or goes from stage to stage within a kind.
LEMMA FInvGoes ==
    ASSUME TInv, StateSpent, FInv, FlowsLast, NEW i \in Attempts, TokensHaveFlow',
           \/ End(i)
           \/ \E stage \in Stages :
                 /\ Goto(i, stage)
                 /\ stage \in Passed => attempts[i].stage \in Passed
                 /\ stage \in Named => attempts[i].stage \in Named
                 /\ stage \in Renewing => attempts[i].stage \in Renewing
    PROVE  FInv'
<1>1. SameIn(Passed) /\ SameIn(Named) /\ SameIn(Renewing)
  BY NotIdle, EndingSame, GoingSame
<1> QED BY <1>1, FInvSame

\* Nothing is written to the tokens.
LEMMA SameTokens ==
    ASSUME FInv, FlowsLast, tokens' = tokens
    PROVE  TokensHaveFlow'
  BY TokensStay

LEMMA FInvDelete ==
    ASSUME TInv, StateSpent, FInv, FlowsLast, NEW i \in Attempts, DeleteState(i)
    PROVE  FInv'
<1> DEFINE f == attempts[i].flow
<1>0. TokensHaveFlow'
  BY SameTokens DEF DeleteState, redis
<1>1. f \in Flows /\ flows \in [Flows -> Flow]
  BY CallbackKeeps DEF Fits, TInv, TypeOK
<1>2. CASE End(i)
  BY <1>0, <1>2, FInvGoes
<1>3. CASE Goto(i, "exchanging") /\ flows[f].provider = attempts[i].provider
  <2>1. "exchanging" \in Stages /\ "exchanging" \notin Named /\ "exchanging" \notin Renewing
    BY DEF Stages, Named, Renewing
  <2>2. SameIn(Named) /\ SameIn(Renewing)
    BY <1>3, <2>1, GoingSame
  <2>3. /\ attempts'[i].provider = attempts[i].provider /\ attempts'[i].flow = f
        /\ \A j \in Attempts \ {i} : attempts'[j] = attempts[j]
    BY <1>3, <2>1, Going DEF TInv, TypeOK, Alike
  <2>4. flows' = [flows EXCEPT ![f].state = "gone"]
    BY DEF DeleteState
  <2>5. FlowGoes(f, [state |-> "gone", provider |-> flows[f].provider,
                     code |-> flows[f].code, user |-> flows[f].user,
                     logins |-> flows[f].logins])
    BY <1>1, <2>4, FlowSteps
  <2>6. flows'[f].provider = flows[f].provider
    BY <2>5 DEF FlowGoes
  <2>7. \A k \in Attempts : attempts'[k].stage \in Passed =>
            flows'[attempts'[k].flow].provider = attempts'[k].provider
    <3>1. ASSUME NEW k \in Attempts \ {i}, attempts'[k].stage \in Passed
          PROVE  flows'[attempts'[k].flow].provider = attempts'[k].provider
      <4>1. attempts'[k] = attempts[k]
        BY <2>3
      <4> QED BY <3>1, <4>1, PassedFit
    <3> QED BY <1>3, <2>3, <2>6, <3>1
  <2>8. \A g \in Flows : flows'[g].code # "none" => flows'[g].state # "none"
    BY DEF FlowsLast
  <2> QED BY <1>0, <2>2, <2>7, <2>8, NamedSame, RenewingSame DEF FInv
<1> QED BY <1>2, <1>3 DEF DeleteState

LEMMA FInvFetch ==
    ASSUME TInv, StateSpent, FInv, FlowsLast, NEW i \in Attempts, FetchUser(i)
    PROVE  FInv'
<1> DEFINE f == attempts[i].flow
           u == flows[f].user
<1>0. TokensHaveFlow' /\ flows' = flows
  BY SameTokens DEF FetchUser, redis
<1>1. f \in Flows
  BY CallbackKeeps DEF Fits
<1>2. CASE End(i)
  BY <1>0, <1>2, FInvGoes
<1>3. CASE attempts' = [attempts EXCEPT ![i].stage = "finding", ![i].user = u]
  <2>1. u \in Users \cup {None}
    BY <1>1, FlowFields DEF TInv, TypeOK
  <2> HIDE DEF u
  <2>2. /\ attempts'[i].stage = "finding" /\ Alike(attempts'[i], attempts[i])
        /\ attempts'[i].user = u
        /\ \A j \in Attempts \ {i} : attempts'[j] = attempts[j]
    BY <1>3, <2>1, Naming DEF TInv, TypeOK
  <2>3. attempts[i].stage \in Passed /\ "finding" \notin Renewing
    BY DEF FetchUser, At, Passed, Renewing
  <2>4. SameIn(Renewing)
    BY <2>2, <2>3 DEF SameIn
  <2>5. \A k \in Attempts : attempts'[k].stage \in Passed =>
            flows'[attempts'[k].flow].provider = attempts'[k].provider
    BY <1>0, <2>2, <2>3 DEF FInv, Alike
  <2>6. \A k \in Attempts : attempts'[k].stage \in Named =>
            flows'[attempts'[k].flow].user = attempts'[k].user
    <3>1. attempts'[i].flow = f
      BY <2>2 DEF Alike
    <3>2. flows'[f].user = u
      BY <1>0 DEF u
    <3>3. \A k \in Attempts \ {i} : attempts'[k].stage \in Named =>
              flows'[attempts'[k].flow].user = attempts'[k].user
      BY <1>0, <2>2 DEF FInv
    <3> QED BY <2>2, <3>1, <3>2, <3>3
  <2>7. \A g \in Flows : flows'[g].code # "none" => flows'[g].state # "none"
    BY DEF FlowsLast
  <2> QED BY <1>0, <2>4, <2>5, <2>6, <2>7, RenewingSame DEF FInv
<1> QED BY <1>2, <1>3 DEF FetchUser

\* storeUserTokens: the attempt is that of a flow of the user.
LEMMA FInvStore ==
    ASSUME TInv, StateSpent, FInv, FlowsLast, NEW i \in Attempts, StoreTokens(i)
    PROVE  FInv'
<1> DEFINE f == attempts[i].flow
<1>1. attempts[i].stage \in Named \cap Passed \cap Holders
  BY DEF StoreTokens, At, Named, Passed, Holders
<1>2. f \in Flows /\ attempts[i].user \in Users /\ attempts[i].provider \in Enabled
  BY <1>1, CallbackKeeps DEF Fits
<1>3. PICK u \in Users, p \in Enabled : u = attempts[i].user /\ p = attempts[i].provider
  BY <1>2
<1>4. Signed(f, u, p)
  BY <1>1, <1>3 DEF FInv, Signed, TInv, CodesOnce
<1>5. HasFlow(u, p)'
  BY <1>2, <1>4, HasFlowStays DEF HasFlow
<1>6. PICK data \in TokenData : tokens' = [tokens EXCEPT ![u][p] = data]
  BY <1>3 DEF StoreTokens
<1>7. \A v \in Users, q \in Enabled : tokens'[v][q] = tokens[v][q] \/ (v = u /\ q = p)
  BY <1>6 DEF TInv, TypeOK
<1>8. TokensHaveFlow'
  BY <1>5, <1>7, TokensStay
<1>9. Goto(i, "granting") /\ "granting" \in Stages /\ "granting" \notin Renewing
  BY DEF StoreTokens, Stages, Renewing
<1> QED BY <1>1, <1>8, <1>9, FInvGoes

\* refreshProviderToken: only what is stored is renewed.
LEMMA FInvRefresh ==
    ASSUME TInv, StateSpent, FInv, FlowsLast, NEW i \in Attempts,
           LookUpTokens(i) \/ RenewTokens(i) \/ SaveTokens(i)
    PROVE  FInv'
<1>1. Fits(attempts[i]) /\ attempts[i].op = "refresh"
  BY RefreshKeeps
<1>2. PICK u \in Users, p \in Enabled : u = attempts[i].user /\ p = attempts[i].provider
  BY <1>1 DEF Fits
<1>3. {"renewing", "saving"} \subseteq Stages /\ Renewing = {"renewing", "saving"}
      /\ \A stage \in Renewing : stage \notin Passed /\ stage \notin Named
  BY DEF Stages, Renewing, Passed, Named
<1>4. CASE LookUpTokens(i)
  <2>0. TokensHaveFlow' /\ flows' = flows
    BY <1>4, SameTokens DEF LookUpTokens, redis
  <2>1. CASE End(i)
    BY <2>0, <2>1, FInvGoes
  <2>2. CASE Goto(i, "renewing") /\ tokens[u][p] = "renewable"
    <3>1. HasFlow(u, p)
      BY <2>2, NoneAssumption DEF FInv, TokensHaveFlow, HasFlow, Signed
    <3>2. HasFlow(u, p)'
      BY <3>1, HasFlowStays
    <3>3. SameIn(Passed) /\ SameIn(Named)
      BY <1>3, <2>2, GoingSame
    <3>4. /\ attempts'[i].user = u /\ attempts'[i].provider = p
          /\ \A j \in Attempts \ {i} : attempts'[j] = attempts[j]
      BY <1>2, <1>3, <2>2, Going DEF TInv, TypeOK, Alike
    <3>5. ASSUME NEW k \in Attempts, NEW v \in Users, NEW q \in Enabled,
                 attempts'[k].stage \in Renewing,
                 attempts'[k].user = v, attempts'[k].provider = q
          PROVE  HasFlow(v, q)'
      <4>1. CASE k = i
        BY <3>2, <3>4, <3>5, <4>1
      <4>2. CASE k # i
        <5>1. HasFlow(v, q)
          BY <3>4, <3>5, <4>2 DEF FInv
        <5> QED BY <5>1, HasFlowStays
      <4> QED BY <4>1, <4>2
    <3>6. \A g \in Flows : flows'[g].code # "none" => flows'[g].state # "none"
      BY DEF FlowsLast
    <3> QED BY <2>0, <3>3, <3>5, <3>6, PassedSame, NamedSame DEF FInv
  <2> QED BY <1>2, <1>4, <2>1, <2>2 DEF LookUpTokens
<1>5. CASE RenewTokens(i)
  <2>0. TokensHaveFlow'
    BY <1>5, SameTokens DEF RenewTokens, redis
  <2>1. attempts[i].stage \in Renewing
    BY <1>5 DEF RenewTokens, At, Renewing
  <2>2. Goto(i, "saving") \/ End(i)
    BY <1>5 DEF RenewTokens
  <2> QED BY <1>3, <2>0, <2>1, <2>2, FInvGoes
<1>6. CASE SaveTokens(i)
  <2>1. HasFlow(u, p)
    BY <1>2, <1>6 DEF SaveTokens, At, Renewing, FInv
  <2>2. HasFlow(u, p)'
    BY <2>1, HasFlowStays
  <2>3. tokens' = [tokens EXCEPT ![u][p] = "renewable"] /\ End(i)
    BY <1>2, <1>6 DEF SaveTokens
  <2>4. \A v \in Users, q \in Enabled : tokens'[v][q] = tokens[v][q] \/ (v = u /\ q = p)
    BY <2>3 DEF TInv, TypeOK
  <2>5. TokensHaveFlow'
    BY <2>2, <2>4, TokensStay
  <2> QED BY <2>3, <2>5, FInvGoes
<1> QED BY <1>4, <1>5, <1>6

LEMMA FInvStep ==
    ASSUME TInv, StateSpent, FInv, FlowsLast, NEW i \in Attempts, Step(i)
    PROVE  FInv'
<1>1. CASE \/ ReadState(i) \/ ExchangeGoogle(i) \/ ExchangeNative(i) \/ ExchangeAxios(i)
           \/ FindUser(i) \/ CreateUser(i) \/ Grant(i)
  <2>1. TokensHaveFlow'
    BY <1>1, SameTokens DEF ReadState, ExchangeGoogle, ExchangeNative, ExchangeAxios,
         FindUser, CreateUser, Grant, redis
  <2>2. \/ End(i) \/ Goto(i, "deleting")
        \/ /\ attempts[i].stage \in Passed
           /\ Goto(i, "fetching") \/ Goto(i, "exchangingAgain")
        \/ attempts[i].stage \in Named /\ (Goto(i, "storing") \/ Goto(i, "creating"))
    BY <1>1 DEF ReadState, ExchangeGoogle, ExchangeNative, ExchangeAxios, FindUser,
         CreateUser, Grant, At, Passed, Named
  <2>3. /\ {"deleting", "fetching", "exchangingAgain", "storing", "creating"} \subseteq Stages
        /\ "deleting" \notin Passed \cup Named \cup Renewing
        /\ "fetching" \notin Named \cup Renewing /\ "exchangingAgain" \notin Named \cup Renewing
        /\ "storing" \notin Renewing /\ "creating" \notin Renewing
    BY DEF Stages, Passed, Named, Renewing
  <2>4. CASE End(i)
    BY <2>1, <2>4, FInvGoes
  <2>5. CASE Goto(i, "deleting")
    BY <2>1, <2>3, <2>5, FInvGoes
  <2>6. CASE attempts[i].stage \in Passed /\ (Goto(i, "fetching") \/ Goto(i, "exchangingAgain"))
    BY <2>1, <2>3, <2>6, FInvGoes
  <2>7. CASE attempts[i].stage \in Named /\ (Goto(i, "storing") \/ Goto(i, "creating"))
    BY <2>1, <2>3, <2>7, NotIdle, FInvGoes
  <2> QED BY <2>2, <2>4, <2>5, <2>6, <2>7
<1>2. CASE LinkAccount(i) \/ IndexAccount(i) \/ DropLink(i) \/ DropIndex(i) \/ Fail(i)
  <2>1. TokensHaveFlow'
    BY <1>2, SameTokens DEF LinkAccount, IndexAccount, DropLink, DropIndex, Fail, redis
  <2>2. End(i) \/ \E stage \in {"indexing", "droppingLink", "droppingIndex"} : Goto(i, stage)
    BY <1>2 DEF LinkAccount, IndexAccount, DropLink, DropIndex, Fail
  <2>3. \A stage \in {"indexing", "droppingLink", "droppingIndex"} :
            /\ stage \in Stages /\ stage \notin Passed
            /\ stage \notin Named /\ stage \notin Renewing
    BY DEF Stages, Passed, Named, Renewing
  <2> QED BY <2>1, <2>2, <2>3, FInvGoes
<1>3. CASE FindLink(i)
  <2>1. TokensHaveFlow' /\ Keeps(i)
    BY <1>3, SameTokens, UnlinkKeeps DEF FindLink, redis
  <2>2. attempts'[i].stage \in {"idle", "unlinking"}
    <3> DEFINE k == links[attempts[i].user][attempts[i].provider]
    <3>1. attempts'[i] = IF k = None THEN Idle
                         ELSE [attempts[i] EXCEPT !.stage = "unlinking", !.account = k]
      BY <1>3 DEF FindLink, TInv, TypeOK
    <3>2. [attempts[i] EXCEPT !.stage = "unlinking", !.account = k].stage = "unlinking"
      BY DEF TInv, TypeOK, Attempt
    <3> HIDE DEF k
    <3> QED BY <3>1, <3>2, Fields
  <2>3. attempts'[i].stage \notin Passed \cup Named \cup Renewing
    BY <2>2 DEF Passed, Named, Renewing
  <2>4. SameIn(Passed) /\ SameIn(Named) /\ SameIn(Renewing)
    BY <2>1, <2>3 DEF SameIn, Keeps
  <2> QED BY <2>1, <2>4, FInvSame
<1>4. CASE TimeOut(i)
  <2>1. PICK j \in Attempts : Retrying(i, j)
    BY <1>4, TimingOut DEF TInv, TypeOK
  <2>2. j # i => attempts'[j].stage \in {"reading", "looking", "linking", "resolving"}
    BY <2>1 DEF Retrying, Again
  <2>3. \A stage \in {"reading", "looking", "linking", "resolving"} :
            stage \notin Passed /\ stage \notin Named /\ stage \notin Renewing
    BY DEF Passed, Named, Renewing
  <2>4. SameIn(Passed) /\ SameIn(Named) /\ SameIn(Renewing)
    BY <2>1, <2>2, <2>3 DEF SameIn, Retrying, Alike
  <2>5. TokensHaveFlow'
    BY <1>4, SameTokens DEF TimeOut, redis
  <2> QED BY <2>4, <2>5, FInvSame
<1> QED BY <1>1, <1>2, <1>3, <1>4, FInvDelete, FInvFetch, FInvStore, FInvRefresh DEF Step

LEMMA TokensNext ==
    ASSUME TInv, StateSpent, FInv, Next
    PROVE  FInv'
<1>0. FlowsLast
  BY NextLast
<1>1. ASSUME attempts' = attempts
      PROVE  SameIn(Passed) /\ SameIn(Named) /\ SameIn(Renewing)
  BY <1>1 DEF SameIn
<1>2. CASE \/ Initialize \/ UNCHANGED vars
           \/ \E f \in Flows, p \in Enabled : GetAuthorizationUrl(f, p)
           \/ \E f \in Flows, u \in Users : Authorize(f, u)
           \/ \E f \in Flows : LapseState(f)
  <2>1. attempts' = attempts /\ tokens' = tokens
    BY <1>2 DEF Initialize, GetAuthorizationUrl, Authorize, LapseState, vars, redis
  <2> QED BY <1>0, <1>1, <2>1, SameTokens, FInvSame
<1>3. ASSUME NEW u \in Users, NEW p \in Enabled, LapseTokens(u, p)
      PROVE  FInv'
  <2>1. attempts' = attempts /\ tokens' = [tokens EXCEPT ![u][p] = None]
    BY <1>3 DEF LapseTokens
  <2>2. \A v \in Users, q \in Enabled : tokens'[v][q] \in {tokens[v][q], None}
    BY <2>1 DEF TInv, TypeOK
  <2>3. TokensHaveFlow'
    BY <1>0, <2>2, TokensStay
  <2> QED BY <1>0, <1>1, <2>1, <2>3, FInvSame
<1>4. CASE Restart
  <2>1. attempts' = [i \in Attempts |-> Idle] /\ tokens' = tokens
    BY <1>4 DEF Restart, redis
  <2>2. SameIn(Passed) /\ SameIn(Named) /\ SameIn(Renewing)
    BY <2>1, Fields, NotIdle DEF SameIn
  <2> QED BY <1>0, <2>1, <2>2, SameTokens, FInvSame
<1>5. ASSUME NEW i \in Attempts,
             \/ \E f \in Flows, p \in Enabled : HandleCallback(i, f, p)
             \/ \E u \in Users, p \in Enabled : RefreshProviderToken(i, u, p)
             \/ \E u \in Users, p \in Enabled, a \in Accounts : Link(i, u, a, p)
             \/ \E u \in Users, p \in Enabled : Unlink(i, u, p)
      PROVE  FInv'
  <2>1. Keeps(i)
    BY <1>5, BeginningKeeps
  <2>2. tokens' = tokens
    BY <1>5 DEF HandleCallback, RefreshProviderToken, Link, Unlink, redis
  <2>3. attempts'[i].stage \in {"reading", "looking", "linking", "resolving"}
    BY <1>5 DEF HandleCallback, RefreshProviderToken, Link, Unlink, Begin, TInv, TypeOK
  <2>4. \A stage \in {"reading", "looking", "linking", "resolving"} :
            stage \notin Passed /\ stage \notin Named /\ stage \notin Renewing
    BY DEF Passed, Named, Renewing
  <2>5. SameIn(Passed) /\ SameIn(Named) /\ SameIn(Renewing)
    BY <2>1, <2>3, <2>4 DEF SameIn, Keeps
  <2> QED BY <1>0, <2>2, <2>5, SameTokens, FInvSame
<1>6. ASSUME NEW i \in Attempts, Step(i)
      PROVE  FInv'
  BY <1>0, <1>6, FInvStep
<1> QED BY <1>2, <1>3, <1>4, <1>5, <1>6, Cases

LEMMA TokensFirst ==
    ASSUME Init
    PROVE  FInv
<1>1. /\ attempts = [i \in Attempts |-> Idle] /\ flows = [f \in Flows |-> NoFlow]
      /\ tokens = [u \in Users |-> [p \in Enabled |-> None]]
  BY DEF Init
<1>2. \A i \in Attempts : attempts[i].stage = "idle"
  BY <1>1, Fields
<1> QED BY <1>1, <1>2, FlowFields, NotIdle DEF FInv, TokensHaveFlow

\* The inductive invariant: types, and what each stage of an attempt needs; a
\* code is with the provider, or with one attempt, or has signed its user in;
\* until links and index have a cause to disagree, an attempt that is at work
\* accounts for every difference between them; and an attempt that is about to
\* store tokens has a flow of its user to show for them.
THEOREM Invariance == Spec => [](TInv /\ StateSpent /\ LInv /\ FInv)
<1>1. Init => TInv /\ StateSpent /\ LInv /\ FInv
  BY TypesFirst, LinksFirst, TokensFirst
<1>2. TInv /\ StateSpent /\ LInv /\ FInv /\ [Next]_vars
      => (TInv /\ StateSpent /\ LInv /\ FInv)'
  <2> SUFFICES ASSUME TInv, StateSpent, LInv, FInv, [Next]_vars
               PROVE  (TInv /\ StateSpent /\ LInv /\ FInv)'
    OBVIOUS
  <2>1. CASE Next
    BY <2>1, TypesNext, LinksNext, TokensNext
  <2>2. CASE UNCHANGED vars
    <3>1. UNCHANGED <<attempts, links, index, excused, work>>
      BY <2>2 DEF vars, redis, bounds
    <3>2. LInv'
      BY <3>1 DEF LInv, WorkFits, OneRequest, Pairs, Halves, About
    <3>3. FInv'
      BY <2>2 DEF vars, redis, FInv, TokensHaveFlow, HasFlow, Signed
    <3> QED BY <3>2, <3>3, TypesNext
  <2> QED BY <2>1, <2>2
<1> QED BY <1>1, <1>2, PTL DEF Spec

\* Every variable keeps its type, for any number of users, accounts, flows and
\* attempts, and whichever providers are configured.
THEOREM TypesHold == Spec => []TypeOK
<1>1. TInv => TypeOK
  BY DEF TInv
<1> QED BY <1>1, Invariance, PTL

\* validateAndRetrieveState: an attempt that was let through has taken its state
\* from Redis, whatever lapses, fails, times out or starts again meanwhile.
THEOREM StatesAreSpent == Spec => []StateSpent
BY Invariance, PTL

\* Of the attempts that one state lets through, as many as there are, one signs
\* its user in: the others do not have the code.
THEOREM OneLoginAlways == Spec => []OneLoginPerCode
<1>1. TInv => OneLoginPerCode
  BY DEF TInv, CodesOnce, OneLoginPerCode
<1> QED BY <1>1, Invariance, PTL

\* linkAccount and unlinkAccount write the link and the index one after the
\* other, and attempts of one request that timed out write them again in any
\* order: when all have ended, links and index agree.
THEOREM LinksAlwaysAgree == Spec => []LinksAgree
<1>1. LInv => LinksAgree
  <2> SUFFICES ASSUME LInv, ~ excused, \A i \in Attempts : attempts[i] = Idle,
                      NEW u \in Users, NEW p \in Enabled, NEW a \in Accounts
               PROVE  links[u][p] = a <=> index[p][a] = u
    BY DEF LinksAgree
  <2>1. \A i \in Attempts : attempts[i].stage = "idle"
    BY Fields
  <2>2. Pairs
    BY DEF LInv
  <2> QED BY <2>1, <2>2 DEF Pairs
<1> QED BY <1>1, Invariance, PTL

\* Whoever stored them, and however late, the tokens of a user at a provider go
\* back to a flow for that provider that this user came back from: handleCallback
\* compares the state's provider, and refreshProviderToken renews what it read.
THEOREM TokensAlwaysHaveFlows == Spec => []TokensHaveFlow
<1>1. FInv => TokensHaveFlow
  BY DEF FInv
<1> QED BY <1>1, Invariance, PTL
=============================================================================
