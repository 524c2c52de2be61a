------------------------------ MODULE MfaProofs ------------------------------
(***************************************************************************)
(* Theorems about Mfa, for every value of its constants: its types, what   *)
(* holds of challenges and their rate, that a removed method stays         *)
(* removed, that a user who has a method keeps one, and that one method    *)
(* at most is the primary.                                                 *)
(***************************************************************************)
EXTENDS Mfa, TLAPS

-----------------------------------------------------------------------------
(* The inductive invariant.                                                *)

Judged == {"loadMethod", "drop", "charge"}
Accepted == {"touch", "trust"}
Verifying == {"loadChallenge", "dropLate"} \cup Judged \cup Accepted

\* A request has what its step needs.
Fits(q) ==
    /\ q.op = "verify" <=> q.pc \in Verifying
    /\ q.op = "verify" => q.c \in Challenges
    /\ q.pc \in {"loadMethod", "charge"} => q.count \in 1..MaxAttempts
    /\ q.pc = "rateWrite" => q.count < RateLimit
    /\ \/ q.op \in {"confirm", "remove"}
       \/ q.pc \in {"setupCode", "rateRead", "rateWrite", "challengeStore", "loadMethod"}
       => q.m \in Methods
    /\ q.pc \in {"confirmRead", "confirmCode", "confirmStore", "confirmAdd", "confirmClean"}
           => q.op = "confirm"
    /\ q.pc \in {"removeRead", "delete", "unlist"} => q.op = "remove"
    /\ q.pc = "rewrite" => q.target # None
    /\ q.pc = "setupStore" => q.op = "setup"

TInv == TypeOK /\ \A r \in Requests : Fits(req[r])

\* What a challenge has left, and what was guessed, is within the bound.
Left(c) ==
    /\ wrong[c] <= MaxAttempts
    /\ challenge[c].stored => challenge[c].attempts + wrong[c] <= MaxAttempts
    /\ \A r \in Requests :
           Judging(r, c) /\ req[r].pc # "drop" => req[r].count + wrong[c] <= MaxAttempts

\* Request r accepts challenge c; c is spent.
Accepting(r, c) == req[r].pc \in Accepted /\ req[r].c = c
Spent(c) == wins[c] # 0 \/ \E r \in Requests : Accepting(r, c)

Once(c) ==
    /\ wins[c] <= 1
    /\ wins[c] # 0 => \A r \in Requests : ~ Accepting(r, c)
    /\ \A r, s \in Requests : Accepting(r, c) /\ Accepting(s, c) => r = s
    /\ Spent(c) => /\ ~ challenge[c].stored
                   /\ \A r \in Requests : ~ Judging(r, c)

\* A challenge that was not drawn yet is known to nobody.
Undrawn ==
    \A c \in Challenges : about[c] = None =>
        /\ wrong[c] = 0 /\ wins[c] = 0
        /\ \A r \in Requests : req[r].op = "verify" => req[r].c # c

ChallengesHold ==
    /\ \A c \in Challenges :
           (\E r, s \in Requests : r # s /\ Judging(r, c) /\ Judging(s, c)) => c \in contested
    /\ \A c \in Challenges \ contested : Left(c) /\ Once(c)

RateInv ==
    ~ rushed => /\ started <= rate /\ rate <= RateLimit
                /\ \A r \in Requests : req[r].pc = "rateWrite" => started <= req[r].count
                /\ \A r, s \in Requests :
                       req[r].pc = "rateWrite" /\ req[s].pc = "rateWrite" => r = s

\* Nobody could write a method back that was removed, or is about to be unlisted.
Gone(m) == ~ method[m].stored /\ \A r \in Requests : ~ Holds(r, m)
MethodsGone ==
    /\ \A m \in Methods : Stale(m) => m \in stale
    /\ \A m \in removed \ stale : Gone(m)
    /\ \A r \in Requests, m \in Methods :
           req[r].pc = "unlist" /\ req[r].m = m /\ m \notin stale => Gone(m)
    /\ \A m \in removed : kind[m] # None
    /\ \A r \in Requests : req[r].op = "remove" => kind[req[r].m] # None

IInv == TInv /\ Undrawn /\ ChallengesHold /\ RateInv /\ MethodsGone

-----------------------------------------------------------------------------
(* Requests, by what changes in them.                                      *)

Only(r) ==
    /\ req' \in [Requests -> Request]
    /\ \A s \in Requests \ {r} : req'[s] = req[s]

LEMMA IdleFields ==
    /\ Idle \in Request
    /\ Idle.pc = "idle" /\ Idle.op = None /\ Idle.m = None /\ Idle.c = None
    /\ Idle.copy = Absent /\ Idle.found = [m \in Methods |-> Absent] /\ Idle.todo = {}
    /\ Idle.pend = {} /\ Idle.target = None /\ Idle.count = 0 /\ Idle.swallowed = FALSE
    /\ Absent \in Value /\ Absent.stored = FALSE
<1>1. Absent \in Value /\ Absent.stored = FALSE
  BY DEF Absent, Value
<1>2. "idle" \in PCs
  BY DEF PCs
<1> QED BY <1>1, <1>2 DEF Idle, Request

LEMMA Becoming ==
    ASSUME TypeOK, NEW r \in Requests, NEW q \in Request, Become(r, q)
    PROVE  Only(r) /\ req'[r] = q
BY DEF TypeOK, Become, Only

LEMMA Answering ==
    ASSUME TypeOK, NEW r \in Requests, Answer(r)
    PROVE  Only(r) /\ req'[r] = Idle
BY IdleFields, Becoming DEF Answer

\* What a request keeps as it goes on.
Kin(v, q) == v.op = q.op /\ v.m = q.m /\ v.c = q.c /\ v.target = q.target

LEMMA Named ==
    PCs = {"idle", "setupStore", "setupCode", "confirmRead", "confirmCode", "members", "read",
           "confirmStore", "confirmAdd", "confirmClean", "removeRead", "delete", "unlist",
           "rewrite", "rateRead", "rateWrite", "challengeStore", "loadChallenge", "dropLate",
           "loadMethod", "drop", "touch", "trust", "charge"}
BY DEF PCs

LEMMA Starting ==
    ASSUME TypeOK, NEW r \in Requests, NEW op, NEW pc \in PCs, NEW m \in Methods \cup {None},
           NEW c \in Challenges \cup {None}, Start(r, op, pc, m, c)
    PROVE  /\ Only(r) /\ op \in Ops /\ req[r].pc = "idle"
           /\ req'[r].pc = pc /\ req'[r].op = op /\ req'[r].m = m /\ req'[r].c = c
           /\ req'[r].target = None
<1> DEFINE q == [Idle EXCEPT !.pc = pc, !.op = op, !.m = m, !.c = c]
<1>1. op \in Ops /\ Become(r, q) /\ req[r].pc = "idle"
  BY KindsAssumption DEF Start
<1>2. q \in Request /\ q.pc = pc /\ q.op = op /\ q.m = m /\ q.c = c /\ q.target = None
  BY <1>1, IdleFields DEF Request
<1> HIDE DEF q
<1> QED BY <1>1, <1>2, Becoming

-----------------------------------------------------------------------------
(* The list of methods, and what is made of it.                            *)

LEMMA Listing ==
    ASSUME NEW q \in Request, NEW v \in AfterList(q)
    PROVE  /\ v \in Request
           /\ \/ v = Idle
              \/ /\ v.op = q.op /\ v.c = q.c /\ v.target = q.target /\ v.count = q.count
                 /\ \/ v.pc = "rewrite" /\ v.pend = Listed(q) /\ v.m = q.m /\ v.target # None
                    \/ v.pc = "confirmStore" /\ q.op = "confirm" /\ v.m = q.m
                    \/ v.pc = "delete" /\ q.op = "remove" /\ v.m = q.m
                    \/ v.pc = "rateRead" /\ q.op \notin {"confirm", "remove"} /\ v.m \in Methods
<1> DEFINE w == [q EXCEPT !.pc = "rewrite", !.pend = Listed(q)]
           s == [q EXCEPT !.pc = "confirmStore"]
           d == [q EXCEPT !.pc = "delete"]
           e(m) == [q EXCEPT !.pc = "rateRead", !.m = m, !.found = Idle.found]
<1>1. CASE v = Idle
  BY <1>1, IdleFields
<1>2. CASE v # Idle
  <2>1. \/ v = w /\ q.target # None
        \/ q.op = "confirm" /\ v = s
        \/ q.op = "remove" /\ v = d
        \/ q.op \notin {"confirm", "remove"} /\ \E m \in Usable(q) : v = e(m)
    BY <1>2 DEF AfterList
  <2>2. Listed(q) \subseteq Methods /\ Usable(q) \subseteq Methods
    BY DEF Listed, Usable
  <2>3. w \in Request /\ w.pc = "rewrite" /\ w.pend = Listed(q) /\ Kin(w, q) /\ w.count = q.count
    BY <2>2, Named DEF Request, Kin
  <2>4. /\ s \in Request /\ s.pc = "confirmStore" /\ Kin(s, q) /\ s.count = q.count
        /\ d \in Request /\ d.pc = "delete" /\ Kin(d, q) /\ d.count = q.count
    BY Named DEF Request, Kin
  <2>5. \A m \in Methods : /\ e(m) \in Request /\ e(m).pc = "rateRead" /\ e(m).op = q.op
                           /\ e(m).c = q.c /\ e(m).target = q.target /\ e(m).m = m
                           /\ e(m).count = q.count
    BY IdleFields, Named DEF Request
  <2> HIDE DEF w, s, d, e
  <2> QED BY <2>1, <2>2, <2>3, <2>4, <2>5 DEF Kin
<1> QED BY <1>1, <1>2

LEMMA ReadingOn ==
    ASSUME NEW q \in Request, NEW v \in ReadOn(q)
    PROVE  /\ v \in Request
           /\ \/ v = Idle
              \/ /\ v.op = q.op /\ v.c = q.c /\ v.target = q.target /\ v.count = q.count
                 /\ \/ v.pc = "read" /\ v.found = q.found /\ v.m = q.m
                    \/ v.pc = "rewrite" /\ v.pend = Listed(q) /\ v.m = q.m /\ v.target # None
                    \/ v.pc = "confirmStore" /\ q.op = "confirm" /\ v.m = q.m
                    \/ v.pc = "delete" /\ q.op = "remove" /\ v.m = q.m
                    \/ v.pc = "rateRead" /\ q.op \notin {"confirm", "remove"} /\ v.m \in Methods
<1>1. CASE v \in AfterList(q)
  BY <1>1, Listing
<1> DEFINE w == [q EXCEPT !.pc = "read"]
<1>2. w \in Request /\ w.pc = "read" /\ Kin(w, q) /\ w.found = q.found /\ w.count = q.count
  BY Named DEF Request, Kin
<1>3. v \in AfterList(q) \/ v = w
  BY DEF ReadOn
<1> HIDE DEF w
<1> QED BY <1>1, <1>2, <1>3 DEF Kin

\* A request reads the list on, or goes on from it: what it has of a method,
\* is stored, or it had it.
Lists(r) ==
    /\ Only(r) /\ req[r].pc \in {"members", "read"}
    /\ \/ req'[r] = Idle
       \/ /\ req'[r].op = req[r].op /\ req'[r].c = req[r].c /\ req'[r].target = req[r].target
          /\ \/ req'[r].pc = "read" /\ req'[r].m = req[r].m
             \/ req'[r].pc = "rewrite" /\ req'[r].m = req[r].m /\ req'[r].target # None
             \/ req'[r].pc = "confirmStore" /\ req[r].op = "confirm" /\ req'[r].m = req[r].m
             \/ req'[r].pc = "delete" /\ req[r].op = "remove" /\ req'[r].m = req[r].m
             \/ req'[r].pc = "rateRead" /\ req[r].op \notin {"confirm", "remove"} /\ req'[r].m \in Methods
          /\ \A m \in Methods :
                 \/ req'[r].pc = "read" /\ req'[r].found[m].stored
                 \/ req'[r].pc = "rewrite" /\ m \in req'[r].pend
                 => method[m].stored \/ (req[r].pc = "read" /\ req[r].found[m].stored)

LEMMA ListingMembers ==
    ASSUME TInv, NEW r \in Requests, Members(r)
    PROVE  Lists(r) /\ UNCHANGED <<redis, facts, told>>
<1>1. PICK ids \in SUBSET Methods :
          \E q \in ReadOn([req[r] EXCEPT !.todo = ids, !.found = Idle.found,
                                         !.swallowed = @ \/ ids # members]) : Become(r, q)
  BY DEF Members, TInv, TypeOK
<1> DEFINE b == req[r].swallowed \/ ids # members
           p == [req[r] EXCEPT !.todo = ids, !.found = Idle.found, !.swallowed = b]
<1>2. req[r] \in Request
  BY DEF TInv, TypeOK
<1>3. b \in BOOLEAN
  OBVIOUS
<1>4. PICK q \in ReadOn(p) : Become(r, q)
  BY <1>1
<1> HIDE DEF b
<1>5. /\ p \in Request /\ Kin(p, req[r]) /\ p.found = [m \in Methods |-> Absent]
  BY <1>2, <1>3, IdleFields DEF Request, Kin
<1> HIDE DEF p
<1>6. Only(r) /\ req'[r] = q
  BY <1>4, <1>5, ReadingOn, Becoming DEF TInv
<1>7. Listed(p) = {} /\ \A m \in Methods : ~ p.found[m].stored
  BY <1>5, IdleFields DEF Listed
<1> QED BY <1>4, <1>5, <1>6, <1>7, ReadingOn DEF Members, Lists, Kin

LEMMA ListingRead ==
    ASSUME TInv, NEW r \in Requests, Read(r)
    PROVE  Lists(r) /\ UNCHANGED <<redis, facts, told>>
<1>1. CASE Answer(r)
  BY <1>1, Answering DEF Read, Throw, Lists, TInv
<1>2. CASE \E m \in req[r].todo :
              \E q \in ReadOn([req[r] EXCEPT !.todo = @ \ {m}, !.found[m] = method[m]]) :
                 Become(r, q)
  <2>1. PICK n \in req[r].todo :
            \E q \in ReadOn([req[r] EXCEPT !.todo = @ \ {n}, !.found[n] = method[n]]) :
               Become(r, q)
    BY <1>2
  <2> DEFINE f == [req[r].found EXCEPT ![n] = method[n]]
             t == req[r].todo \ {n}
             p == [req[r] EXCEPT !.todo = t, !.found = f]
  <2>2. req[r] \in Request /\ n \in Methods /\ method[n] \in Value
    BY DEF TInv, TypeOK, Request
  <2>3. /\ f \in [Methods -> Value] /\ t \in SUBSET Methods
        /\ \A m \in Methods : f[m] \in {req[r].found[m], method[m]}
    BY <2>2 DEF Request
  <2>4. PICK q \in ReadOn(p) : Become(r, q)
    BY <2>1
  <2> HIDE DEF f, t
  <2>5. p \in Request /\ Kin(p, req[r]) /\ p.found = f
    BY <2>2, <2>3 DEF Request, Kin
  <2> HIDE DEF p
  <2>6. Only(r) /\ req'[r] = q
    BY <2>4, <2>5, ReadingOn, Becoming DEF TInv
  <2>7. \A m \in Methods : p.found[m].stored => method[m].stored \/ req[r].found[m].stored
    BY <2>3, <2>5
  <2>8. \A m \in Listed(p) : m \in Methods /\ p.found[m].stored
    BY DEF Listed
  <2>9. /\ q = Idle \/ (/\ q.op = p.op /\ q.c = p.c /\ q.target = p.target
                       /\ \/ q.pc = "read" /\ q.found = p.found /\ q.m = p.m
                          \/ q.pc = "rewrite" /\ q.pend = Listed(p) /\ q.m = p.m /\ q.target # None
                          \/ q.pc = "confirmStore" /\ p.op = "confirm" /\ q.m = p.m
                          \/ q.pc = "delete" /\ p.op = "remove" /\ q.m = p.m
                          \/ q.pc = "rateRead" /\ p.op \notin {"confirm", "remove"} /\ q.m \in Methods)
    BY <2>4, <2>5, ReadingOn
  <2>10. req[r].pc = "read" /\ UNCHANGED <<redis, facts, told>>
    BY DEF Read, Throw
  <2> QED BY <2>5, <2>6, <2>7, <2>8, <2>9, <2>10 DEF Lists, Kin
<1> QED BY <1>1, <1>2 DEF Read, Throw

-----------------------------------------------------------------------------
(* What a step does, as far as the invariant looks.                        *)

\* Request r moves: what it holds it held, or it is stored; the challenge it
\* verifies was drawn, the method it removes was set up.
Moves(r) ==
    /\ Only(r) /\ Fits(req'[r])
    /\ \A m \in Methods : Holds(r, m)' => Holds(r, m) \/ method[m].stored
    /\ req'[r].op = "remove" =>
          \/ req[r].op = "remove" /\ req'[r].m = req[r].m
          \/ kind[req'[r].m] # None
    /\ req'[r].op = "verify" =>
          \/ req[r].op = "verify" /\ req'[r].c = req[r].c
          \/ about[req'[r].c] # None

\* It goes where no other part of the invariant looks.
Calm(r) == req'[r].pc \notin Judged \cup Accepted \cup {"rateWrite", "unlist"}

\* What is stored was stored before, or somebody held it, or it is new.
Data ==
    /\ method' \in [Methods -> Value]
    /\ members' \subseteq Methods /\ setupCode' \subseteq Methods
    /\ challenge' \in [Challenges -> [stored : BOOLEAN, attempts : 0..MaxAttempts]]
    /\ rate' \in Nat /\ started' \in Nat
    /\ kind' \in [Methods -> MethodTypes \cup {None}]
    /\ about' \in [Challenges -> Methods \cup {None}]
    /\ late' \subseteq Challenges /\ renewed' \subseteq Challenges
    /\ wrong' \in [Challenges -> Nat] /\ wins' \in [Challenges -> Nat]
    /\ removed' \subseteq Methods
    /\ \A m \in Methods : method'[m].stored =>
          method[m].stored \/ kind[m] = None \/ \E r \in Requests : Holds(r, m)
    /\ \A m \in Methods : kind[m] # None => kind'[m] # None
    /\ \A c \in Challenges : about[c] # None => about'[c] # None
    /\ \A c \in Challenges : about[c] = None => wrong'[c] = wrong[c] /\ wins'[c] = wins[c]

\* Nothing is counted, and no challenge changes but that it goes.
Uncounted ==
    /\ rate' = rate /\ UNCHANGED told
    /\ \A c \in Challenges : challenge'[c] = challenge[c] \/ ~ challenge'[c].stored

Ordinary(r) == Moves(r) /\ Calm(r) /\ Data /\ Uncounted

LEMMA Same ==
    ASSUME TypeOK, UNCHANGED <<redis, facts, told>>
    PROVE  Data /\ Uncounted /\ method' = method /\ challenge' = challenge /\ about' = about
BY DEF TypeOK, Data, Uncounted, redis, facts, told

LEMMA Ends ==
    ASSUME TInv, NEW r \in Requests, Answer(r)
    PROVE  Only(r) /\ req'[r] = Idle /\ Moves(r) /\ Calm(r)
<1>1. Only(r) /\ req'[r] = Idle
  BY Answering DEF TInv
<1>2. Fits(Idle)
  BY IdleFields, NoneAssumption DEF Fits, Ops, Verifying, Judged, Accepted
<1>3. \A m \in Methods : ~ Holds(r, m)'
  BY <1>1, IdleFields, NoneAssumption DEF Holds, Ops
<1>4. req'[r].op = None /\ req'[r].pc = "idle" /\ None \notin Ops
  BY <1>1, IdleFields, NoneAssumption
<1> QED BY <1>1, <1>2, <1>3, <1>4 DEF Moves, Calm, Ops, Judged, Accepted

LEMMA EndsQuietly ==
    ASSUME TInv, NEW r \in Requests, Answer(r), UNCHANGED <<redis, facts, told>>
    PROVE  Ordinary(r)
BY Ends, Same DEF TInv, Ordinary

\* A request that only goes on keeps what Moves asks for.
LEMMA GoesOn ==
    ASSUME TInv, NEW r \in Requests, Only(r), req'[r].op = req[r].op, req'[r].c = req[r].c,
           req[r].op = "remove" => req'[r].m = req[r].m, Fits(req'[r]),
           \A m \in Methods : Holds(r, m)' => Holds(r, m) \/ method[m].stored
    PROVE  Moves(r)
BY DEF Moves

LEMMA DoListing ==
    ASSUME TInv, NEW r \in Requests, Lists(r), UNCHANGED <<redis, facts, told>>
    PROVE  Ordinary(r)
<1>1. CASE req'[r] = Idle
  <2>1. Fits(Idle)
    BY IdleFields, NoneAssumption DEF Fits, Ops, Verifying, Judged, Accepted
  <2>2. \A m \in Methods : ~ Holds(r, m)'
    BY <1>1, IdleFields, NoneAssumption DEF Holds, Ops
  <2>3. req'[r].op = None /\ req'[r].pc = "idle" /\ None \notin Ops
    BY <1>1, IdleFields, NoneAssumption
  <2>4. Moves(r) /\ Calm(r)
    BY <1>1, <2>1, <2>2, <2>3 DEF Lists, Moves, Calm, Ops, Judged, Accepted
  <2> QED BY <2>4, Same DEF TInv, Ordinary
<1>2. CASE req'[r] # Idle
  <2>1. Fits(req[r]) /\ req[r].pc \in {"members", "read"}
    BY DEF TInv, Lists
  <2>2. req'[r].pc \in {"read", "rewrite", "confirmStore", "delete", "rateRead"}
    BY <1>2 DEF Lists
  <2>3. Fits(req'[r])
    BY <1>2, <2>1, <2>2 DEF Lists, Fits, Verifying, Judged, Accepted
  <2>4. ASSUME NEW m \in Methods, Holds(r, m)' PROVE Holds(r, m) \/ method[m].stored
    BY <1>2, <2>1, <2>2, <2>4 DEF Lists, Holds
  <2>5. req[r].op = "remove" => req'[r].m = req[r].m
    BY <1>2 DEF Lists
  <2>6. Moves(r)
    BY <1>2, <2>3, <2>4, <2>5, GoesOn DEF Lists
  <2> QED BY <2>2, <2>6, Same DEF TInv, Ordinary, Calm, Judged, Accepted
<1> QED BY <1>1, <1>2

-----------------------------------------------------------------------------
(* What each action does: the methods.                                     *)

LEMMA Starts ==
    ASSUME TInv, NEW r \in Requests, NEW op, NEW pc \in PCs, NEW m \in Methods \cup {None},
           NEW c \in Challenges \cup {None}, Start(r, op, pc, m, c),
           \/ op = "setup" /\ pc = "setupStore"
           \/ op = "confirm" /\ pc = "confirmRead" /\ m \in Methods
           \/ op = "remove" /\ pc = "removeRead" /\ m \in Methods /\ kind[m] # None
           \/ op = "challenge" /\ pc = "members"
           \/ op = "verify" /\ pc = "loadChallenge" /\ c \in Challenges /\ about[c] # None,
           UNCHANGED <<redis, facts, told>>
    PROVE  Ordinary(r)
<1>1. /\ Only(r) /\ req'[r].pc = pc /\ req'[r].op = op /\ req'[r].m = m /\ req'[r].c = c
      /\ req'[r].target = None
  BY Starting DEF TInv
<1>2. Fits(req'[r])
  BY <1>1 DEF Fits, Verifying, Judged, Accepted
<1>3. \A n \in Methods : ~ Holds(r, n)'
  BY <1>1 DEF Holds
<1>4. Moves(r) /\ Calm(r)
  BY <1>1, <1>2, <1>3 DEF Moves, Calm, Judged, Accepted
<1> QED BY <1>4, Same DEF TInv, Ordinary

LEMMA DoArrive ==
    ASSUME TInv, NEW r \in Requests, Arrive(r)
    PROVE  Ordinary(r)
<1>1. CASE StartSetup(r)
  BY <1>1, Starts, Named DEF StartSetup
<1>2. CASE StartConfirm(r)
  BY <1>2, Starts, Named DEF StartConfirm
<1>3. CASE StartRemove(r)
  BY <1>3, Starts, Named DEF StartRemove, Known
<1>4. CASE StartChallenge(r)
  BY <1>4, Starts, Named DEF StartChallenge
<1>5. CASE StartVerify(r)
  BY <1>5, Starts, Named DEF StartVerify
<1>6. CASE StartPrimary(r)
  <2>1. PICK m \in Methods : Become(r, [Idle EXCEPT !.pc = "members", !.op = "primary", !.target = m])
    BY <1>6 DEF StartPrimary
  <2> DEFINE v == [Idle EXCEPT !.pc = "members", !.op = "primary", !.target = m]
  <2>2. v \in Request /\ v.pc = "members" /\ v.op = "primary"
    BY IdleFields, Named DEF Request, Ops
  <2>3. Become(r, v)
    BY <2>1
  <2> HIDE DEF v
  <2>4. Only(r) /\ req'[r] = v
    BY <2>2, <2>3, Becoming DEF TInv
  <2>5. Fits(req'[r])
    BY <2>2, <2>4 DEF Fits, Verifying, Judged, Accepted
  <2>6. \A n \in Methods : ~ Holds(r, n)'
    BY <2>2, <2>4 DEF Holds
  <2>7. Moves(r) /\ Calm(r)
    BY <2>2, <2>4, <2>5, <2>6 DEF Moves, Calm, Judged, Accepted
  <2> QED BY <1>6, <2>7, Same DEF TInv, Ordinary, StartPrimary
<1> QED BY <1>1, <1>2, <1>3, <1>4, <1>5, <1>6 DEF Arrive, MethodRoutes, LoginRoutes

\* A request that goes on by itself, to a step that is not of a list.
LEMMA GoesTo ==
    ASSUME TInv, NEW r \in Requests, NEW v \in Request, Become(r, v), Kin(v, req[r]), Fits(v),
           v.pc \notin {"read", "rewrite"},
           v.op = "confirm" /\ v.pc \in {"confirmCode", "members", "confirmStore"} =>
              req[r].pc \in {"confirmCode", "members", "read", "confirmStore"}
              \/ method[v.m].stored,
           v.op = "verify" /\ v.pc \in {"drop", "touch"} =>
              req[r].pc \in {"drop", "touch"} \/ method[v.m].stored
    PROVE  Only(r) /\ req'[r] = v /\ Moves(r)
<1>1. Only(r) /\ req'[r] = v
  BY Becoming DEF TInv
<1>2. ASSUME NEW m \in Methods, Holds(r, m)' PROVE Holds(r, m) \/ method[m].stored
  BY <1>1, <1>2 DEF Holds, Kin
<1> QED BY <1>1, <1>2, GoesOn DEF Kin

\* A step of pc alone that stores nothing.
LEMMA Passes ==
    ASSUME TInv, NEW r \in Requests, NEW v \in Request, Become(r, v), Kin(v, req[r]), Fits(v),
           v.pc \notin {"read", "rewrite", "rateWrite", "unlist"} \cup Judged \cup Accepted,
           v.op = "confirm" /\ v.pc \in {"confirmCode", "members", "confirmStore"} =>
              req[r].pc \in {"confirmCode", "members", "read", "confirmStore"}
              \/ method[v.m].stored
    PROVE  Only(r) /\ req'[r] = v /\ Moves(r) /\ Calm(r)
<1>1. Only(r) /\ req'[r] = v /\ Moves(r)
  BY GoesTo DEF Judged, Accepted
<1> QED BY <1>1 DEF Calm

LEMMA Storing ==
    ASSUME TypeOK, NEW m, NEW w \in Value, method' = [method EXCEPT ![m] = w],
           w.stored /\ m \in Methods => method[m].stored \/ \E r \in Requests : Holds(r, m),
           UNCHANGED <<members, setupCode, challenge, rate, facts, told>>
    PROVE  Data /\ Uncounted /\ \A n \in Methods : method'[n] = IF n = m THEN w ELSE method[n]
<1>1. /\ method' \in [Methods -> Value]
      /\ \A n \in Methods : method'[n] = IF n = m THEN w ELSE method[n]
  BY DEF TypeOK
<1>2. \A n \in Methods : method'[n].stored =>
          method[n].stored \/ kind[n] = None \/ \E r \in Requests : Holds(r, n)
  BY <1>1
<1> QED BY <1>1, <1>2 DEF TypeOK, Data, Uncounted, facts, told

LEMMA Keeping ==
    ASSUME TypeOK, members' \subseteq Methods, setupCode' \subseteq Methods,
           UNCHANGED <<method, challenge, rate, facts, told>>
    PROVE  Data /\ Uncounted
BY DEF TypeOK, Data, Uncounted, facts, told

LEMMA DoSetupStore ==
    ASSUME TInv, NEW r \in Requests, SetupStore(r)
    PROVE  Ordinary(r)
<1>1. CASE Throw(r)
  BY <1>1, EndsQuietly DEF Throw
<1>2. CASE ~ Throw(r)
  <2>1. PICK m \in Methods, t \in MethodTypes :
          /\ kind[m] = None
          /\ kind' = [kind EXCEPT ![m] = t]
          /\ method' = [method EXCEPT ![m] = [Absent EXCEPT !.stored = TRUE]]
          /\ Become(r, IF t \in Sent THEN [req[r] EXCEPT !.pc = "setupCode", !.m = m] ELSE Idle)
          /\ UNCHANGED <<members, setupCode, challenge, rate, about, late, renewed, told>>
    BY <1>2 DEF SetupStore
  <2> DEFINE w == [Absent EXCEPT !.stored = TRUE]
             v == [req[r] EXCEPT !.pc = "setupCode", !.m = m]
  <2>2. w \in Value
    BY IdleFields DEF Value
  <2>3. req[r] \in Request /\ req[r].pc = "setupStore" /\ Fits(req[r]) /\ TypeOK
    BY DEF TInv, TypeOK, SetupStore
  <2>4. v \in Request /\ v.pc = "setupCode" /\ v.m = m /\ v.op = req[r].op
    BY <2>3, Named DEF Request
  <2>5. Become(r, IF t \in Sent THEN v ELSE Idle)
    BY <2>1
  <2>6. method' = [method EXCEPT ![m] = w]
    BY <2>1
  <2> HIDE DEF v, w
  <2>7. /\ method' \in [Methods -> Value]
        /\ \A n \in Methods : n # m => method'[n] = method[n]
    BY <2>2, <2>3, <2>6 DEF TypeOK
  <2>8. /\ kind' \in [Methods -> MethodTypes \cup {None}]
        /\ \A n \in Methods : kind[n] # None => kind'[n] # None
    BY <2>1, <2>3, NoneAssumption DEF TypeOK
  <2>9. Data /\ Uncounted
    BY <2>1, <2>3, <2>7, <2>8 DEF TypeOK, Data, Uncounted, told
  <2>10. CASE t \in Sent
    <3>1. Only(r) /\ req'[r] = v
      BY <2>3, <2>4, <2>5, <2>10, Becoming
    <3>2. Fits(req'[r]) /\ v.op = "setup"
      BY <2>3, <2>4, <3>1 DEF Fits, Verifying, Judged, Accepted
    <3>3. \A n \in Methods : Holds(r, n)' => Holds(r, n)
      BY <2>4, <3>1, <3>2 DEF Holds
    <3> QED BY <2>4, <2>9, <3>1, <3>2, <3>3 DEF Moves, Calm, Judged, Accepted, Ordinary
  <2>11. CASE t \notin Sent
    <3>1. Answer(r)
      BY <2>5, <2>11 DEF Answer
    <3> QED BY <2>9, <3>1, Ends DEF Ordinary
  <2> QED BY <2>10, <2>11
<1> QED BY <1>1, <1>2

LEMMA DoSetupCode ==
    ASSUME TInv, NEW r \in Requests, SetupCode(r)
    PROVE  Ordinary(r)
<1>1. CASE Throw(r)
  BY <1>1, EndsQuietly DEF Throw
<1>2. CASE ~ Throw(r)
  <2>1. req[r].m \in Methods
    BY DEF SetupCode, TInv, Fits
  <2>2. Data /\ Uncounted
    BY <1>2, <2>1, Keeping DEF SetupCode, TInv, TypeOK
  <2> QED BY <1>2, <2>2, Ends DEF SetupCode, Ordinary
<1> QED BY <1>1, <1>2

LEMMA DoConfirmRead ==
    ASSUME TInv, NEW r \in Requests, ConfirmRead(r)
    PROVE  Ordinary(r)
<1> DEFINE m == req[r].m
           v == [req[r] EXCEPT !.pc = "confirmCode", !.copy = method[m]]
           w == [req[r] EXCEPT !.pc = "members", !.copy = method[m]]
<1>1. /\ req[r] \in Request /\ Fits(req[r]) /\ req[r].pc = "confirmRead"
      /\ m \in Methods /\ method[m] \in Value /\ UNCHANGED <<redis, facts, told>>
  BY DEF ConfirmRead, TInv, TypeOK, Fits
<1>2. /\ v \in Request /\ v.pc = "confirmCode" /\ Kin(v, req[r])
      /\ w \in Request /\ w.pc = "members" /\ Kin(w, req[r])
  BY <1>1, Named DEF Request, Kin
<1>3. \/ Answer(r)
      \/ method[m].stored /\ Become(r, [[req[r] EXCEPT !.copy = method[m]] EXCEPT !.pc = "confirmCode"])
      \/ method[m].stored /\ Become(r, [[req[r] EXCEPT !.copy = method[m]] EXCEPT !.pc = "members"])
  BY DEF ConfirmRead
<1>4. /\ [[req[r] EXCEPT !.copy = method[m]] EXCEPT !.pc = "confirmCode"] = v
      /\ [[req[r] EXCEPT !.copy = method[m]] EXCEPT !.pc = "members"] = w
  BY <1>1 DEF Request
<1>5. Answer(r) \/ (method[m].stored /\ (Become(r, v) \/ Become(r, w)))
  BY <1>3, <1>4
<1> HIDE DEF v, w
<1>6. Fits(v) /\ Fits(w)
  BY <1>1, <1>2 DEF Fits, Kin, Verifying, Judged, Accepted
<1>7. CASE Answer(r)
  BY <1>1, <1>7, EndsQuietly
<1>8. CASE method[m].stored /\ Become(r, v)
  BY <1>1, <1>2, <1>6, <1>8, Passes, Same DEF Ordinary, TInv, Kin, Judged, Accepted
<1>9. CASE method[m].stored /\ Become(r, w)
  BY <1>1, <1>2, <1>6, <1>9, Passes, Same DEF Ordinary, TInv, Kin, Judged, Accepted
<1> QED BY <1>5, <1>7, <1>8, <1>9

LEMMA DoConfirmCode ==
    ASSUME TInv, NEW r \in Requests, ConfirmCode(r)
    PROVE  Ordinary(r)
<1> DEFINE v == [req[r] EXCEPT !.pc = "members"]
<1>1. /\ req[r] \in Request /\ Fits(req[r]) /\ req[r].pc = "confirmCode"
      /\ UNCHANGED <<redis, facts, told>>
  BY DEF ConfirmCode, TInv, TypeOK
<1>2. v \in Request /\ v.pc = "members" /\ Kin(v, req[r])
  BY <1>1, Named DEF Request, Kin
<1>3. Answer(r) \/ Become(r, v)
  BY DEF ConfirmCode
<1> HIDE DEF v
<1>4. Fits(v)
  BY <1>1, <1>2 DEF Fits, Kin, Verifying, Judged, Accepted
<1>5. CASE Answer(r)
  BY <1>1, <1>5, EndsQuietly
<1>6. CASE Become(r, v)
  BY <1>1, <1>2, <1>4, <1>6, Passes, Same DEF Ordinary, TInv, Judged, Accepted
<1> QED BY <1>3, <1>5, <1>6

LEMMA DoConfirmStore ==
    ASSUME TInv, NEW r \in Requests, ConfirmStore(r)
    PROVE  Ordinary(r)
<1> DEFINE q == req[r]
           x == [stored |-> TRUE, enabled |-> TRUE, primary |-> q.copy.primary \/ Listed(q) = {}]
           v == [q EXCEPT !.pc = "confirmAdd", !.copy = Absent, !.found = Idle.found]
<1>1. q \in Request /\ Fits(q) /\ q.pc = "confirmStore" /\ q.op = "confirm" /\ q.m \in Methods
  BY DEF ConfirmStore, TInv, TypeOK, Fits
<1>2. v \in Request /\ v.pc = "confirmAdd" /\ Kin(v, q)
  BY <1>1, IdleFields, Named DEF Request, Kin
<1>3. x \in Value
  BY DEF Value
<1>4. \/ /\ method' = [method EXCEPT ![q.m] = x] /\ Become(r, v)
         /\ UNCHANGED <<members, setupCode, challenge, rate, facts, told>>
      \/ Throw(r)
  BY DEF ConfirmStore
<1>5. Holds(r, q.m)
  BY <1>1 DEF Holds
<1> HIDE DEF v, x
<1>6. Fits(v)
  BY <1>1, <1>2 DEF Fits, Kin, Verifying, Judged, Accepted
<1>7. CASE Throw(r)
  BY <1>7, EndsQuietly DEF Throw
<1>8. CASE ~ Throw(r)
  <2>1. Data /\ Uncounted
    BY <1>3, <1>4, <1>5, <1>8, Storing DEF TInv
  <2>2. Moves(r) /\ Calm(r)
    BY <1>1, <1>2, <1>4, <1>6, <1>8, Passes DEF Judged, Accepted
  <2> QED BY <2>1, <2>2 DEF Ordinary
<1> QED BY <1>7, <1>8

LEMMA DoConfirmAdd ==
    ASSUME TInv, NEW r \in Requests, ConfirmAdd(r)
    PROVE  Ordinary(r)
<1> DEFINE v == [req[r] EXCEPT !.pc = "confirmClean"]
           w == [req[r] EXCEPT !.pc = "confirmClean", !.swallowed = TRUE]
<1>1. /\ req[r] \in Request /\ Fits(req[r]) /\ req[r].pc = "confirmAdd"
      /\ req[r].m \in Methods
  BY DEF ConfirmAdd, TInv, TypeOK, Fits
<1>2. /\ v \in Request /\ v.pc = "confirmClean" /\ Kin(v, req[r])
      /\ w \in Request /\ w.pc = "confirmClean" /\ Kin(w, req[r])
  BY <1>1, Named DEF Request, Kin
<1>3. /\ Become(r, v) \/ Become(r, w)
      /\ members' \in {members, members \cup {req[r].m}}
      /\ UNCHANGED <<method, setupCode, challenge, rate, facts, told>>
  BY DEF ConfirmAdd
<1> HIDE DEF v, w
<1>4. Fits(v) /\ Fits(w)
  BY <1>1, <1>2 DEF Fits, Kin, Verifying, Judged, Accepted
<1>5. Data /\ Uncounted
  BY <1>1, <1>3, Keeping DEF TInv, TypeOK
<1>6. Moves(r) /\ Calm(r)
  BY <1>1, <1>2, <1>3, <1>4, Passes DEF Judged, Accepted
<1> QED BY <1>5, <1>6 DEF Ordinary

LEMMA DoConfirmClean ==
    ASSUME TInv, NEW r \in Requests, ConfirmClean(r)
    PROVE  Ordinary(r)
<1>1. CASE Throw(r)
  BY <1>1, EndsQuietly DEF Throw
<1>2. CASE ~ Throw(r)
  <2>1. Data /\ Uncounted
    BY <1>2, Keeping DEF ConfirmClean, TInv, TypeOK
  <2> QED BY <1>2, <2>1, Ends DEF ConfirmClean, Ordinary
<1> QED BY <1>1, <1>2

LEMMA DoRemoveRead ==
    ASSUME TInv, NEW r \in Requests, RemoveRead(r)
    PROVE  Ordinary(r)
<1> DEFINE v == [req[r] EXCEPT !.pc = "members", !.copy = method[req[r].m]]
<1>1. /\ req[r] \in Request /\ Fits(req[r]) /\ req[r].pc = "removeRead" /\ req[r].op = "remove"
      /\ method[req[r].m] \in Value /\ UNCHANGED <<redis, facts, told>>
  BY DEF RemoveRead, TInv, TypeOK, Fits
<1>2. v \in Request /\ v.pc = "members" /\ Kin(v, req[r])
  BY <1>1, Named DEF Request, Kin
<1>3. Answer(r) \/ Become(r, v)
  BY DEF RemoveRead
<1> HIDE DEF v
<1>4. Fits(v)
  BY <1>1, <1>2 DEF Fits, Kin, Verifying, Judged, Accepted
<1>5. CASE Answer(r)
  BY <1>1, <1>5, EndsQuietly
<1>6. CASE Become(r, v)
  BY <1>1, <1>2, <1>4, <1>6, Passes, Same DEF Ordinary, TInv, Kin, Judged, Accepted
<1> QED BY <1>3, <1>5, <1>6

LEMMA DoRewrite ==
    ASSUME TInv, NEW r \in Requests, Rewrite(r)
    PROVE  Ordinary(r)
<1>1. CASE Throw(r)
  BY <1>1, EndsQuietly DEF Throw
<1>2. CASE ~ Throw(r)
  <2>1. PICK m \in req[r].pend :
          /\ method' = [method EXCEPT ![m] = [req[r].found[m] EXCEPT !.primary = (m = req[r].target)]]
          /\ IF req[r].pend \ {m} = {} THEN Answer(r)
             ELSE Become(r, [req[r] EXCEPT !.pend = req[r].pend \ {m}])
          /\ UNCHANGED <<members, setupCode, challenge, rate, facts, told>>
    BY <1>2 DEF Rewrite
  <2> DEFINE x == [req[r].found[m] EXCEPT !.primary = (m = req[r].target)]
             v == [req[r] EXCEPT !.pend = req[r].pend \ {m}]
  <2>2. /\ req[r] \in Request /\ Fits(req[r]) /\ req[r].pc = "rewrite" /\ req[r].target # None
    BY DEF Rewrite, TInv, TypeOK, Fits
  <2>3. m \in Methods /\ req[r].found[m] \in Value
    BY <2>2 DEF Request
  <2>4. x \in Value
    BY <2>3 DEF Value
  <2>5. /\ v \in Request /\ v.pc = "rewrite" /\ Kin(v, req[r]) /\ v.pend \subseteq req[r].pend
        /\ v.count = req[r].count
    BY <2>2 DEF Request, Kin
  <2>6. Answer(r) \/ Become(r, v)
    BY <2>1
  <2>7. Holds(r, m)
    BY <2>2 DEF Holds
  <2>8. method' = [method EXCEPT ![m] = x]
    BY <2>1
  <2> HIDE DEF v, x
  <2>9. Data /\ Uncounted
    BY <2>1, <2>4, <2>7, <2>8, Storing DEF TInv
  <2>10. CASE Answer(r)
    BY <2>9, <2>10, Ends DEF Ordinary
  <2>11. CASE Become(r, v)
    <3>1. Only(r) /\ req'[r] = v
      BY <2>5, <2>11, Becoming DEF TInv
    <3>2. Fits(v)
      BY <2>2, <2>5 DEF Fits, Kin, Verifying, Judged, Accepted
    <3>3. \A n \in Methods : Holds(r, n)' => Holds(r, n)
      BY <2>2, <2>5, <3>1 DEF Holds, Kin
    <3>4. Moves(r)
      BY <2>5, <3>1, <3>2, <3>3, GoesOn DEF Kin
    <3> QED BY <2>5, <2>9, <3>1, <3>4 DEF Ordinary, Calm, Judged, Accepted
  <2> QED BY <2>6, <2>10, <2>11
<1> QED BY <1>1, <1>2

-----------------------------------------------------------------------------
(* What each action does: those the invariants look at.                    *)

NoVerdict ==
    /\ \A c \in Challenges : /\ wrong'[c] = wrong[c] /\ wins'[c] = wins[c]
                             /\ challenge'[c] = challenge[c] \/ ~ challenge'[c].stored
    /\ \A s \in Requests : req'[s] = req[s] \/ req'[s].pc \notin Judged \cup Accepted

NoCount ==
    /\ rate' = rate /\ started' = started
    /\ \A s \in Requests : req'[s] = req[s] \/ req'[s].pc # "rateWrite"

NoRemoval ==
    /\ removed' = removed
    /\ \A s \in Requests : req'[s] = req[s] \/ req'[s].pc # "unlist"

LEMMA Quietly ==
    ASSUME NEW r \in Requests, Ordinary(r)
    PROVE  Moves(r) /\ Data /\ NoVerdict /\ NoCount /\ NoRemoval
BY DEF Ordinary, Moves, Only, Calm, Uncounted, told, NoVerdict, NoCount, NoRemoval

Deletes(r) ==
    /\ req[r].pc = "delete" /\ req'[r].pc = "unlist"
    /\ req[r].op = "remove" /\ req'[r].op = "remove" /\ req'[r].m = req[r].m
    /\ removed' = removed /\ req[r].m \in Methods /\ ~ method'[req[r].m].stored
    /\ \A m \in Methods : ~ Holds(r, m)'

Unlists(r) ==
    /\ req[r].pc = "unlist" /\ req[r].op = "remove" /\ req'[r].pc # "unlist"
    /\ removed' = removed \cup {req[r].m}

LEMMA DoDelete ==
    ASSUME TInv, NEW r \in Requests, Delete(r)
    PROVE  Moves(r) /\ Data /\ NoVerdict /\ NoCount /\ (NoRemoval \/ Deletes(r))
<1>1. CASE Throw(r)
  BY <1>1, EndsQuietly, Quietly DEF Throw
<1>2. CASE ~ Throw(r)
  <2> DEFINE v == [req[r] EXCEPT !.pc = "unlist"]
  <2>1. /\ req[r] \in Request /\ Fits(req[r]) /\ req[r].pc = "delete" /\ req[r].op = "remove"
        /\ req[r].m \in Methods
    BY DEF Delete, TInv, TypeOK, Fits
  <2>2. v \in Request /\ v.pc = "unlist" /\ Kin(v, req[r])
    BY <2>1, Named DEF Request, Kin
  <2>3. /\ method' = [method EXCEPT ![req[r].m] = Absent] /\ Become(r, v)
        /\ UNCHANGED <<members, setupCode, challenge, rate, facts, told>>
    BY <1>2 DEF Delete
  <2> HIDE DEF v
  <2>4. Fits(v)
    BY <2>1, <2>2 DEF Fits, Kin, Verifying, Judged, Accepted
  <2>9. Absent \in Value /\ ~ Absent.stored
    BY IdleFields
  <2>10. /\ Data /\ Uncounted
         /\ \A n \in Methods : method'[n] = IF n = req[r].m THEN Absent ELSE method[n]
    BY <2>3, <2>9, Storing DEF TInv
  <2>5. /\ Data /\ Uncounted /\ ~ method'[req[r].m].stored
    BY <2>1, <2>9, <2>10
  <2>6. Only(r) /\ req'[r] = v /\ Moves(r)
    BY <2>1, <2>2, <2>3, <2>4, GoesTo DEF Kin
  <2>7. \A m \in Methods : ~ Holds(r, m)'
    BY <2>1, <2>2, <2>6 DEF Holds, Kin
  <2>8. NoVerdict /\ NoCount
    BY <2>2, <2>5, <2>6 DEF Only, NoVerdict, NoCount, Uncounted, told, Judged, Accepted
  <2> QED BY <2>1, <2>2, <2>3, <2>5, <2>6, <2>7, <2>8 DEF Deletes, Kin, told
<1> QED BY <1>1, <1>2

LEMMA DoUnlist ==
    ASSUME TInv, NEW r \in Requests, Unlist(r)
    PROVE  Moves(r) /\ Data /\ NoVerdict /\ NoCount /\ Unlists(r)
<1> DEFINE q == req[r]
           v(t) == [q EXCEPT !.pc = "members", !.target = t]
<1>1. q \in Request /\ Fits(q) /\ q.pc = "unlist" /\ q.op = "remove" /\ q.m \in Methods
  BY DEF Unlist, TInv, TypeOK, Fits
<1>2. /\ members' \subseteq members /\ removed' = removed \cup {q.m}
      /\ UNCHANGED <<method, setupCode, challenge, rate, facts, wrong, wins, started>>
  BY DEF Unlist
<1>3. Data /\ \A c \in Challenges : wrong'[c] = wrong[c] /\ wins'[c] = wins[c] /\ challenge'[c] = challenge[c]
  BY <1>1, <1>2 DEF TInv, TypeOK, Data, facts
<1>4. /\ Only(r) /\ Moves(r) /\ Calm(r)
  <2>1. CASE Answer(r)
    BY <2>1, Ends
  <2>2. CASE ~ Answer(r)
    <3>1. PICK t \in Usable(q) \ {q.m} : Become(r, v(t))
      BY <2>2 DEF Unlist
    <3>2. t \in Methods
      BY <3>1 DEF Usable, Listed
    <3>3. v(t) \in Request /\ v(t).pc = "members" /\ v(t).op = q.op /\ v(t).m = q.m /\ v(t).c = q.c
      BY <1>1, <3>2, Named DEF Request
    <3> HIDE DEF v
    <3>4. Only(r) /\ req'[r] = v(t)
      BY <3>1, <3>3, Becoming DEF TInv
    <3>5. Fits(req'[r])
      BY <1>1, <3>3, <3>4 DEF Fits, Verifying, Judged, Accepted
    <3>6. \A m \in Methods : ~ Holds(r, m)'
      BY <1>1, <3>3, <3>4 DEF Holds
    <3>7. Moves(r)
      BY <3>3, <3>4, <3>5, <3>6, GoesOn
    <3> QED BY <3>3, <3>4, <3>7 DEF Calm, Judged, Accepted
  <2> QED BY <2>1, <2>2
<1>5. NoVerdict
  BY <1>3, <1>4 DEF Only, Calm, NoVerdict
<1>6. NoCount
  BY <1>2, <1>4 DEF Only, Calm, NoCount
<1> QED BY <1>1, <1>2, <1>3, <1>4, <1>5, <1>6 DEF Unlists, Calm

Counted(r) ==
    /\ rate' = rate /\ started' = started /\ rate < RateLimit
    /\ req'[r].pc = "rateWrite" /\ req'[r].count = rate

Lets(r) ==
    /\ req[r].pc = "rateWrite" /\ req'[r].pc # "rateWrite"
    /\ rate' = req[r].count + 1 /\ started' = started + 1 /\ req[r].count \in Nat

LEMMA DoRateRead ==
    ASSUME TInv, NEW r \in Requests, RateRead(r)
    PROVE  Moves(r) /\ Data /\ NoVerdict /\ NoRemoval /\ (NoCount \/ Counted(r))
<1> DEFINE v == [req[r] EXCEPT !.pc = "rateWrite", !.count = rate]
<1>1. /\ req[r] \in Request /\ Fits(req[r]) /\ req[r].pc = "rateRead"
      /\ rate \in Nat /\ UNCHANGED <<redis, facts, told>>
  BY DEF RateRead, TInv, TypeOK
<1>2. v \in Request /\ v.pc = "rateWrite" /\ Kin(v, req[r]) /\ v.count = rate
  BY <1>1, Named DEF Request, Kin
<1>3. Answer(r) \/ (rate < RateLimit /\ Become(r, v))
  BY DEF RateRead
<1> HIDE DEF v
<1>4. CASE Answer(r)
  BY <1>1, <1>4, EndsQuietly, Quietly
<1>5. CASE rate < RateLimit /\ Become(r, v)
  <2>1. Fits(v)
    BY <1>1, <1>2, <1>5 DEF Fits, Kin, Verifying, Judged, Accepted
  <2>2. Only(r) /\ req'[r] = v /\ Moves(r)
    BY <1>1, <1>2, <1>5, <2>1, GoesTo DEF Kin
  <2>3. Data /\ Uncounted
    BY <1>1, Same DEF TInv
  <2>4. NoVerdict /\ NoRemoval
    BY <1>2, <2>2, <2>3 DEF Only, NoVerdict, NoRemoval, Uncounted, told, Judged, Accepted
  <2> QED BY <1>1, <1>2, <1>5, <2>2, <2>3, <2>4 DEF Counted, Uncounted, told
<1> QED BY <1>3, <1>4, <1>5

LEMMA DoRateWrite ==
    ASSUME TInv, NEW r \in Requests, RateWrite(r)
    PROVE  Moves(r) /\ Data /\ NoVerdict /\ NoRemoval /\ (NoCount \/ Lets(r))
<1>1. CASE Throw(r)
  BY <1>1, EndsQuietly, Quietly DEF Throw
<1>2. CASE ~ Throw(r)
  <2> DEFINE v == [req[r] EXCEPT !.pc = "challengeStore", !.count = 0]
  <2>1. /\ req[r] \in Request /\ Fits(req[r]) /\ req[r].pc = "rateWrite" /\ req[r].count \in Nat
    BY DEF RateWrite, TInv, TypeOK, Request
  <2>2. v \in Request /\ v.pc = "challengeStore" /\ Kin(v, req[r])
    BY <2>1, Named DEF Request, Kin
  <2>3. /\ rate' = req[r].count + 1 /\ started' = started + 1 /\ Become(r, v)
        /\ UNCHANGED <<method, members, setupCode, challenge, facts, wrong, wins, removed>>
    BY <1>2 DEF RateWrite
  <2> HIDE DEF v
  <2>4. Fits(v)
    BY <2>1, <2>2 DEF Fits, Kin, Verifying, Judged, Accepted
  <2>5. Only(r) /\ req'[r] = v /\ Moves(r)
    BY <2>1, <2>2, <2>3, <2>4, Passes DEF Judged, Accepted
  <2>6. rate' \in Nat /\ started' \in Nat
    BY <2>1, <2>3 DEF TInv, TypeOK
  <2>7. Data
    BY <2>3, <2>6 DEF TInv, TypeOK, Data, facts
  <2>8. NoVerdict /\ NoRemoval
    BY <2>2, <2>3, <2>5 DEF Only, NoVerdict, NoRemoval, Judged, Accepted
  <2> QED BY <2>1, <2>2, <2>3, <2>5, <2>7, <2>8 DEF Lets
<1> QED BY <1>1, <1>2

Draws(r) ==
    /\ req'[r] = Idle /\ wrong' = wrong /\ wins' = wins
    /\ \E c \in Challenges :
          /\ about[c] = None /\ about'[c] = req[r].m
          /\ challenge'[c] = [stored |-> TRUE, attempts |-> MaxAttempts]
          /\ \A d \in Challenges \ {c} : challenge'[d] = challenge[d]

\* Request r, which verifies a challenge, goes on to judge it or to accept it.
Loads(r) ==
    /\ challenge' = challenge /\ wrong' = wrong /\ wins' = wins
    /\ req[r].pc = "loadChallenge" /\ req'[r].pc = "loadMethod"
    /\ challenge[req[r].c].stored /\ req'[r].count = challenge[req[r].c].attempts

Judges(r) ==
    /\ challenge' = challenge /\ wrong' = wrong /\ wins' = wins
    /\ req[r].pc = "loadMethod" /\ req'[r].pc \in {"drop", "charge"}
    /\ req'[r].count = req[r].count

Takes(r) ==
    /\ wrong' = wrong /\ wins' = wins
    /\ req[r].pc = "drop" /\ req'[r].pc = "touch"
    /\ ~ challenge'[req[r].c].stored
    /\ \A d \in Challenges : challenge'[d] = challenge[d] \/ ~ challenge'[d].stored

Touches(r) ==
    /\ challenge' = challenge /\ wrong' = wrong /\ wins' = wins
    /\ req[r].pc = "touch" /\ req'[r].pc = "trust"

Wins(r) ==
    /\ challenge' = challenge /\ wrong' = wrong
    /\ req[r].pc = "trust" /\ req'[r] = Idle
    /\ \A d \in Challenges : wins'[d] = IF d = req[r].c THEN wins[d] + 1 ELSE wins[d]

Charges(r) ==
    /\ wins' = wins
    /\ req[r].pc = "charge" /\ req'[r] = Idle
    /\ \A d \in Challenges :
          /\ wrong'[d] = IF d = req[r].c THEN wrong[d] + 1 ELSE wrong[d]
          /\ challenge'[d] = IF d = req[r].c THEN [stored |-> TRUE, attempts |-> req[r].count - 1]
                             ELSE challenge[d]

\* Request r verifies the same challenge before and after.
SameCase(r) ==
    /\ req[r].op = "verify" /\ req'[r].op = "verify" /\ req'[r].c = req[r].c
    /\ req[r].c \in Challenges

LEMMA DoChallengeStore ==
    ASSUME TInv, NEW r \in Requests, ChallengeStore(r)
    PROVE  Moves(r) /\ Data /\ NoCount /\ NoRemoval /\ (NoVerdict \/ Draws(r))
<1>1. CASE Throw(r)
  BY <1>1, EndsQuietly, Quietly DEF Throw
<1>2. CASE ~ Throw(r)
  <2>1. PICK c \in Challenges :
          /\ about[c] = None
          /\ about' = [about EXCEPT ![c] = req[r].m]
          /\ challenge' = [challenge EXCEPT ![c] = [stored |-> TRUE, attempts |-> MaxAttempts]]
          /\ Answer(r)
          /\ UNCHANGED <<method, members, setupCode, rate, kind, late, renewed, told>>
    BY <1>2 DEF ChallengeStore
  <2>2. Only(r) /\ req'[r] = Idle /\ Moves(r) /\ Calm(r)
    BY <2>1, Ends
  <2>3. req[r].m \in Methods \cup {None}
    BY DEF TInv, TypeOK, Request
  <2>4. /\ about' \in [Challenges -> Methods \cup {None}] /\ about'[c] = req[r].m
        /\ \A d \in Challenges : about[d] # None => about'[d] # None
    BY <2>1, <2>3 DEF TInv, TypeOK
  <2>5. [stored |-> TRUE, attempts |-> MaxAttempts] \in [stored : BOOLEAN, attempts : 0..MaxAttempts]
    BY AttemptsAssumption
  <2>6. /\ challenge' \in [Challenges -> [stored : BOOLEAN, attempts : 0..MaxAttempts]]
        /\ challenge'[c] = [stored |-> TRUE, attempts |-> MaxAttempts]
        /\ \A d \in Challenges \ {c} : challenge'[d] = challenge[d]
    BY <2>1, <2>5 DEF TInv, TypeOK
  <2>7. Data
    BY <2>1, <2>4, <2>6 DEF TInv, TypeOK, Data, told
  <2>8. NoCount /\ NoRemoval
    BY <2>1, <2>2 DEF NoCount, NoRemoval, Only, Calm, told
  <2> QED BY <2>1, <2>2, <2>4, <2>6, <2>7, <2>8 DEF Draws, told
<1> QED BY <1>1, <1>2

LEMMA DoLoadChallenge ==
    ASSUME TInv, Undrawn, NEW r \in Requests, LoadChallenge(r)
    PROVE  /\ Moves(r) /\ Data /\ NoCount /\ NoRemoval
           /\ NoVerdict \/ (Loads(r) /\ SameCase(r))
<1> DEFINE c == req[r].c
           v == [req[r] EXCEPT !.pc = "loadMethod", !.count = challenge[c].attempts, !.m = about[c]]
           w == [req[r] EXCEPT !.pc = "dropLate"]
<1>1. /\ req[r] \in Request /\ Fits(req[r]) /\ req[r].pc = "loadChallenge" /\ req[r].op = "verify"
      /\ c \in Challenges /\ UNCHANGED <<redis, facts, told>>
  BY DEF LoadChallenge, TInv, TypeOK, Fits, Verifying
<1>2. challenge[c].attempts \in 0..MaxAttempts /\ about[c] \in Methods
  BY <1>1 DEF TInv, TypeOK, Undrawn
<1>3. /\ v \in Request /\ v.pc = "loadMethod" /\ v.op = req[r].op /\ v.c = c
      /\ v.count = challenge[c].attempts /\ v.m \in Methods
  <2> DEFINE n == challenge[c].attempts
             a == about[c]
  <2>1. n \in Nat /\ a \in Methods /\ "loadMethod" \in PCs
    BY <1>2, Named, AttemptsAssumption
  <2> HIDE DEF n, a
  <2>2. LET x == [req[r] EXCEPT !.pc = "loadMethod", !.count = n, !.m = a] IN
        /\ x \in Request /\ x.pc = "loadMethod" /\ x.op = req[r].op /\ x.c = req[r].c /\ x.count = n
        /\ x.m = a
    BY <1>1, <2>1 DEF Request
  <2> QED BY <2>1, <2>2 DEF n, a
<1>4. w \in Request /\ w.pc = "dropLate" /\ Kin(w, req[r])
  BY <1>1, Named DEF Request, Kin
<1>5. \/ Answer(r)
      \/ Become(r, w)
      \/ challenge[c].stored /\ challenge[c].attempts > 0 /\ Become(r, v)
  BY DEF LoadChallenge
<1>6. Data /\ Uncounted /\ challenge' = challenge /\ wrong' = wrong /\ wins' = wins
  BY <1>1, Same DEF TInv, told
<1> HIDE DEF v, w
<1>7. CASE Answer(r)
  BY <1>1, <1>7, EndsQuietly, Quietly
<1>8. CASE Become(r, w)
  <2>1. Fits(w)
    BY <1>1, <1>4 DEF Fits, Kin, Verifying, Judged, Accepted
  <2>2. Moves(r) /\ Calm(r)
    BY <1>1, <1>4, <1>8, <2>1, Passes DEF Kin, Judged, Accepted
  <2> QED BY <1>6, <2>2, Quietly DEF Ordinary
<1>9. CASE challenge[c].stored /\ challenge[c].attempts > 0 /\ Become(r, v)
  <2>1. challenge[c].attempts \in 1..MaxAttempts
    BY <1>2, <1>9, AttemptsAssumption
  <2>2. Only(r) /\ req'[r] = v
    BY <1>3, <1>9, Becoming DEF TInv
  <2>3. Fits(v)
    BY <1>1, <1>3, <2>1 DEF Fits, Verifying, Judged, Accepted
  <2>4. \A m \in Methods : ~ Holds(r, m)'
    BY <1>1, <1>3, <2>2 DEF Holds
  <2>5. Moves(r)
    BY <1>1, <1>3, <2>2, <2>3, <2>4, GoesOn
  <2>6. NoCount /\ NoRemoval
    BY <1>3, <1>6, <2>2 DEF NoCount, NoRemoval, Only, Uncounted, told
  <2> QED BY <1>1, <1>3, <1>6, <1>9, <2>2, <2>5, <2>6 DEF Loads, SameCase
<1> QED BY <1>5, <1>7, <1>8, <1>9

LEMMA DoDropLate ==
    ASSUME TInv, NEW r \in Requests, DropLate(r)
    PROVE  Ordinary(r)
<1>1. CASE Throw(r)
  BY <1>1, EndsQuietly DEF Throw
<1>2. CASE ~ Throw(r)
  <2>1. /\ challenge' = [challenge EXCEPT ![req[r].c] = NoChallenge] /\ Answer(r)
        /\ UNCHANGED <<method, members, setupCode, rate, facts, told>>
    BY <1>2 DEF DropLate
  <2>2. NoChallenge \in [stored : BOOLEAN, attempts : 0..MaxAttempts] /\ ~ NoChallenge.stored
    BY AttemptsAssumption DEF NoChallenge
  <2>3. /\ challenge' \in [Challenges -> [stored : BOOLEAN, attempts : 0..MaxAttempts]]
        /\ \A c \in Challenges : challenge'[c] = challenge[c] \/ ~ challenge'[c].stored
    BY <2>1, <2>2 DEF TInv, TypeOK
  <2>4. Data /\ Uncounted
    BY <2>1, <2>3 DEF TInv, TypeOK, Data, Uncounted, facts, told
  <2> QED BY <2>1, <2>4, Ends DEF Ordinary
<1> QED BY <1>1, <1>2

LEMMA DoLoadMethod ==
    ASSUME TInv, NEW r \in Requests, LoadMethod(r)
    PROVE  /\ Moves(r) /\ Data /\ NoCount /\ NoRemoval
           /\ NoVerdict \/ (Judges(r) /\ SameCase(r))
<1> DEFINE v(j) == [req[r] EXCEPT !.pc = j, !.copy = method[req[r].m]]
<1>1. /\ req[r] \in Request /\ Fits(req[r]) /\ req[r].pc = "loadMethod" /\ req[r].op = "verify"
      /\ req[r].c \in Challenges /\ UNCHANGED <<redis, facts, told>>
  BY DEF LoadMethod, TInv, TypeOK, Fits, Verifying, Judged
<1>2. Data /\ Uncounted /\ challenge' = challenge /\ wrong' = wrong /\ wins' = wins
  BY <1>1, Same DEF TInv, told
<1>3. CASE Answer(r)
  BY <1>1, <1>3, EndsQuietly, Quietly
<1>4. CASE ~ Answer(r)
  <2>1. PICK j \in {"drop", "charge"} : method[req[r].m].stored /\ Become(r, v(j))
    BY <1>4 DEF LoadMethod
  <2>2. req[r].m \in Methods /\ method[req[r].m] \in Value
    BY <1>1 DEF TInv, TypeOK, Fits
  <2>3. v(j) \in Request /\ v(j).pc = j /\ Kin(v(j), req[r]) /\ v(j).count = req[r].count
    BY <1>1, <2>2, Named DEF Request, Kin
  <2> HIDE DEF v
  <2>4. Fits(v(j))
    BY <1>1, <2>3 DEF Fits, Kin, Verifying, Judged, Accepted
  <2>5. Only(r) /\ req'[r] = v(j) /\ Moves(r)
    BY <1>1, <2>1, <2>3, <2>4, GoesTo DEF Kin
  <2>6. NoCount /\ NoRemoval
    BY <1>2, <2>3, <2>5 DEF NoCount, NoRemoval, Only, Uncounted, told
  <2> QED BY <1>1, <1>2, <2>3, <2>5, <2>6 DEF Judges, SameCase, Kin
<1> QED BY <1>3, <1>4

LEMMA DoDrop ==
    ASSUME TInv, NEW r \in Requests, Drop(r)
    PROVE  /\ Moves(r) /\ Data /\ NoCount /\ NoRemoval
           /\ NoVerdict \/ (Takes(r) /\ SameCase(r))
<1>1. CASE Throw(r)
  BY <1>1, EndsQuietly, Quietly DEF Throw
<1>2. CASE ~ Throw(r)
  <2> DEFINE v == [req[r] EXCEPT !.pc = "touch"]
  <2>1. /\ req[r] \in Request /\ Fits(req[r]) /\ req[r].pc = "drop" /\ req[r].op = "verify"
        /\ req[r].c \in Challenges
    BY DEF Drop, TInv, TypeOK, Fits, Verifying, Judged
  <2>2. v \in Request /\ v.pc = "touch" /\ Kin(v, req[r])
    BY <2>1, Named DEF Request, Kin
  <2>3. /\ challenge' = [challenge EXCEPT ![req[r].c] = NoChallenge] /\ Become(r, v)
        /\ UNCHANGED <<method, members, setupCode, rate, facts, told>>
    BY <1>2 DEF Drop
  <2> HIDE DEF v
  <2>4. Fits(v)
    BY <2>1, <2>2 DEF Fits, Kin, Verifying, Judged, Accepted
  <2>5. Only(r) /\ req'[r] = v /\ Moves(r)
    BY <2>1, <2>2, <2>3, <2>4, GoesTo DEF Kin
  <2>6. NoChallenge \in [stored : BOOLEAN, attempts : 0..MaxAttempts] /\ ~ NoChallenge.stored
    BY AttemptsAssumption DEF NoChallenge
  <2>7. /\ challenge' \in [Challenges -> [stored : BOOLEAN, attempts : 0..MaxAttempts]]
        /\ ~ challenge'[req[r].c].stored
        /\ \A c \in Challenges : challenge'[c] = challenge[c] \/ ~ challenge'[c].stored
    BY <2>1, <2>3, <2>6 DEF TInv, TypeOK
  <2>8. Data
    BY <2>3, <2>7 DEF TInv, TypeOK, Data, facts, told
  <2>9. NoCount /\ NoRemoval
    BY <2>2, <2>3, <2>5 DEF NoCount, NoRemoval, Only, told
  <2> QED BY <2>1, <2>2, <2>3, <2>5, <2>7, <2>8, <2>9 DEF Takes, SameCase, Kin, told
<1> QED BY <1>1, <1>2

LEMMA DoTouch ==
    ASSUME TInv, NEW r \in Requests, Touch(r)
    PROVE  /\ Moves(r) /\ Data /\ NoCount /\ NoRemoval
           /\ NoVerdict \/ (Touches(r) /\ SameCase(r))
<1>1. CASE Throw(r)
  BY <1>1, EndsQuietly, Quietly DEF Throw
<1>2. CASE ~ Throw(r)
  <2> DEFINE v == [req[r] EXCEPT !.pc = "trust", !.copy = Absent]
  <2>1. /\ req[r] \in Request /\ Fits(req[r]) /\ req[r].pc = "touch" /\ req[r].op = "verify"
        /\ req[r].c \in Challenges /\ req[r].copy \in Value
    BY DEF Touch, TInv, TypeOK, Fits, Verifying, Accepted, Request
  <2>2. v \in Request /\ v.pc = "trust" /\ Kin(v, req[r])
    BY <2>1, IdleFields, Named DEF Request, Kin
  <2>3. /\ method' = [method EXCEPT ![req[r].m] = req[r].copy] /\ Become(r, v)
        /\ UNCHANGED <<members, setupCode, challenge, rate, facts, told>>
    BY <1>2 DEF Touch
  <2> HIDE DEF v
  <2>4. Fits(v)
    BY <2>1, <2>2 DEF Fits, Kin, Verifying, Judged, Accepted
  <2>5. Only(r) /\ req'[r] = v /\ Moves(r)
    BY <2>1, <2>2, <2>3, <2>4, GoesTo DEF Kin
  <2>6. Holds(r, req[r].m)
    BY <2>1 DEF Holds
  <2>7. Data
    BY <2>1, <2>3, <2>6, Storing DEF TInv
  <2>8. NoCount /\ NoRemoval
    BY <2>2, <2>3, <2>5 DEF NoCount, NoRemoval, Only, told
  <2> QED BY <2>1, <2>2, <2>3, <2>5, <2>7, <2>8 DEF Touches, SameCase, Kin, told
<1> QED BY <1>1, <1>2

LEMMA DoTrust ==
    ASSUME TInv, Undrawn, NEW r \in Requests, Trust(r)
    PROVE  /\ Moves(r) /\ Data /\ NoCount /\ NoRemoval
           /\ NoVerdict \/ (Wins(r) /\ req[r].c \in Challenges)
<1>1. CASE Throw(r)
  BY <1>1, EndsQuietly, Quietly DEF Throw
<1>2. CASE ~ Throw(r)
  <2>1. /\ req[r].pc = "trust" /\ req[r].op = "verify" /\ req[r].c \in Challenges
        /\ about[req[r].c] # None
    BY DEF Trust, TInv, Fits, Verifying, Accepted, Undrawn
  <2>2. /\ wins' = [wins EXCEPT ![req[r].c] = @ + 1] /\ Answer(r)
        /\ UNCHANGED <<redis, facts, wrong, removed, started>>
    BY <1>2 DEF Trust
  <2>3. /\ wins' \in [Challenges -> Nat]
        /\ \A d \in Challenges : wins'[d] = IF d = req[r].c THEN wins[d] + 1 ELSE wins[d]
    BY <2>1, <2>2 DEF TInv, TypeOK
  <2>4. Only(r) /\ req'[r] = Idle /\ Moves(r) /\ Calm(r)
    BY <2>2, Ends
  <2>5. Data
    BY <2>1, <2>2, <2>3 DEF TInv, TypeOK, Data, redis, facts
  <2>6. NoCount /\ NoRemoval
    BY <2>2, <2>4 DEF NoCount, NoRemoval, Only, Calm, redis
  <2> QED BY <2>1, <2>2, <2>3, <2>4, <2>5, <2>6 DEF Wins, redis
<1> QED BY <1>1, <1>2

LEMMA DoCharge ==
    ASSUME TInv, Undrawn, NEW r \in Requests, Charge(r)
    PROVE  /\ Moves(r) /\ Data /\ NoCount /\ NoRemoval
           /\ NoVerdict \/ (Charges(r) /\ req[r].c \in Challenges)
<1>1. CASE Throw(r)
  BY <1>1, EndsQuietly, Quietly DEF Throw
<1>2. CASE ~ Throw(r)
  <2> DEFINE c == req[r].c
             x == [stored |-> TRUE, attempts |-> req[r].count - 1]
  <2>1. /\ req[r].pc = "charge" /\ req[r].op = "verify" /\ c \in Challenges
        /\ about[c] # None /\ req[r].count \in 1..MaxAttempts
    BY DEF Charge, TInv, Fits, Verifying, Judged, Undrawn
  <2>2. /\ challenge' = [challenge EXCEPT ![c] = x] /\ renewed' = renewed \cup {c}
        /\ wrong' = [wrong EXCEPT ![c] = @ + 1] /\ Answer(r)
        /\ UNCHANGED <<method, members, setupCode, rate, kind, about, late, wins, removed, started>>
    BY <1>2 DEF Charge
  <2>3. x \in [stored : BOOLEAN, attempts : 0..MaxAttempts]
    BY <2>1, AttemptsAssumption
  <2> HIDE DEF x
  <2>4. /\ challenge' \in [Challenges -> [stored : BOOLEAN, attempts : 0..MaxAttempts]]
        /\ \A d \in Challenges : challenge'[d] = IF d = c THEN x ELSE challenge[d]
    BY <2>1, <2>2, <2>3 DEF TInv, TypeOK
  <2>5. /\ wrong' \in [Challenges -> Nat]
        /\ \A d \in Challenges : wrong'[d] = IF d = c THEN wrong[d] + 1 ELSE wrong[d]
    BY <2>1, <2>2 DEF TInv, TypeOK
  <2>6. Only(r) /\ req'[r] = Idle /\ Moves(r) /\ Calm(r)
    BY <2>2, Ends
  <2>7. Data
    BY <2>1, <2>2, <2>4, <2>5 DEF TInv, TypeOK, Data
  <2>8. NoCount /\ NoRemoval
    BY <2>2, <2>6 DEF NoCount, NoRemoval, Only, Calm
  <2> QED BY <2>1, <2>2, <2>4, <2>5, <2>6, <2>7, <2>8 DEF Charges, x
<1> QED BY <1>1, <1>2

LEMMA DoTime ==
    ASSUME TInv, Time
    PROVE  /\ req' = req /\ Data /\ NoVerdict /\ NoRemoval
           /\ NoCount \/ (rate' = 0 /\ started' = 0)
<1> DEFINE CT == [stored : BOOLEAN, attempts : 0..MaxAttempts]
<1>1. NoChallenge \in CT /\ ~ NoChallenge.stored
  BY AttemptsAssumption DEF NoChallenge
<1>2. ASSUME NEW m \in Methods, MethodLapses(m) \/ SetupCodeLapses(m)
      PROVE  req' = req /\ Data /\ NoVerdict /\ NoRemoval /\ NoCount
  <2>1. CASE MethodLapses(m)
    <3>1. Absent \in Value /\ ~ Absent.stored
      BY IdleFields
    <3>2. Data /\ Uncounted /\ req' = req
      BY <2>1, <3>1, Storing DEF MethodLapses, TInv
    <3> QED BY <3>2 DEF Uncounted, told, NoVerdict, NoRemoval, NoCount
  <2>2. CASE SetupCodeLapses(m)
    <3>1. Data /\ Uncounted /\ req' = req
      BY <2>2, Keeping DEF SetupCodeLapses, TInv, TypeOK
    <3> QED BY <3>1 DEF Uncounted, told, NoVerdict, NoRemoval, NoCount
  <2> QED BY <1>2, <2>1, <2>2
<1>3. ASSUME NEW c \in Challenges, Deadline(c) \/ ChallengeLapses(c)
      PROVE  req' = req /\ Data /\ NoVerdict /\ NoRemoval /\ NoCount
  <2>1. /\ challenge' \in {challenge, [challenge EXCEPT ![c] = NoChallenge]}
        /\ late' \in {late, late \cup {c}}
        /\ UNCHANGED <<method, members, setupCode, rate, kind, about, renewed, req, told>>
    BY <1>3 DEF Deadline, ChallengeLapses, facts
  <2>2. /\ challenge' \in [Challenges -> CT]
        /\ \A d \in Challenges : challenge'[d] = challenge[d] \/ ~ challenge'[d].stored
    BY <1>1, <2>1 DEF TInv, TypeOK
  <2>3. Data
    BY <2>1, <2>2 DEF TInv, TypeOK, Data, told
  <2> QED BY <2>1, <2>2, <2>3 DEF told, NoVerdict, NoRemoval, NoCount
<1>4. CASE RateLapses
  <2>1. /\ rate' = 0 /\ started' = 0
        /\ UNCHANGED <<method, members, setupCode, challenge, facts, req, wrong, wins, removed>>
    BY <1>4 DEF RateLapses
  <2>2. Data
    BY <2>1 DEF TInv, TypeOK, Data, facts
  <2> QED BY <2>1, <2>2 DEF NoVerdict, NoRemoval
<1> QED BY <1>2, <1>3, <1>4 DEF Time

-----------------------------------------------------------------------------
(* Every step, seen by each part of the invariant.                         *)

Verdict(r) ==
    \/ Draws(r)
    \/ SameCase(r) /\ (Loads(r) \/ Judges(r) \/ Takes(r) \/ Touches(r))
    \/ req[r].c \in Challenges /\ (Wins(r) \/ Charges(r))

Steps(r) ==
    /\ Moves(r) /\ Data
    /\ NoVerdict \/ Verdict(r)
    /\ NoCount \/ Counted(r) \/ Lets(r)
    /\ NoRemoval \/ Deletes(r) \/ Unlists(r)

LEMMA DoAdvance ==
    ASSUME TInv, Undrawn, NEW r \in Requests, Advance(r)
    PROVE  Steps(r)
<1>1. CASE SetupStore(r) \/ SetupCode(r) \/ ConfirmRead(r) \/ ConfirmCode(r)
  BY <1>1, DoSetupStore, DoSetupCode, DoConfirmRead, DoConfirmCode, Quietly DEF Steps
<1>2. CASE Members(r) \/ Read(r)
  BY <1>2, ListingMembers, ListingRead, DoListing, Quietly DEF Steps
<1>3. CASE ConfirmStore(r) \/ ConfirmAdd(r) \/ ConfirmClean(r) \/ RemoveRead(r) \/ Rewrite(r)
  BY <1>3, DoConfirmStore, DoConfirmAdd, DoConfirmClean, DoRemoveRead, DoRewrite, Quietly DEF Steps
<1>4. CASE Delete(r) \/ Unlist(r)
  BY <1>4, DoDelete, DoUnlist DEF Steps
<1>5. CASE RateRead(r) \/ RateWrite(r)
  BY <1>5, DoRateRead, DoRateWrite DEF Steps
<1>6. CASE ChallengeStore(r) \/ LoadChallenge(r)
  BY <1>6, DoChallengeStore, DoLoadChallenge DEF Steps, Verdict
<1>7. CASE DropLate(r)
  BY <1>7, DoDropLate, Quietly DEF Steps
<1>8. CASE LoadMethod(r) \/ Drop(r) \/ Touch(r)
  BY <1>8, DoLoadMethod, DoDrop, DoTouch DEF Steps, Verdict
<1>9. CASE Trust(r) \/ Charge(r)
  BY <1>9, DoTrust, DoCharge DEF Steps, Verdict
<1> QED BY <1>1, <1>2, <1>3, <1>4, <1>5, <1>6, <1>7, <1>8, <1>9 DEF Advance

LEMMA Stepping ==
    ASSUME TInv, Undrawn, Next
    PROVE  /\ Data
           /\ \/ \E r \in Requests : Steps(r)
              \/ /\ req' = req /\ NoVerdict /\ NoRemoval
                 /\ NoCount \/ (rate' = 0 /\ started' = 0)
<1>1. CASE \E r \in Requests : Arrive(r)
  BY <1>1, DoArrive, Quietly DEF Steps
<1>2. CASE \E r \in Requests : Advance(r)
  BY <1>2, DoAdvance DEF Steps
<1>3. CASE Time
  BY <1>3, DoTime
<1> QED BY <1>1, <1>2, <1>3 DEF Next

LEMMA Histories ==
    ASSUME TypeOK, Next
    PROVE  /\ {mixed, crossed, rushed}' \subseteq BOOLEAN
           /\ contested' \subseteq Challenges /\ stale' \subseteq Methods
           /\ contested \subseteq contested' /\ stale \subseteq stale'
           /\ ~ rushed' => ~ rushed /\ ~ Rushed'
           /\ \A c \in Challenges : Contested(c)' => c \in contested'
           /\ \A m \in Methods : Stale(m)' => m \in stale'
<1>1. History
  BY DEF Next
<1>2. mixed' \in BOOLEAN /\ crossed' \in BOOLEAN /\ rushed' \in BOOLEAN
  BY <1>1 DEF History
<1>3. contested' = contested \cup {c \in Challenges : Contested(c)'}
  BY <1>1 DEF History
<1>4. stale' = stale \cup {m \in Methods : Stale(m)'}
  BY <1>1 DEF History
<1>5. rushed' = (rushed \/ Rushed')
  BY <1>1 DEF History
<1>6. contested \subseteq Challenges /\ stale \subseteq Methods
  BY DEF TypeOK
<1>7. ~ rushed' => ~ rushed /\ ~ Rushed'
  BY <1>5
<1> QED BY <1>2, <1>3, <1>4, <1>6, <1>7

LEMMA TypesStart == Init => TInv
<1> SUFFICES ASSUME Init PROVE TInv
  OBVIOUS
<1>1. Fits(Idle)
  BY IdleFields, NoneAssumption DEF Fits, Ops, Verifying, Judged, Accepted
<1>2. req \in [Requests -> Request] /\ \A r \in Requests : Fits(req[r])
  BY <1>1, IdleFields DEF Init
<1>3. NoChallenge \in [stored : BOOLEAN, attempts : 0..MaxAttempts]
  BY AttemptsAssumption DEF NoChallenge
<1>4. {mixed, crossed, rushed} \subseteq BOOLEAN
  BY DEF Init
<1> QED BY <1>2, <1>3, <1>4, IdleFields DEF Init, TInv, TypeOK

LEMMA TypesNext ==
    ASSUME TInv, Undrawn, Next
    PROVE  TInv'
<1>1. Data /\ (req' = req \/ \E r \in Requests : Moves(r))
  BY Stepping DEF Steps
<1>2. req' \in [Requests -> Request] /\ \A r \in Requests : Fits(req[r])'
  BY <1>1 DEF TInv, TypeOK, Moves, Only, Fits
<1>3. /\ {mixed, crossed, rushed}' \subseteq BOOLEAN
      /\ contested' \subseteq Challenges /\ stale' \subseteq Methods
  BY Histories DEF TInv
<1> QED BY <1>1, <1>2, <1>3 DEF TInv, TypeOK, Data

LEMMA UndrawnNext ==
    ASSUME TInv, Undrawn, Next
    PROVE  Undrawn'
<1>1. Data /\ (req' = req \/ \E r \in Requests : Moves(r))
  BY Stepping DEF Steps
<1>2. ASSUME NEW c \in Challenges, about'[c] = None
      PROVE  /\ wrong'[c] = 0 /\ wins'[c] = 0
             /\ \A r \in Requests : req'[r].op = "verify" => req'[r].c # c
  <2>1. about[c] = None /\ wrong'[c] = wrong[c] /\ wins'[c] = wins[c]
    BY <1>1, <1>2 DEF Data
  <2>2. /\ wrong[c] = 0 /\ wins[c] = 0
        /\ \A r \in Requests : req[r].op = "verify" => req[r].c # c
    BY <2>1 DEF Undrawn
  <2>3. ASSUME NEW s \in Requests, req'[s].op = "verify" PROVE req'[s].c # c
    BY <1>1, <2>1, <2>2, <2>3 DEF Moves, Only
  <2> QED BY <2>1, <2>2, <2>3
<1> QED BY <1>2 DEF Undrawn

-----------------------------------------------------------------------------
(* The limit of the rate.                                                  *)

LEMMA RateNext ==
    ASSUME TInv, TInv', Undrawn, RateInv, Next
    PROVE  RateInv'
<1> SUFFICES ASSUME ~ rushed'
             PROVE  /\ started' <= rate' /\ rate' <= RateLimit
                    /\ \A s \in Requests : req'[s].pc = "rateWrite" => started' <= req'[s].count
                    /\ \A s, t \in Requests :
                           req'[s].pc = "rateWrite" /\ req'[t].pc = "rateWrite" => s = t
  BY DEF RateInv
<1>1. ~ rushed /\ ~ Rushed'
  BY Histories DEF TInv
<1>2. \A s, t \in Requests : req'[s].pc = "rateWrite" /\ req'[t].pc = "rateWrite" => s = t
  BY <1>1 DEF Rushed
<1>3. /\ started <= rate /\ rate <= RateLimit
      /\ \A s \in Requests : req[s].pc = "rateWrite" => started <= req[s].count
      /\ \A s, t \in Requests : req[s].pc = "rateWrite" /\ req[t].pc = "rateWrite" => s = t
  BY <1>1 DEF RateInv
<1>4. /\ rate \in Nat /\ started \in Nat /\ RateLimit \in Nat
      /\ \A s \in Requests : req[s].count \in Nat /\ req'[s].count \in Nat
      /\ \A s \in Requests : req[s].pc = "rateWrite" => req[s].count < RateLimit
  BY RateAssumption DEF TInv, TypeOK, Request, Fits
<1>5. CASE NoCount
  BY <1>2, <1>3, <1>5 DEF NoCount
<1>6. CASE rate' = 0 /\ started' = 0
  BY <1>2, <1>4, <1>6
<1>7. CASE \E r \in Requests : Only(r) /\ Counted(r)
  BY <1>2, <1>3, <1>4, <1>7 DEF Only, Counted
<1>8. CASE \E r \in Requests : Only(r) /\ Lets(r)
  <2>1. PICK r \in Requests : Only(r) /\ Lets(r)
    BY <1>8
  <2>2. started <= req[r].count /\ req[r].count < RateLimit
    BY <1>3, <1>4, <2>1 DEF Lets
  <2>3. started' <= rate' /\ rate' <= RateLimit
    BY <1>4, <2>1, <2>2 DEF Lets
  <2>4. \A s \in Requests : req'[s].pc # "rateWrite"
    BY <1>3, <2>1 DEF Lets, Only
  <2> QED BY <2>3, <2>4
<1> QED BY <1>5, <1>6, <1>7, <1>8, Stepping DEF Steps, Moves

-----------------------------------------------------------------------------
(* Removed methods.                                                        *)

LEMMA HoldsOn ==
    ASSUME TInv, Undrawn, Next, NEW s \in Requests, NEW m \in Methods, Holds(s, m)'
    PROVE  Holds(s, m) \/ method[m].stored
<1>1. req' = req \/ \E r \in Requests : Moves(r)
  BY Stepping DEF Steps
<1>2. CASE req'[s] = req[s]
  BY <1>2 DEF Holds
<1>3. CASE Moves(s)
  BY <1>3 DEF Moves
<1> QED BY <1>1, <1>2, <1>3 DEF Moves, Only

LEMMA StaysGone ==
    ASSUME TInv, Undrawn, Next, NEW m \in Methods, Gone(m), kind[m] # None
    PROVE  Gone(m)'
<1>1. ~ method'[m].stored
  BY Stepping DEF Gone, Data
<1>2. \A s \in Requests : ~ Holds(s, m)'
  BY HoldsOn DEF Gone
<1> QED BY <1>1, <1>2 DEF Gone

LEMMA MethodsGoneNext ==
    ASSUME TInv, TInv', Undrawn, MethodsGone, Next
    PROVE  MethodsGone'
<1>1. \A m \in Methods : Stale(m)' => m \in stale'
  BY Histories DEF TInv
<1>2. stale \subseteq stale' /\ removed \subseteq Methods /\ removed' \subseteq Methods
  BY Histories DEF TInv, TypeOK
<1>3. /\ \A m \in Methods : kind[m] # None => kind'[m] # None
      /\ req' = req \/ \E r \in Requests : Moves(r)
      /\ NoRemoval \/ \E r \in Requests : Moves(r) /\ (Deletes(r) \/ Unlists(r))
  BY Stepping DEF Steps, Data
<1>4. \A r \in Requests : req[r].op = "remove" => req[r].m \in Methods /\ kind[req[r].m] # None
  BY DEF TInv, Fits, MethodsGone
<1>5. \A r \in Requests : req'[r].op = "remove" => req'[r].m \in Methods
  BY DEF TInv, Fits
<1>6. removed' = removed \/ \E r \in Requests : Unlists(r) /\ removed' = removed \cup {req[r].m}
  BY <1>3 DEF NoRemoval, Deletes, Unlists
<1>7. ASSUME NEW m \in removed' \ stale' PROVE Gone(m)'
  <2>1. Gone(m) /\ kind[m] # None /\ m \in Methods
    <3>1. CASE m \in removed
      BY <1>2, <1>7, <3>1 DEF MethodsGone
    <3>2. CASE m \notin removed
      <4>1. PICK r \in Requests : Unlists(r) /\ m = req[r].m
        BY <1>6, <1>7, <3>2
      <4> QED BY <1>2, <1>4, <1>7, <4>1 DEF Unlists, MethodsGone
    <3> QED BY <3>1, <3>2
  <2> QED BY <2>1, StaysGone
<1>8. ASSUME NEW r \in Requests, NEW m \in Methods, req'[r].pc = "unlist", req'[r].m = m,
             m \notin stale'
      PROVE  Gone(m)'
  <2>1. CASE req'[r] = req[r]
    <3>1. Gone(m) /\ req[r].op = "remove" /\ req[r].m = m
      BY <1>2, <1>8, <2>1 DEF MethodsGone, TInv, Fits
    <3> QED BY <1>4, <3>1, StaysGone
  <2>2. CASE req'[r] # req[r]
    <3>1. PICK q \in Requests : Moves(q) /\ (Deletes(q) \/ Unlists(q))
      BY <1>3, <1>8, <2>2 DEF NoRemoval
    <3>2. q = r
      BY <2>2, <3>1 DEF Moves, Only
    <3>3. Deletes(r) /\ Only(r)
      BY <1>8, <3>1, <3>2 DEF Unlists, Moves
    <3>4. req[r].m = m /\ ~ method'[m].stored /\ ~ Holds(r, m)' /\ m \notin stale
      BY <1>2, <1>8, <3>3 DEF Deletes
    <3>5. \A s \in Requests : ~ Holds(s, m)
      BY <3>3, <3>4 DEF MethodsGone, Stale, Deletes
    <3>6. ASSUME NEW s \in Requests \ {r}, Holds(s, m)' PROVE Holds(s, m)
      <4>1. req'[s] = req[s]
        BY <3>3 DEF Only
      <4> QED BY <3>6, <4>1 DEF Holds
    <3> QED BY <3>4, <3>5, <3>6 DEF Gone
  <2> QED BY <2>1, <2>2
<1>9. \A m \in removed' : kind'[m] # None
  BY <1>2, <1>3, <1>4, <1>6 DEF MethodsGone, Unlists
<1>10. ASSUME NEW r \in Requests, req'[r].op = "remove" PROVE kind'[req'[r].m] # None
  BY <1>3, <1>4, <1>5, <1>10 DEF Moves, Only
<1> QED BY <1>1, <1>7, <1>8, <1>9, <1>10 DEF MethodsGone

-----------------------------------------------------------------------------
(* Challenges.                                                             *)

\* Nothing new is said of challenge c.
Kept(c) ==
    /\ wrong'[c] = wrong[c] /\ wins'[c] = wins[c]
    /\ challenge'[c] = challenge[c] \/ ~ challenge'[c].stored
    /\ \A s \in Requests :
          /\ Judging(s, c)' => Judging(s, c)
          /\ Judging(s, c)' /\ req'[s].pc # "drop" => req[s].pc # "drop" /\ req'[s].count = req[s].count
          /\ Accepting(s, c)' => Accepting(s, c)

LEMMA KeptHolds ==
    ASSUME NEW c \in Challenges, Kept(c), Left(c), Once(c)
    PROVE  Left(c)' /\ Once(c)'
<1>1. Left(c)'
  BY DEF Kept, Left
<1>2. Spent(c)' => Spent(c)
  BY DEF Kept, Spent
<1>3. Once(c)'
  BY <1>2 DEF Kept, Once
<1> QED BY <1>1, <1>3

LEMMA Apart ==
    ASSUME TInv, NEW s \in Requests, NEW c \in Challenges
    PROVE  /\ Judging(s, c) <=> req[s].pc \in Judged /\ req[s].c = c
           /\ Judging(s, c) => ~ Accepting(s, c)
BY DEF TInv, Fits, Judging, Accepting, Judged, Accepted, Verifying

\* A request that stays as it is, or judges and accepts nothing, says nothing new.
LEMMA SaysNothing ==
    ASSUME NEW s \in Requests, NEW c \in Challenges,
           req'[s] = req[s] \/ req'[s].pc \notin Judged \cup Accepted \/ req'[s].c # c
    PROVE  /\ Judging(s, c)' => Judging(s, c)
           /\ Judging(s, c)' /\ req'[s].pc # "drop" => req[s].pc # "drop" /\ req'[s].count = req[s].count
           /\ Accepting(s, c)' => Accepting(s, c)
BY DEF Judging, Accepting, Judged

LEMMA VerdictElsewhere ==
    ASSUME TInv, NEW r \in Requests, Only(r), NEW c \in Challenges,
           \/ SameCase(r) /\ (Judges(r) \/ Touches(r))
           \/ SameCase(r) /\ req[r].c # c /\ (Loads(r) \/ Takes(r))
           \/ req[r].c \in Challenges /\ req[r].c # c /\ (Wins(r) \/ Charges(r))
           \/ Draws(r) /\ about[c] # None
    PROVE  Kept(c)
<1>1. Idle.pc \notin Judged \cup Accepted
  BY IdleFields DEF Judged, Accepted
<1>2. /\ wrong'[c] = wrong[c] /\ wins'[c] = wins[c]
      /\ challenge'[c] = challenge[c] \/ ~ challenge'[c].stored
  BY DEF Judges, Touches, Loads, Takes, Wins, Charges, Draws
<1>3. ASSUME NEW s \in Requests
      PROVE  /\ Judging(s, c)' => Judging(s, c)
             /\ Judging(s, c)' /\ req'[s].pc # "drop" => req[s].pc # "drop" /\ req'[s].count = req[s].count
             /\ Accepting(s, c)' => Accepting(s, c)
  <2>1. CASE req'[s] = req[s] \/ req'[s].pc \notin Judged \cup Accepted \/ req'[s].c # c
    BY <2>1, SaysNothing
  <2>2. CASE s = r /\ SameCase(r) /\ Judges(r)
    BY <2>2 DEF SameCase, Judges, Judging, Accepting, Accepted
  <2>3. CASE s = r /\ SameCase(r) /\ Touches(r)
    BY <2>3 DEF SameCase, Touches, Judging, Accepting, Accepted
  <2> QED BY <1>1, <2>1, <2>2, <2>3 DEF Only, SameCase, Wins, Charges, Draws
<1> QED BY <1>2, <1>3 DEF Kept

LEMMA ChallengesNext ==
    ASSUME TInv, TInv', Undrawn, ChallengesHold, Next
    PROVE  ChallengesHold'
<1>1. \A c \in Challenges : Contested(c)' => c \in contested'
  BY Histories DEF TInv
<1>2. /\ \A c \in Challenges :
             (\E r, s \in Requests : r # s /\ Judging(r, c) /\ Judging(s, c))' => c \in contested'
  BY <1>1 DEF Contested
<1>3. ASSUME NEW c \in Challenges, c \notin contested' PROVE Left(c)' /\ Once(c)'
  <2>1. c \notin contested /\ Left(c) /\ Once(c)
    BY <1>3, Histories DEF TInv, ChallengesHold
  <2>2. \A r, s \in Requests : Judging(r, c) /\ Judging(s, c) => r = s
    BY <2>1 DEF ChallengesHold
  <2>3. /\ wrong[c] \in Nat /\ wins[c] \in Nat /\ MaxAttempts \in Nat \ {0}
        /\ \A s \in Requests : req[s].count \in Nat
    BY AttemptsAssumption DEF TInv, TypeOK, Request
  <2>4. CASE NoVerdict
    <3>1. Kept(c)
      BY <2>4, SaysNothing DEF NoVerdict, Kept
    <3> QED BY <2>1, <3>1, KeptHolds
  <2>5. ASSUME NEW r \in Requests, Only(r), Verdict(r), ~ Kept(c)
        PROVE  Left(c)' /\ Once(c)'
    <3>1. \/ SameCase(r) /\ req[r].c = c /\ Loads(r)
          \/ SameCase(r) /\ req[r].c = c /\ Takes(r)
          \/ req[r].c = c /\ Wins(r)
          \/ req[r].c = c /\ Charges(r)
          \/ about[c] = None /\ Draws(r)
      BY <2>5, VerdictElsewhere DEF Verdict
    <3>2. \A s \in Requests \ {r} :
             /\ Judging(s, c)' <=> Judging(s, c)
             /\ Accepting(s, c)' <=> Accepting(s, c)
             /\ req'[s] = req[s]
      BY <2>5 DEF Only, Judging, Accepting
    <3>3. CASE SameCase(r) /\ req[r].c = c /\ Loads(r)
      <4>1. ~ Spent(c)
        BY <2>1, <3>3 DEF Loads, Once
      <4>2. ~ Accepting(r, c)'
        BY <3>3 DEF Loads, Accepting, Accepted
      <4>3. ~ Spent(c)' /\ wins'[c] = 0
        BY <3>2, <3>3, <4>1, <4>2 DEF Spent, Loads
      <4>4. Once(c)'
        BY <4>3 DEF Once, Spent
      <4>5. Left(c)'
        BY <2>1, <3>2, <3>3 DEF Left, Loads
      <4> QED BY <4>4, <4>5
    <3>4. CASE SameCase(r) /\ req[r].c = c /\ Takes(r)
      <4>1. Judging(r, c)
        BY <3>4 DEF SameCase, Takes, Judging
      <4>2. ~ Spent(c) /\ wins[c] = 0
        BY <2>1, <4>1 DEF Once, Spent
      <4>3. \A s \in Requests \ {r} : ~ Judging(s, c)' /\ ~ Accepting(s, c)'
        BY <2>2, <3>2, <4>1, <4>2 DEF Spent
      <4>4. ~ Judging(r, c)' /\ ~ challenge'[c].stored /\ wins'[c] = 0 /\ wrong'[c] = wrong[c]
        BY <3>4, <4>2 DEF Takes, Judging
      <4>5. Once(c)'
        BY <4>3, <4>4 DEF Once
      <4>6. Left(c)'
        BY <2>1, <4>3, <4>4 DEF Left
      <4> QED BY <4>5, <4>6
    <3>5. CASE req[r].c = c /\ Wins(r)
      <4>1. Accepting(r, c)
        BY <3>5 DEF Wins, Accepting, Accepted
      <4>2. /\ wins[c] = 0 /\ ~ challenge[c].stored /\ \A s \in Requests : ~ Judging(s, c)
            /\ \A s \in Requests \ {r} : ~ Accepting(s, c)
        BY <2>1, <4>1 DEF Once, Spent
      <4>3. ~ Judging(r, c)' /\ ~ Accepting(r, c)'
        BY <3>5, IdleFields DEF Wins, Judging, Accepting, Accepted
      <4>4. wins'[c] = 1 /\ challenge'[c] = challenge[c] /\ wrong'[c] = wrong[c]
        BY <3>5, <4>2 DEF Wins
      <4>5. \A s \in Requests : ~ Judging(s, c)' /\ ~ Accepting(s, c)'
        BY <3>2, <4>2, <4>3
      <4>6. Once(c)'
        BY <4>2, <4>4, <4>5 DEF Once
      <4>7. Left(c)'
        BY <2>1, <4>4, <4>5 DEF Left
      <4> QED BY <4>6, <4>7
    <3>6. CASE req[r].c = c /\ Charges(r)
      <4>1. Judging(r, c) /\ req[r].pc = "charge" /\ req[r].count \in 1..MaxAttempts
        BY <3>6 DEF Charges, Judging, TInv, Fits, Verifying, Judged
      <4>2. ~ Spent(c) /\ wins[c] = 0 /\ req[r].count + wrong[c] <= MaxAttempts
        BY <2>1, <4>1 DEF Once, Spent, Left
      <4>3. ~ Judging(r, c)' /\ ~ Accepting(r, c)'
        BY <3>6, IdleFields DEF Charges, Judging, Accepting, Accepted
      <4>4. \A s \in Requests : ~ Judging(s, c)' /\ ~ Accepting(s, c)'
        BY <2>2, <3>2, <4>1, <4>2, <4>3 DEF Spent
      <4>5. /\ wins'[c] = 0 /\ wrong'[c] = wrong[c] + 1
            /\ challenge'[c].attempts = req[r].count - 1
        BY <3>6, <4>2 DEF Charges
      <4>6. Once(c)'
        BY <4>4, <4>5 DEF Once, Spent
      <4>7. wrong'[c] <= MaxAttempts /\ challenge'[c].attempts + wrong'[c] <= MaxAttempts
        BY <2>3, <4>1, <4>2, <4>5
      <4>8. Left(c)'
        BY <4>4, <4>7 DEF Left
      <4> QED BY <4>6, <4>8
    <3>7. CASE about[c] = None /\ Draws(r)
      <4>1. wrong[c] = 0 /\ wins[c] = 0 /\ \A s \in Requests : req[s].op = "verify" => req[s].c # c
        BY <3>7 DEF Undrawn
      <4>2. \A s \in Requests : ~ Judging(s, c) /\ ~ Accepting(s, c)
        BY <4>1 DEF TInv, Fits, Judging, Accepting, Verifying
      <4>3. ~ Judging(r, c)' /\ ~ Accepting(r, c)'
        BY <3>7, IdleFields DEF Draws, Judging, Accepting, Accepted
      <4>4. \A s \in Requests : ~ Judging(s, c)' /\ ~ Accepting(s, c)'
        BY <3>2, <4>2, <4>3
      <4>5. wrong'[c] = 0 /\ wins'[c] = 0
        BY <3>7, <4>1 DEF Draws
      <4>6. Once(c)'
        BY <4>4, <4>5 DEF Once, Spent
      <4>7. challenge'[c].attempts \in 0..MaxAttempts
        BY DEF TInv, TypeOK
      <4>8. wrong'[c] <= MaxAttempts /\ challenge'[c].attempts + wrong'[c] <= MaxAttempts
        BY <2>3, <4>5, <4>7
      <4>9. Left(c)'
        BY <4>4, <4>8 DEF Left
      <4> QED BY <4>6, <4>9
    <3> QED BY <3>1, <3>3, <3>4, <3>5, <3>6, <3>7
  <2>6. ASSUME Kept(c) PROVE Left(c)' /\ Once(c)'
    BY <2>1, <2>6, KeptHolds
  <2> QED BY <2>4, <2>5, <2>6, Stepping DEF Steps, Moves
<1> QED BY <1>2, <1>3 DEF ChallengesHold

-----------------------------------------------------------------------------
(* The theorems.                                                           *)

LEMMA InvStarts == Init => IInv
<1> SUFFICES ASSUME Init PROVE IInv
  OBVIOUS
<1>1. TInv
  BY TypesStart
<1>2. \A r \in Requests : req[r] = Idle
  BY DEF Init
<1>3. /\ \A r \in Requests, m \in Methods : ~ Holds(r, m)
      /\ \A r \in Requests, c \in Challenges : ~ Judging(r, c) /\ ~ Accepting(r, c)
      /\ \A r \in Requests : req[r].pc = "idle" /\ req[r].op = None /\ None \notin Ops
  BY <1>2, IdleFields, NoneAssumption DEF Holds, Judging, Accepting, Accepted, Ops
<1>4. \A c \in Challenges : wrong[c] = 0 /\ wins[c] = 0 /\ ~ challenge[c].stored
  BY DEF Init, NoChallenge
<1>5. Undrawn
  BY <1>3, <1>4 DEF Undrawn, Ops
<1>6. ASSUME NEW c \in Challenges PROVE Left(c) /\ Once(c)
  BY <1>3, <1>4, AttemptsAssumption DEF Left, Once, Spent
<1>7. ChallengesHold
  BY <1>3, <1>6 DEF ChallengesHold
<1>8. RateInv
  BY <1>3, RateAssumption DEF Init, RateInv
<1>9. MethodsGone
  BY <1>3 DEF Init, MethodsGone, Stale, Ops
<1> QED BY <1>1, <1>5, <1>7, <1>8, <1>9 DEF IInv

LEMMA Stuttering ==
    ASSUME IInv, UNCHANGED vars
    PROVE  IInv'
<1>1. /\ UNCHANGED <<method, members, setupCode, challenge, rate>>
      /\ UNCHANGED <<kind, about, late, renewed, req>>
      /\ UNCHANGED <<wrong, wins, removed, started>>
      /\ UNCHANGED <<mixed, crossed, rushed, contested, stale>>
  BY DEF vars, redis, facts, told, overlaps
<1>2. TInv'
  BY <1>1 DEF IInv, TInv, TypeOK, Fits
<1>3. Undrawn'
  BY <1>1 DEF IInv, Undrawn
<1>4. \A r \in Requests, c \in Challenges : /\ Judging(r, c)' <=> Judging(r, c)
                                            /\ Accepting(r, c)' <=> Accepting(r, c)
  BY <1>1 DEF Judging, Accepting
<1>5. \A c \in Challenges : Kept(c)
  BY <1>1, <1>4 DEF Kept
<1>6. ChallengesHold'
  BY <1>1, <1>4, <1>5, KeptHolds DEF IInv, ChallengesHold
<1>7. RateInv'
  BY <1>1 DEF IInv, RateInv
<1>8. \A r \in Requests, m \in Methods : Holds(r, m)' <=> Holds(r, m)
  BY <1>1 DEF Holds
<1>9. MethodsGone'
  BY <1>1, <1>8 DEF IInv, MethodsGone, Gone, Stale, TInv, TypeOK
<1> QED BY <1>2, <1>3, <1>6, <1>7, <1>9 DEF IInv

\* The invariant of the second factors: every step of every call keeps it.
THEOREM Invariance == Spec => []IInv
<1>1. Init => IInv
  BY InvStarts
<1>2. IInv /\ [Next]_vars => IInv'
  <2>1. ASSUME IInv, Next PROVE IInv'
    <3>1. TInv /\ Undrawn /\ TInv' /\ Undrawn'
      BY <2>1, TypesNext, UndrawnNext DEF IInv
    <3>2. ChallengesHold' /\ RateInv' /\ MethodsGone'
      BY <2>1, <3>1, ChallengesNext, RateNext, MethodsGoneNext DEF IInv
    <3> QED BY <3>1, <3>2 DEF IInv
  <2> QED BY <2>1, Stuttering
<1> QED BY <1>1, <1>2, PTL DEF Spec

\* The types of keys and requests: verifyMFAChallenge never stores a
\* challenge with a negative number of attempts.
THEOREM TypesHold == Spec => []TypeOK
<1>1. IInv => TypeOK
  BY DEF IInv, TInv
<1> QED BY <1>1, Invariance, PTL

\* verifyMFAChallenge: however calls, failures and expiry mix, a challenge
\* takes no more wrong codes than maxAttempts, unless verifications overlap.
THEOREM GuessesStayBounded == Spec => []GuessesBounded
<1>1. IInv => GuessesBounded
  BY DEF IInv, ChallengesHold, Left, GuessesBounded
<1> QED BY <1>1, Invariance, PTL

\* verifyMFAChallenge: a challenge whose deletion went before is not accepted
\* again, unless two verifications of it overlap.
THEOREM AcceptedAtMostOnce == Spec => []AcceptedOnce
<1>1. IInv => AcceptedOnce
  BY DEF IInv, ChallengesHold, Once, AcceptedOnce
<1> QED BY <1>1, Invariance, PTL

\* checkRateLimit: the limit holds between two lapses of the counter, unless
\* two calls read the same count.
THEOREM RateAlwaysHolds == Spec => []RateHolds
<1>1. IInv => RateHolds
  BY RateAssumption DEF IInv, RateInv, RateHolds, TInv, TypeOK
<1> QED BY <1>1, Invariance, PTL

\* removeMFAMethod: no call writes a removed method back, unless one held a
\* copy of it when it was deleted.
THEOREM RemovedStayRemoved == Spec => []RemovedStaysRemoved
<1>1. IInv => RemovedStaysRemoved
  BY DEF IInv, MethodsGone, Gone, RemovedStaysRemoved
<1> QED BY <1>1, Invariance, PTL

-----------------------------------------------------------------------------
(* Confirmed methods, a method that is left, and one primary: the part of  *)
(* the inductive invariant on top of IInv.                                 *)

\* A value of a method that passes challenges.
Enabled(v) == v.stored /\ v.enabled

\* The steps at which a challenge is to be told of the method req[r].m.
Chosen == {"rateRead", "rateWrite", "challengeStore"}

\* The steps at which a verification has a copy of its method.
Copied(q) == q.op = "verify" /\ q.pc \in {"drop", "touch"}

\* Method m was confirmed, or somebody has it from the list of those that were.
Confirmed(m) ==
    \/ m \in members
    \/ \E c \in Challenges : about[c] = m
    \/ \E r \in Requests :
          \/ m \in req[r].todo \/ req[r].found[m].stored
          \/ req[r].pc \in Chosen \cup {"confirmAdd"} /\ req[r].m = m

\* What a request carries: the method of its challenge, what was listed, and a
\* method that exists.
Carries(q) ==
    /\ q.op = "verify" /\ q.pc \in {"loadMethod", "drop", "touch"} => q.m = about[q.c]
    /\ q.pc = "rewrite" => \A m \in q.pend : q.found[m].stored
    /\ q.op = "confirm" => kind[q.m] # None
    /\ q.pc \in {"delete", "unlist"} => q.target = None

\* What was confirmed stays enabled as long as it is stored, also in copies.
StaysEnabled(m) ==
    /\ kind[m] # None
    /\ method[m].stored => method[m].enabled
    /\ \A r \in Requests :
          /\ req[r].found[m].stored => req[r].found[m].enabled
          /\ Copied(req[r]) /\ req[r].m = m => Enabled(req[r].copy)

ConfirmedInv ==
    /\ \A r \in Requests : Carries(req[r])
    /\ \A m \in Methods : Confirmed(m) => StaysEnabled(m)

\* What a removal has seen of the other methods stays so.
Remains(r) ==
    /\ \A n \in req[r].todo \ {req[r].m} : n \in members
    /\ \A n \in Listed(req[r]) \ {req[r].m} : n \in Active
    /\ req[r].pc \in {"delete", "unlist"} => Usable(req[r]) \ {req[r].m} # {}

LeavingInv ==
    /\ Crossed => crossed
    /\ ~ crossed => \A r \in Requests : Leaving(r) => Remains(r)

\* Only an enabled method is primary.
Plain(v) == v.primary => Enabled(v)

PlainInv ==
    /\ \A m \in Methods : Plain(method[m])
    /\ \A r \in Requests : Plain(req[r].copy) /\ \A m \in Methods : Plain(req[r].found[m])

\* Request r reads the list to say which method is the primary.
Ranks(r) == req[r].op = "confirm" \/ req[r].target # None

\* What a request that mixes with no other has read is so.
Holding(r) ==
    /\ Ranks(r) /\ req[r].pc = "read" =>
          /\ req[r].todo \subseteq members
          /\ \A m \in members : m \in req[r].todo \/ req[r].found[m] = method[m]
          /\ \A m \in Methods : req[r].found[m].stored => m \in members
    /\ req[r].pc = "confirmStore" => \A m \in members : req[r].found[m] = method[m]
    /\ req[r].pc = "rewrite" =>
          /\ \A m \in req[r].pend : req[r].found[m] = method[m]
          /\ \A m \in Methods \ req[r].pend : method[m].primary =>
                m = req[r].target /\ \A n \in req[r].pend : ~ method[n].primary
    /\ req[r].op = "confirm" /\ req[r].pc \in {"confirmCode", "members", "read", "confirmStore"}
       /\ req[r].copy.primary => method[req[r].m].primary
    /\ req[r].pc = "unlist" => ~ method[req[r].m].stored
    /\ Copied(req[r]) => req[r].copy = method[req[r].m]

\* A method that is enabled and about to be listed.
Adding(m) == \E r \in Requests : req[r].pc = "confirmAdd" /\ req[r].m = m

EnabledListed == \A m \in Methods : Enabled(method[m]) => m \in members \/ Adding(m)
OneRanked == \A m, n \in Methods : method[m].primary /\ method[n].primary => m = n

PrimaryInv ==
    /\ Mixed => mixed
    /\ ~ mixed => EnabledListed /\ OneRanked /\ \A r \in Requests : Holding(r)

MethodsInv == IInv /\ ConfirmedInv /\ LeavingInv /\ PlainInv /\ PrimaryInv

-----------------------------------------------------------------------------
(* What each step does to the methods, the list and the request.           *)

Still == UNCHANGED <<method, members, kind, about>>
Keeps(v, q) == v.copy = q.copy /\ v.found = q.found /\ v.todo = q.todo /\ v.pend = q.pend

\* The method of request r gets value w.
Writes(r, w) ==
    /\ UNCHANGED <<members, kind, about>>
    /\ \A n \in Methods : method'[n] = IF n = req[r].m THEN w ELSE method[n]

Ended(r) == Only(r) /\ req'[r] = Idle /\ Still /\ req[r].pc # "confirmAdd"

Arrives(r) ==
    /\ Only(r) /\ Still /\ req[r].pc = "idle"
    /\ req'[r].copy = Absent /\ req'[r].found = [m \in Methods |-> Absent] /\ req'[r].todo = {}
    /\ \/ req'[r].pc = "members" /\ req'[r].op \in {"primary", "challenge"}
       \/ /\ req'[r].pc \in {"setupStore", "confirmRead", "removeRead", "loadChallenge"}
          /\ req'[r].op = "confirm" => kind[req'[r].m] # None

Onward(r) ==
    /\ Only(r) /\ Still /\ Kin(req'[r], req[r]) /\ Keeps(req'[r], req[r])
    /\ \/ req[r].pc = "confirmCode" /\ req'[r].pc = "members"
       \/ req[r].pc = "drop" /\ req'[r].pc = "touch"
       \/ req[r].pc = "rateRead" /\ req'[r].pc = "rateWrite"
       \/ req[r].pc = "rateWrite" /\ req'[r].pc = "challengeStore"
       \/ req[r].pc = "loadChallenge" /\ req'[r].pc = "dropLate"

Copying(r) ==
    /\ Only(r) /\ Still /\ Kin(req'[r], req[r])
    /\ req'[r].found = req[r].found /\ req'[r].todo = req[r].todo
    /\ req[r].m \in Methods /\ method[req[r].m].stored /\ req'[r].copy = method[req[r].m]
    /\ \/ /\ req[r].op = "confirm" /\ req[r].pc = "confirmRead"
          /\ req'[r].pc \in {"confirmCode", "members"}
       \/ req[r].op = "remove" /\ req[r].pc = "removeRead" /\ req'[r].pc = "members"
       \/ req[r].op = "verify" /\ req[r].pc = "loadMethod" /\ req'[r].pc \in {"drop", "charge"}

SetsUp(r) ==
    /\ Only(r) /\ UNCHANGED <<members, about>> /\ req[r].pc = "setupStore"
    /\ \E m \in Methods :
          /\ kind[m] = None /\ kind'[m] # None /\ \A n \in Methods : n # m => kind'[n] = kind[n]
          /\ \E w \in Value : /\ w.stored /\ ~ w.enabled /\ ~ w.primary
                            /\ \A n \in Methods : method'[n] = IF n = m THEN w ELSE method[n]
    /\ \/ req'[r] = Idle
       \/ req'[r].pc = "setupCode" /\ req'[r].op = "setup" /\ Keeps(req'[r], req[r])

\* A value that verifyMFASetup stores.
Proven(q, w) == w.stored /\ w.enabled /\ (w.primary <=> q.copy.primary \/ Listed(q) = {})

Confirms(r) ==
    /\ Only(r) /\ req[r].pc = "confirmStore" /\ Kin(req'[r], req[r]) /\ req'[r].pc = "confirmAdd"
    /\ req'[r].copy = Absent /\ req'[r].found = [m \in Methods |-> Absent]
    /\ req'[r].todo = req[r].todo
    /\ \E w \in Value : Proven(req[r], w) /\ Writes(r, w)

Adds(r) ==
    /\ Only(r) /\ UNCHANGED <<method, kind, about>> /\ req[r].pc = "confirmAdd"
    /\ Kin(req'[r], req[r]) /\ Keeps(req'[r], req[r]) /\ req'[r].pc = "confirmClean"
    /\ \/ members' = members \cup {req[r].m}
       \/ members' = members /\ req'[r].swallowed

Erases(r) ==
    /\ Only(r) /\ req[r].pc = "delete" /\ Kin(req'[r], req[r]) /\ Keeps(req'[r], req[r])
    /\ req'[r].pc = "unlist" /\ Writes(r, Absent)

Strikes(r) ==
    /\ Only(r) /\ UNCHANGED <<method, kind, about>> /\ req[r].pc = "unlist"
    /\ members' \in {members, members \ {req[r].m}}
    /\ \/ req'[r] = Idle
       \/ /\ req'[r].pc = "members" /\ req'[r].target # None /\ req'[r].op = req[r].op
          /\ Keeps(req'[r], req[r])

Ranking(r) ==
    /\ Only(r) /\ UNCHANGED <<members, kind, about>> /\ req[r].pc = "rewrite"
    /\ \E m \in req[r].pend :
          /\ req[r].found[m].primary \/ \A n \in req[r].pend : ~ req[r].found[n].primary
          /\ \E w \in Value :
                /\ w.stored = req[r].found[m].stored /\ w.enabled = req[r].found[m].enabled
                /\ w.primary <=> m = req[r].target
                /\ \A n \in Methods : method'[n] = IF n = m THEN w ELSE method[n]
          /\ \/ req'[r] = Idle
             \/ /\ Kin(req'[r], req[r]) /\ req'[r].pc = "rewrite" /\ req'[r].pend = req[r].pend \ {m}
                /\ req'[r].copy = req[r].copy /\ req'[r].found = req[r].found
                /\ req'[r].todo = req[r].todo

Chooses(r) ==
    /\ Only(r) /\ Still /\ req[r].pc = "loadChallenge" /\ req'[r].pc = "loadMethod"
    /\ req'[r].op = "verify" /\ req'[r].m = about[req[r].c] /\ req'[r].c = req[r].c
    /\ Keeps(req'[r], req[r])

Opens(r) ==
    /\ Only(r) /\ req'[r] = Idle /\ UNCHANGED <<method, members, kind>>
    /\ req[r].pc = "challengeStore"
    /\ \E c \in Challenges : about[c] = None /\ about' = [about EXCEPT ![c] = req[r].m]

Uses(r) ==
    /\ Only(r) /\ req[r].pc = "touch" /\ req'[r].pc = "trust" /\ Kin(req'[r], req[r])
    /\ req'[r].copy = Absent /\ req'[r].found = req[r].found /\ req'[r].todo = req[r].todo
    /\ Writes(r, req[r].copy)

\* v is request q when t is still to be read and f was: it reads on, or goes
\* on from the list.
Outcome(v, q, t, f) ==
    \/ v = Idle
    \/ /\ Kin(v, q) /\ v.copy = q.copy /\ v.found = f /\ v.todo = t
       /\ \/ v.pc = "read" /\ t # {}
          \/ /\ v.pc = "rewrite" /\ t = {} /\ q.target # None
             /\ v.pend = {m \in Methods : f[m].stored} /\ v.pend # {}
          \/ v.pc = "confirmStore" /\ t = {} /\ q.target = None /\ q.op = "confirm"
          \/ /\ v.pc = "delete" /\ t = {} /\ q.target = None /\ q.op = "remove"
             /\ \E m \in Methods \ {q.m} : f[m].stored /\ f[m].enabled
    \/ /\ v.pc = "rateRead" /\ v.op = q.op /\ q.op \notin {"confirm", "remove"}
       /\ v.target = None /\ v.copy = q.copy /\ v.todo = {}
       /\ v.found = [m \in Methods |-> Absent]
       /\ v.m \in Methods /\ f[v.m].stored

Begins(r) ==
    /\ Only(r) /\ Still /\ req[r].pc = "members"
    /\ \E t \in {members, {}} :
          /\ Outcome(req'[r], req[r], t, [m \in Methods |-> Absent])
          /\ t = members \/ req'[r].swallowed \/ req'[r] = Idle

Reads(r) ==
    /\ Only(r) /\ Still /\ req[r].pc = "read"
    /\ \E n \in req[r].todo :
          Outcome(req'[r], req[r], req[r].todo \ {n}, [req[r].found EXCEPT ![n] = method[n]])

Does(r) ==
    \/ Ended(r) \/ Arrives(r) \/ Onward(r) \/ Copying(r) \/ SetsUp(r) \/ Confirms(r) \/ Adds(r)
    \/ Erases(r) \/ Strikes(r) \/ Ranking(r) \/ Chooses(r) \/ Opens(r) \/ Uses(r)
    \/ Begins(r) \/ Reads(r)

\* Time only takes methods that were not confirmed.
Lapsing ==
    /\ req' = req /\ UNCHANGED <<members, kind, about>>
    /\ \/ method' = method
       \/ \E m \in Methods : /\ method[m].stored /\ ~ method[m].enabled
                             /\ \A n \in Methods :
                                   method'[n] = IF n = m THEN Absent ELSE method[n]

LEMMA Stills ==
    ASSUME UNCHANGED <<redis, facts>>
    PROVE  Still
BY DEF redis, facts, Still

LEMMA Throws ==
    ASSUME TInv, NEW r \in Requests, Throw(r), req[r].pc # "confirmAdd"
    PROVE  Ended(r)
BY Answering, Stills DEF TInv, Throw, Ended

LEMMA Answers ==
    ASSUME TInv, NEW r \in Requests, Answer(r), UNCHANGED <<method, members, facts>>,
           req[r].pc # "confirmAdd"
    PROVE  Ended(r)
BY Answering DEF TInv, Ended, Still, facts

LEMMA DoesStart ==
    ASSUME TInv, NEW r \in Requests, NEW op, NEW pc \in PCs, NEW m \in Methods \cup {None},
           NEW c \in Challenges \cup {None}, Start(r, op, pc, m, c), UNCHANGED <<redis, facts, told>>,
           \/ pc = "members" /\ op = "challenge"
           \/ /\ pc \in {"setupStore", "confirmRead", "removeRead", "loadChallenge"}
              /\ op = "confirm" => kind[m] # None
    PROVE  Arrives(r)
<1> DEFINE q == [Idle EXCEPT !.pc = pc, !.op = op, !.m = m, !.c = c]
<1>1. op \in Ops /\ Become(r, q) /\ req[r].pc = "idle"
  BY KindsAssumption DEF Start
<1>2. /\ q \in Request /\ q.pc = pc /\ q.op = op /\ q.m = m /\ q.copy = Absent
      /\ q.found = [n \in Methods |-> Absent] /\ q.todo = {}
  BY <1>1, IdleFields DEF Request
<1> HIDE DEF q
<1>3. Only(r) /\ req'[r] = q /\ Still
  BY <1>1, <1>2, Becoming, Stills DEF TInv
<1> QED BY <1>1, <1>2, <1>3 DEF Arrives

LEMMA DoesArrive ==
    ASSUME TInv, NEW r \in Requests, Arrive(r)
    PROVE  Arrives(r)
<1>1. CASE StartSetup(r)
  BY <1>1, DoesStart, Named DEF StartSetup
<1>2. CASE StartConfirm(r)
  BY <1>2, DoesStart, Named DEF StartConfirm, Known
<1>3. CASE StartRemove(r)
  BY <1>3, DoesStart, Named DEF StartRemove
<1>4. CASE StartChallenge(r)
  BY <1>4, DoesStart, Named DEF StartChallenge
<1>5. CASE StartVerify(r)
  BY <1>5, DoesStart, Named DEF StartVerify
<1>6. CASE StartPrimary(r)
  <2>1. PICK m \in Methods : Become(r, [Idle EXCEPT !.pc = "members", !.op = "primary", !.target = m])
    BY <1>6 DEF StartPrimary
  <2> DEFINE v == [Idle EXCEPT !.pc = "members", !.op = "primary", !.target = m]
  <2>2. /\ v \in Request /\ v.pc = "members" /\ v.op = "primary" /\ v.copy = Absent
        /\ v.found = [n \in Methods |-> Absent] /\ v.todo = {}
    BY IdleFields, Named DEF Request, Ops
  <2>3. Become(r, v)
    BY <2>1
  <2> HIDE DEF v
  <2>4. Only(r) /\ req'[r] = v
    BY <2>2, <2>3, Becoming DEF TInv
  <2> QED BY <1>6, <2>2, <2>4, Stills DEF Arrives, StartPrimary
<1> QED BY <1>1, <1>2, <1>3, <1>4, <1>5, <1>6 DEF Arrive, MethodRoutes, LoginRoutes

LEMMA DoesSetupStore ==
    ASSUME TInv, NEW r \in Requests, SetupStore(r)
    PROVE  Ended(r) \/ SetsUp(r)
<1>1. CASE Throw(r)
  BY <1>1, Throws DEF SetupStore
<1>2. CASE ~ Throw(r)
  <2>1. PICK m \in Methods, t \in MethodTypes :
          /\ kind[m] = None
          /\ kind' = [kind EXCEPT ![m] = t]
          /\ method' = [method EXCEPT ![m] = [Absent EXCEPT !.stored = TRUE]]
          /\ Become(r, IF t \in Sent THEN [req[r] EXCEPT !.pc = "setupCode", !.m = m] ELSE Idle)
          /\ UNCHANGED <<members, setupCode, challenge, rate, about, late, renewed, told>>
    BY <1>2 DEF SetupStore
  <2> DEFINE w == [Absent EXCEPT !.stored = TRUE]
             v == [req[r] EXCEPT !.pc = "setupCode", !.m = m]
  <2>2. w \in Value /\ w.stored /\ ~ w.enabled /\ ~ w.primary
    BY DEF Absent, Value
  <2>3. req[r] \in Request /\ req[r].pc = "setupStore" /\ req[r].op = "setup" /\ TypeOK
    BY DEF TInv, TypeOK, SetupStore, Fits
  <2>4. v \in Request /\ v.pc = "setupCode" /\ v.op = "setup" /\ Keeps(v, req[r])
    BY <2>3, Named DEF Request, Keeps
  <2>5. Become(r, IF t \in Sent THEN v ELSE Idle) /\ method' = [method EXCEPT ![m] = w]
    BY <2>1
  <2> HIDE DEF v, w
  <2>6. \A n \in Methods : method'[n] = IF n = m THEN w ELSE method[n]
    BY <2>3, <2>5 DEF TypeOK
  <2>7. kind'[m] = t /\ t # None /\ \A n \in Methods : n # m => kind'[n] = kind[n]
    BY <2>1, <2>3, NoneAssumption DEF TypeOK
  <2>8. Only(r) /\ req'[r] \in {v, Idle}
    BY <2>3, <2>4, <2>5, IdleFields, Becoming
  <2>9. SetsUp(r)
    BY <2>1, <2>2, <2>3, <2>4, <2>6, <2>7, <2>8 DEF SetsUp
  <2> QED BY <2>9
<1> QED BY <1>1, <1>2

LEMMA DoesEnd ==
    ASSUME TInv, NEW r \in Requests,
           SetupCode(r) \/ ConfirmClean(r) \/ DropLate(r) \/ Trust(r) \/ Charge(r)
    PROVE  Ended(r)
<1>1. CASE SetupCode(r)
  BY <1>1, Throws, Answers DEF SetupCode
<1>2. CASE ConfirmClean(r)
  BY <1>2, Throws, Answers DEF ConfirmClean
<1>3. CASE DropLate(r)
  BY <1>3, Throws, Answers DEF DropLate
<1>4. CASE Trust(r)
  BY <1>4, Throws, Answers DEF Trust, redis, facts
<1>5. CASE Charge(r)
  <2>1. CASE Throw(r)
    BY <1>5, <2>1, Throws DEF Charge
  <2>2. CASE ~ Throw(r)
    <3>1. Answer(r) /\ UNCHANGED <<method, members, setupCode, rate, kind, about, late, wins, removed, started>>
      BY <1>5, <2>2 DEF Charge
    <3> QED BY <1>5, <3>1, Answering DEF TInv, Ended, Still, Charge
  <2> QED BY <2>1, <2>2
<1> QED BY <1>1, <1>2, <1>3, <1>4, <1>5

\* A request that goes on to step pc with a count.
LEMMA GoesOnward ==
    ASSUME TInv, NEW r \in Requests, NEW pc \in PCs, NEW n \in Nat,
           Become(r, [req[r] EXCEPT !.pc = pc, !.count = n])
    PROVE  Only(r) /\ Kin(req'[r], req[r]) /\ Keeps(req'[r], req[r]) /\ req'[r].pc = pc
<1> DEFINE v == [req[r] EXCEPT !.pc = pc, !.count = n]
<1>1. req[r] \in Request
  BY DEF TInv, TypeOK
<1>2. v \in Request /\ v.pc = pc /\ Kin(v, req[r]) /\ Keeps(v, req[r])
  BY <1>1 DEF Request, Kin, Keeps
<1>3. Become(r, v)
  OBVIOUS
<1> HIDE DEF v
<1> QED BY <1>2, <1>3, Becoming DEF TInv

LEMMA GoesStraight ==
    ASSUME TInv, NEW r \in Requests, NEW pc \in PCs, Become(r, [req[r] EXCEPT !.pc = pc])
    PROVE  Only(r) /\ Kin(req'[r], req[r]) /\ Keeps(req'[r], req[r]) /\ req'[r].pc = pc
<1> DEFINE v == [req[r] EXCEPT !.pc = pc]
<1>1. req[r] \in Request
  BY DEF TInv, TypeOK
<1>2. v \in Request /\ v.pc = pc /\ Kin(v, req[r]) /\ Keeps(v, req[r])
  BY <1>1 DEF Request, Kin, Keeps
<1>3. Become(r, v)
  OBVIOUS
<1> HIDE DEF v
<1> QED BY <1>2, <1>3, Becoming DEF TInv

LEMMA DoesOnward ==
    ASSUME TInv, NEW r \in Requests,
           ConfirmCode(r) \/ Drop(r) \/ RateRead(r) \/ RateWrite(r)
    PROVE  Ended(r) \/ Onward(r)
<1>1. CASE ConfirmCode(r)
  <2>1. Answer(r) \/ Become(r, [req[r] EXCEPT !.pc = "members"])
    BY <1>1 DEF ConfirmCode
  <2>2. UNCHANGED <<method, members, facts>> /\ Still /\ req[r].pc = "confirmCode"
    BY <1>1, Stills DEF ConfirmCode, redis
  <2> QED BY <2>1, <2>2, Answers, GoesStraight, Named DEF Onward
<1>2. CASE Drop(r)
  <2>1. Throw(r) \/ (/\ Become(r, [req[r] EXCEPT !.pc = "touch"])
                     /\ UNCHANGED <<method, members, facts>>)
    BY <1>2 DEF Drop
  <2>2. req[r].pc = "drop" /\ (UNCHANGED <<method, members, facts>> => Still)
    BY <1>2 DEF Drop, facts, Still
  <2> QED BY <2>1, <2>2, Throws, GoesStraight, Named DEF Onward
<1>3. CASE RateRead(r)
  <2>1. Answer(r) \/ Become(r, [req[r] EXCEPT !.pc = "rateWrite", !.count = rate])
    BY <1>3 DEF RateRead
  <2>2. UNCHANGED <<method, members, facts>> /\ Still /\ req[r].pc = "rateRead" /\ rate \in Nat
    BY <1>3, Stills DEF RateRead, redis, TInv, TypeOK
  <2> QED BY <2>1, <2>2, Answers, GoesOnward, Named DEF Onward
<1>4. CASE RateWrite(r)
  <2>1. Throw(r) \/ (/\ Become(r, [req[r] EXCEPT !.pc = "challengeStore", !.count = 0])
                     /\ UNCHANGED <<method, members, facts>>)
    BY <1>4 DEF RateWrite
  <2>2. req[r].pc = "rateWrite" /\ (UNCHANGED <<method, members, facts>> => Still)
    BY <1>4 DEF RateWrite, facts, Still
  <2> QED BY <2>1, <2>2, Throws, GoesOnward, Named DEF Onward
<1> QED BY <1>1, <1>2, <1>3, <1>4

LEMMA DoesConfirmRead ==
    ASSUME TInv, NEW r \in Requests, ConfirmRead(r)
    PROVE  Ended(r) \/ Copying(r)
<1> DEFINE m == req[r].m
           v == [req[r] EXCEPT !.pc = "confirmCode", !.copy = method[m]]
           w == [req[r] EXCEPT !.pc = "members", !.copy = method[m]]
<1>1. /\ req[r] \in Request /\ req[r].op = "confirm" /\ req[r].pc = "confirmRead" /\ m \in Methods /\ method[m] \in Value
      /\ UNCHANGED <<method, members, facts>> /\ Still
  BY Stills DEF ConfirmRead, TInv, TypeOK, Fits, redis
<1>2. /\ v \in Request /\ v.pc = "confirmCode" /\ Kin(v, req[r]) /\ v.copy = method[m]
      /\ v.found = req[r].found /\ v.todo = req[r].todo
      /\ w \in Request /\ w.pc = "members" /\ Kin(w, req[r]) /\ w.copy = method[m]
      /\ w.found = req[r].found /\ w.todo = req[r].todo
  BY <1>1, Named DEF Request, Kin
<1>3. \/ Answer(r)
      \/ method[m].stored /\ Become(r, [[req[r] EXCEPT !.copy = method[m]] EXCEPT !.pc = "confirmCode"])
      \/ method[m].stored /\ Become(r, [[req[r] EXCEPT !.copy = method[m]] EXCEPT !.pc = "members"])
  BY DEF ConfirmRead
<1>4. /\ [[req[r] EXCEPT !.copy = method[m]] EXCEPT !.pc = "confirmCode"] = v
      /\ [[req[r] EXCEPT !.copy = method[m]] EXCEPT !.pc = "members"] = w
  BY <1>1 DEF Request
<1>5. Answer(r) \/ (method[m].stored /\ (Become(r, v) \/ Become(r, w)))
  BY <1>3, <1>4
<1> HIDE DEF v, w
<1>6. CASE Answer(r)
  BY <1>1, <1>6, Answers
<1>7. CASE method[m].stored /\ (Become(r, v) \/ Become(r, w))
  <2>1. Only(r) /\ req'[r] \in {v, w}
    BY <1>2, <1>7, Becoming DEF TInv
  <2> QED BY <1>1, <1>2, <1>7, <2>1 DEF Copying
<1> QED BY <1>5, <1>6, <1>7

LEMMA DoesRemoveRead ==
    ASSUME TInv, NEW r \in Requests, RemoveRead(r)
    PROVE  Ended(r) \/ Copying(r)
<1> DEFINE m == req[r].m
           v == [req[r] EXCEPT !.pc = "members", !.copy = method[m]]
<1>1. /\ req[r] \in Request /\ req[r].op = "remove" /\ req[r].pc = "removeRead" /\ m \in Methods /\ method[m] \in Value
      /\ UNCHANGED <<method, members, facts>> /\ Still
  BY Stills DEF RemoveRead, TInv, TypeOK, Fits, redis
<1>2. /\ v \in Request /\ v.pc = "members" /\ Kin(v, req[r]) /\ v.copy = method[m]
      /\ v.found = req[r].found /\ v.todo = req[r].todo
  BY <1>1, Named DEF Request, Kin
<1>3. Answer(r) \/ (method[m].stored /\ Become(r, v))
  BY DEF RemoveRead
<1> HIDE DEF v
<1>4. CASE Answer(r)
  BY <1>1, <1>4, Answers
<1>5. CASE method[m].stored /\ Become(r, v)
  <2>1. Only(r) /\ req'[r] = v
    BY <1>2, <1>5, Becoming DEF TInv
  <2> QED BY <1>1, <1>2, <1>5, <2>1 DEF Copying
<1> QED BY <1>3, <1>4, <1>5

LEMMA DoesLoadMethod ==
    ASSUME TInv, NEW r \in Requests, LoadMethod(r)
    PROVE  Ended(r) \/ Copying(r)
<1> DEFINE m == req[r].m
           v(pc) == [req[r] EXCEPT !.pc = pc, !.copy = method[m]]
<1>1. /\ req[r] \in Request /\ req[r].op = "verify" /\ req[r].pc = "loadMethod"
      /\ m \in Methods /\ method[m] \in Value
      /\ UNCHANGED <<method, members, facts>> /\ Still
  BY Stills DEF LoadMethod, TInv, TypeOK, Fits, redis, Verifying, Judged
<1>2. \A pc \in {"drop", "charge"} :
         /\ v(pc) \in Request /\ v(pc).pc = pc /\ Kin(v(pc), req[r]) /\ v(pc).copy = method[m]
         /\ v(pc).found = req[r].found /\ v(pc).todo = req[r].todo
  BY <1>1, Named DEF Request, Kin
<1>3. Answer(r) \/ (method[m].stored /\ \E pc \in {"drop", "charge"} : Become(r, v(pc)))
  BY DEF LoadMethod
<1> HIDE DEF v
<1>4. CASE Answer(r)
  BY <1>1, <1>4, Answers
<1>5. CASE method[m].stored /\ \E pc \in {"drop", "charge"} : Become(r, v(pc))
  <2>1. PICK pc \in {"drop", "charge"} : Become(r, v(pc))
    BY <1>5
  <2>2. Only(r) /\ req'[r] = v(pc)
    BY <1>2, <2>1, Becoming DEF TInv
  <2> QED BY <1>1, <1>2, <1>5, <2>2 DEF Copying
<1> QED BY <1>3, <1>4, <1>5

LEMMA DoesLoadChallenge ==
    ASSUME TInv, Undrawn, NEW r \in Requests, LoadChallenge(r)
    PROVE  Ended(r) \/ Onward(r) \/ Chooses(r)
<1> DEFINE n == challenge[req[r].c].attempts
           a == about[req[r].c]
           v == [req[r] EXCEPT !.pc = "loadMethod", !.count = n, !.m = a]
<1>1. /\ req[r] \in Request /\ req[r].pc = "loadChallenge" /\ req[r].op = "verify"
      /\ req[r].c \in Challenges /\ UNCHANGED <<method, members, facts>> /\ Still
  BY Stills DEF LoadChallenge, TInv, TypeOK, Fits, Verifying, redis
<1>2. n \in Nat /\ a \in Methods /\ "loadMethod" \in PCs
  BY <1>1, Named, AttemptsAssumption DEF TInv, TypeOK, Undrawn
<1>3. \/ Answer(r)
      \/ Become(r, [req[r] EXCEPT !.pc = "dropLate"])
      \/ Become(r, v)
  BY DEF LoadChallenge
<1> HIDE DEF n, a
<1>4. /\ v \in Request /\ v.pc = "loadMethod" /\ v.op = req[r].op /\ v.c = req[r].c /\ v.m = a
      /\ Keeps(v, req[r])
  BY <1>1, <1>2 DEF Request, Keeps
<1> HIDE DEF v
<1>5. CASE Answer(r)
  BY <1>1, <1>5, Answers
<1>6. CASE Become(r, [req[r] EXCEPT !.pc = "dropLate"])
  BY <1>1, <1>6, GoesStraight, Named DEF Onward
<1>7. CASE Become(r, v)
  <2>1. Only(r) /\ req'[r] = v
    BY <1>4, <1>7, Becoming DEF TInv
  <2> QED BY <1>1, <1>4, <2>1 DEF Chooses, a
<1> QED BY <1>3, <1>5, <1>6, <1>7

LEMMA DoesChallengeStore ==
    ASSUME TInv, NEW r \in Requests, ChallengeStore(r)
    PROVE  Ended(r) \/ Opens(r)
<1>1. CASE Throw(r)
  BY <1>1, Throws DEF ChallengeStore
<1>2. CASE ~ Throw(r)
  BY <1>2, Answering DEF TInv, ChallengeStore, Opens
<1> QED BY <1>1, <1>2

LEMMA DoesConfirmStore ==
    ASSUME TInv, NEW r \in Requests, ConfirmStore(r)
    PROVE  Ended(r) \/ Confirms(r)
<1> DEFINE q == req[r]
           b == q.copy.primary \/ Listed(q) = {}
           x == [stored |-> TRUE, enabled |-> TRUE, primary |-> b]
           v == [q EXCEPT !.pc = "confirmAdd", !.copy = Absent, !.found = Idle.found]
<1>1. q \in Request /\ q.pc = "confirmStore" /\ q.m \in Methods
  BY DEF ConfirmStore, TInv, TypeOK, Fits
<1>2. /\ v \in Request /\ v.pc = "confirmAdd" /\ Kin(v, q) /\ v.copy = Absent
      /\ v.found = [m \in Methods |-> Absent] /\ v.todo = q.todo
  BY <1>1, IdleFields, Named DEF Request, Kin
<1>3. \/ /\ method' = [method EXCEPT ![q.m] = x] /\ Become(r, v)
         /\ UNCHANGED <<members, setupCode, challenge, rate, facts, told>>
      \/ Throw(r)
  BY DEF ConfirmStore
<1>4. b \in BOOLEAN
  OBVIOUS
<1>5. (b <=> q.copy.primary \/ Listed(q) = {})
  OBVIOUS
<1> HIDE DEF b
<1>6. x \in Value /\ x.stored = TRUE /\ x.enabled = TRUE /\ x.primary = b
  BY <1>4 DEF Value
<1> HIDE DEF v, x
<1>7. CASE Throw(r)
  BY <1>1, <1>7, Throws
<1>8. CASE ~ Throw(r)
  <2>1. Only(r) /\ req'[r] = v
    BY <1>2, <1>3, <1>8, Becoming DEF TInv
  <2>2. Writes(r, x)
    BY <1>3, <1>6, <1>8 DEF TInv, TypeOK, Writes, facts
  <2>3. Proven(q, x)
    BY <1>5, <1>6 DEF Proven
  <2> QED BY <1>1, <1>2, <1>6, <2>1, <2>2, <2>3 DEF Confirms
<1> QED BY <1>7, <1>8

LEMMA DoesConfirmAdd ==
    ASSUME TInv, NEW r \in Requests, ConfirmAdd(r)
    PROVE  Adds(r)
<1> DEFINE v == [req[r] EXCEPT !.pc = "confirmClean"]
           w == [req[r] EXCEPT !.pc = "confirmClean", !.swallowed = TRUE]
<1>1. req[r] \in Request /\ req[r].pc = "confirmAdd"
  BY DEF ConfirmAdd, TInv, TypeOK
<1>2. /\ v \in Request /\ v.pc = "confirmClean" /\ Kin(v, req[r]) /\ Keeps(v, req[r])
      /\ w \in Request /\ w.pc = "confirmClean" /\ Kin(w, req[r]) /\ Keeps(w, req[r])
      /\ w.swallowed = TRUE
  BY <1>1, Named DEF Request, Kin, Keeps
<1>3. /\ \/ Become(r, v) /\ members' = members \cup {req[r].m}
         \/ Become(r, w) /\ members' = members
      /\ UNCHANGED <<method, kind, about>>
  BY DEF ConfirmAdd, facts
<1> HIDE DEF v, w
<1>4. /\ Only(r)
      /\ \/ req'[r] = v /\ members' = members \cup {req[r].m}
         \/ req'[r] = w /\ members' = members
  BY <1>2, <1>3, Becoming DEF TInv
<1> QED BY <1>1, <1>2, <1>3, <1>4 DEF Adds

LEMMA DoesDelete ==
    ASSUME TInv, NEW r \in Requests, Delete(r)
    PROVE  Ended(r) \/ Erases(r)
<1>1. CASE Throw(r)
  BY <1>1, Throws DEF Delete
<1>2. CASE ~ Throw(r)
  <2>1. /\ method' = [method EXCEPT ![req[r].m] = Absent]
        /\ Become(r, [req[r] EXCEPT !.pc = "unlist"])
        /\ UNCHANGED <<members, setupCode, challenge, rate, facts, told>>
    BY <1>2 DEF Delete
  <2>2. Only(r) /\ Kin(req'[r], req[r]) /\ Keeps(req'[r], req[r]) /\ req'[r].pc = "unlist"
    BY <2>1, GoesStraight, Named
  <2>3. Writes(r, Absent)
    BY <2>1 DEF TInv, TypeOK, Writes, facts
  <2> QED BY <2>2, <2>3 DEF Erases, Delete
<1> QED BY <1>1, <1>2

LEMMA DoesUnlist ==
    ASSUME TInv, NEW r \in Requests, Unlist(r)
    PROVE  Strikes(r)
<1> DEFINE q == req[r]
           v(t) == [q EXCEPT !.pc = "members", !.target = t]
<1>1. q \in Request /\ q.pc = "unlist"
  BY DEF Unlist, TInv, TypeOK
<1>2. /\ members' \in {members, members \ {q.m}}
      /\ Answer(r) \/ \E t \in Usable(q) : Become(r, v(t))
      /\ UNCHANGED <<method, setupCode, challenge, rate, facts, wrong, wins, started>>
  BY DEF Unlist
<1>3. \A t \in Usable(q) : t \in Methods /\ t # None
  BY NoneAssumption DEF Usable, Listed
<1>4. \A t \in Methods : /\ v(t) \in Request /\ v(t).pc = "members" /\ v(t).target = t
                         /\ v(t).op = q.op /\ Keeps(v(t), q)
  BY <1>1, Named DEF Request, Keeps
<1> HIDE DEF v
<1>5. CASE Answer(r)
  BY <1>1, <1>2, <1>5, Answering DEF TInv, Strikes, facts
<1>6. CASE \E t \in Usable(q) : Become(r, v(t))
  <2>1. PICK t \in Usable(q) : Become(r, v(t))
    BY <1>6
  <2>2. Only(r) /\ req'[r] = v(t)
    BY <1>3, <1>4, <2>1, Becoming DEF TInv
  <2> QED BY <1>1, <1>2, <1>3, <1>4, <2>2 DEF Strikes, facts
<1> QED BY <1>2, <1>5, <1>6

LEMMA DoesRewrite ==
    ASSUME TInv, NEW r \in Requests, Rewrite(r)
    PROVE  Ended(r) \/ Ranking(r)
<1>1. CASE Throw(r)
  BY <1>1, Throws DEF Rewrite
<1>2. CASE ~ Throw(r)
  <2>1. PICK m \in req[r].pend :
          /\ req[r].found[m].primary \/ \A n \in req[r].pend : ~ req[r].found[n].primary
          /\ method' = [method EXCEPT ![m] = [req[r].found[m] EXCEPT !.primary = (m = req[r].target)]]
          /\ IF req[r].pend \ {m} = {} THEN Answer(r)
             ELSE Become(r, [req[r] EXCEPT !.pend = req[r].pend \ {m}])
          /\ UNCHANGED <<members, setupCode, challenge, rate, facts, told>>
    BY <1>2 DEF Rewrite
  <2> DEFINE b == (m = req[r].target)
             x == [req[r].found[m] EXCEPT !.primary = b]
             v == [req[r] EXCEPT !.pend = req[r].pend \ {m}]
  <2>2. req[r] \in Request /\ req[r].pc = "rewrite"
    BY DEF Rewrite, TInv, TypeOK
  <2>3. m \in Methods /\ req[r].found[m] \in Value
    BY <2>2 DEF Request
  <2>4. b \in BOOLEAN /\ (b <=> m = req[r].target)
    OBVIOUS
  <2>5. method' = [method EXCEPT ![m] = x] /\ (Answer(r) \/ Become(r, v))
    BY <2>1
  <2>6. /\ v \in Request /\ Kin(v, req[r]) /\ v.pc = "rewrite" /\ v.pend = req[r].pend \ {m}
        /\ v.copy = req[r].copy /\ v.found = req[r].found /\ v.todo = req[r].todo
    BY <2>2 DEF Request, Kin
  <2> HIDE DEF b, v
  <2>7. /\ x \in Value /\ x.stored = req[r].found[m].stored
        /\ x.enabled = req[r].found[m].enabled /\ x.primary = b
    BY <2>3, <2>4 DEF Value
  <2> HIDE DEF x
  <2>8. \A n \in Methods : method'[n] = IF n = m THEN x ELSE method[n]
    BY <2>5, <2>7 DEF TInv, TypeOK
  <2>9. Only(r) /\ (req'[r] = Idle \/ req'[r] = v)
    BY <2>5, <2>6, Answering, Becoming DEF TInv
  <2>10. UNCHANGED <<members, kind, about>>
    BY <2>1 DEF facts
  <2>11. Ranking(r)
    BY <2>1, <2>2, <2>4, <2>6, <2>7, <2>8, <2>9, <2>10 DEF Ranking
  <2> QED BY <2>11
<1> QED BY <1>1, <1>2

LEMMA DoesTouch ==
    ASSUME TInv, NEW r \in Requests, Touch(r)
    PROVE  Ended(r) \/ Uses(r)
<1>1. CASE Throw(r)
  BY <1>1, Throws DEF Touch
<1>2. CASE ~ Throw(r)
  <2> DEFINE v == [req[r] EXCEPT !.pc = "trust", !.copy = Absent]
  <2>1. /\ method' = [method EXCEPT ![req[r].m] = req[r].copy] /\ Become(r, v)
        /\ UNCHANGED <<members, setupCode, challenge, rate, facts, told>>
    BY <1>2 DEF Touch
  <2>2. req[r] \in Request /\ req[r].pc = "touch"
    BY DEF Touch, TInv, TypeOK
  <2>3. /\ v \in Request /\ v.pc = "trust" /\ Kin(v, req[r]) /\ v.copy = Absent
        /\ v.found = req[r].found /\ v.todo = req[r].todo
    BY <2>2, IdleFields, Named DEF Request, Kin
  <2> HIDE DEF v
  <2>4. Only(r) /\ req'[r] = v
    BY <2>1, <2>3, Becoming DEF TInv
  <2>5. Writes(r, req[r].copy)
    BY <2>1 DEF TInv, TypeOK, Writes, facts
  <2> QED BY <2>2, <2>3, <2>4, <2>5 DEF Uses
<1> QED BY <1>1, <1>2

\* What becomes of a request that has t to read and has found f.
LEMMA OutcomeAfter ==
    ASSUME NEW p \in Request, NEW v \in AfterList(p), p.todo = {}
    PROVE  v \in Request /\ Outcome(v, p, p.todo, p.found)
<1> DEFINE w == [p EXCEPT !.pc = "rewrite", !.pend = Listed(p)]
           s == [p EXCEPT !.pc = "confirmStore"]
           d == [p EXCEPT !.pc = "delete"]
           e(m) == [p EXCEPT !.pc = "rateRead", !.m = m, !.found = Idle.found]
<1>1. CASE v = Idle
  BY <1>1, IdleFields DEF Outcome
<1>2. CASE v # Idle
  <2>1. \/ v = w /\ p.target # None /\ Listed(p) # {}
        \/ p.op = "confirm" /\ p.target = None /\ v = s
        \/ p.op = "remove" /\ p.target = None /\ v = d /\ Usable(p) \ {p.m} # {}
        \/ p.op \notin {"confirm", "remove"} /\ p.target = None /\ \E m \in Usable(p) : v = e(m)
    BY <1>2 DEF AfterList
  <2>2. /\ Listed(p) = {m \in Methods : p.found[m].stored}
        /\ \A m \in Usable(p) : m \in Methods /\ p.found[m].stored /\ p.found[m].enabled
    BY DEF Listed, Usable
  <2>3. w \in Request /\ w.pc = "rewrite" /\ w.pend = Listed(p) /\ Kin(w, p) /\ w.copy = p.copy
        /\ w.found = p.found /\ w.todo = p.todo
    BY <2>2, Named DEF Request, Kin
  <2>4. /\ s \in Request /\ s.pc = "confirmStore" /\ Kin(s, p) /\ Keeps(s, p)
        /\ d \in Request /\ d.pc = "delete" /\ Kin(d, p) /\ Keeps(d, p)
    BY Named DEF Request, Kin, Keeps
  <2>5. \A m \in Methods : /\ e(m) \in Request /\ e(m).pc = "rateRead" /\ e(m).op = p.op
                           /\ e(m).target = p.target /\ e(m).m = m /\ e(m).copy = p.copy
                           /\ e(m).todo = p.todo /\ e(m).found = [n \in Methods |-> Absent]
    BY IdleFields, Named DEF Request
  <2> HIDE DEF w, s, d, e
  <2>6. CASE v = w /\ p.target # None /\ Listed(p) # {}
    BY <2>2, <2>3, <2>6 DEF Outcome
  <2>7. CASE p.op = "confirm" /\ p.target = None /\ v = s
    BY <2>4, <2>7 DEF Outcome, Keeps
  <2>8. CASE p.op = "remove" /\ p.target = None /\ v = d /\ Usable(p) \ {p.m} # {}
    BY <2>2, <2>4, <2>8 DEF Outcome, Keeps
  <2>9. CASE p.op \notin {"confirm", "remove"} /\ p.target = None /\ \E m \in Usable(p) : v = e(m)
    BY <2>2, <2>5, <2>9 DEF Outcome
  <2> QED BY <2>1, <2>6, <2>7, <2>8, <2>9
<1> QED BY <1>1, <1>2

LEMMA OutcomeOn ==
    ASSUME NEW p \in Request, NEW v \in ReadOn(p)
    PROVE  v \in Request /\ Outcome(v, p, p.todo, p.found)
<1> DEFINE w == [p EXCEPT !.pc = "read"]
<1>1. w \in Request /\ w.pc = "read" /\ Kin(w, p) /\ Keeps(w, p)
  BY Named DEF Request, Kin, Keeps
<1>2. (p.todo = {} /\ v \in AfterList(p)) \/ (p.todo # {} /\ v = w)
  BY DEF ReadOn
<1> HIDE DEF w
<1>3. CASE p.todo = {} /\ v \in AfterList(p)
  BY <1>3, OutcomeAfter
<1>4. CASE p.todo # {} /\ v = w
  BY <1>1, <1>4 DEF Outcome, Keeps
<1> QED BY <1>2, <1>3, <1>4

LEMMA OutcomeKin ==
    ASSUME NEW v, NEW p, NEW q, NEW t, NEW f, Outcome(v, p, t, f), Kin(p, q), p.copy = q.copy
    PROVE  Outcome(v, q, t, f)
BY DEF Outcome, Kin

LEMMA OutcomeSwallows ==
    ASSUME NEW p \in Request, NEW v \in ReadOn(p)
    PROVE  v = Idle \/ v.swallowed = p.swallowed
<1> DEFINE w == [p EXCEPT !.pc = "rewrite", !.pend = Listed(p)]
           s == [p EXCEPT !.pc = "confirmStore"]
           d == [p EXCEPT !.pc = "delete"]
           e(m) == [p EXCEPT !.pc = "rateRead", !.m = m, !.found = Idle.found]
           o == [p EXCEPT !.pc = "read"]
<1>1. v \in {Idle, w, s, d, o} \/ \E m \in Usable(p) : v = e(m)
  BY DEF ReadOn, AfterList
<1>2. /\ w.swallowed = p.swallowed /\ s.swallowed = p.swallowed /\ d.swallowed = p.swallowed
      /\ o.swallowed = p.swallowed /\ \A m : e(m).swallowed = p.swallowed
  BY DEF Request
<1> HIDE DEF w, s, d, e, o
<1> QED BY <1>1, <1>2

LEMMA DoesMembers ==
    ASSUME TInv, NEW r \in Requests, Members(r)
    PROVE  Begins(r)
<1>1. PICK ids \in {members, {}} :
          \E q \in ReadOn([req[r] EXCEPT !.todo = ids, !.found = Idle.found,
                                         !.swallowed = @ \/ ids # members]) : Become(r, q)
  BY DEF Members
<1> DEFINE b == req[r].swallowed \/ ids # members
           p == [req[r] EXCEPT !.todo = ids, !.found = Idle.found, !.swallowed = b]
<1>2. req[r] \in Request /\ ids \subseteq Methods
  BY DEF TInv, TypeOK
<1>3. b \in BOOLEAN /\ (ids # members => b)
  OBVIOUS
<1>4. PICK q \in ReadOn(p) : Become(r, q)
  BY <1>1
<1> HIDE DEF b
<1>5. /\ p \in Request /\ Kin(p, req[r]) /\ p.copy = req[r].copy /\ p.todo = ids
      /\ p.found = [m \in Methods |-> Absent] /\ p.swallowed = b
  BY <1>2, <1>3, IdleFields DEF Request, Kin
<1> HIDE DEF p
<1>6. q \in Request /\ Outcome(q, p, ids, [m \in Methods |-> Absent])
  BY <1>4, <1>5, OutcomeOn
<1>7. Only(r) /\ req'[r] = q
  BY <1>4, <1>6, Becoming DEF TInv
<1>8. Outcome(q, req[r], ids, [m \in Methods |-> Absent])
  BY <1>5, <1>6, OutcomeKin
<1>9. ids = members \/ q.swallowed \/ q = Idle
  BY <1>3, <1>4, <1>5, OutcomeSwallows
<1>10. req[r].pc = "members" /\ Still
  BY Stills DEF Members
<1> QED BY <1>7, <1>8, <1>9, <1>10 DEF Begins

LEMMA DoesRead ==
    ASSUME TInv, NEW r \in Requests, Read(r)
    PROVE  Ended(r) \/ Reads(r)
<1>1. CASE Throw(r)
  BY <1>1, Throws DEF Read
<1>2. CASE ~ Throw(r)
  <2>1. PICK n \in req[r].todo :
            \E q \in ReadOn([req[r] EXCEPT !.todo = @ \ {n}, !.found[n] = method[n]]) :
               Become(r, q)
    BY <1>2 DEF Read
  <2> DEFINE f == [req[r].found EXCEPT ![n] = method[n]]
             t == req[r].todo \ {n}
             p == [req[r] EXCEPT !.todo = t, !.found = f]
  <2>2. req[r] \in Request /\ n \in Methods /\ method[n] \in Value
    BY DEF TInv, TypeOK, Request
  <2>3. f \in [Methods -> Value] /\ t \in SUBSET Methods
    BY <2>2 DEF Request
  <2>4. PICK q \in ReadOn(p) : Become(r, q)
    BY <2>1
  <2> HIDE DEF f, t
  <2>5. /\ p \in Request /\ Kin(p, req[r]) /\ p.copy = req[r].copy /\ p.found = f /\ p.todo = t
    BY <2>2, <2>3 DEF Request, Kin
  <2> HIDE DEF p
  <2>6. q \in Request /\ Outcome(q, p, t, f)
    BY <2>4, <2>5, OutcomeOn
  <2>7. Only(r) /\ req'[r] = q
    BY <2>4, <2>6, Becoming DEF TInv
  <2>8. Outcome(q, req[r], t, f)
    BY <2>5, <2>6, OutcomeKin
  <2>9. req[r].pc = "read" /\ Still
    BY <1>2, Stills DEF Read
  <2> QED BY <2>7, <2>8, <2>9 DEF Reads, f, t
<1> QED BY <1>1, <1>2

LEMMA DoesAdvance ==
    ASSUME TInv, Undrawn, NEW r \in Requests, Arrive(r) \/ Advance(r)
    PROVE  Does(r)
<1>1. CASE Arrive(r)
  BY <1>1, DoesArrive DEF Does
<1>2. CASE SetupStore(r) \/ SetupCode(r) \/ ConfirmRead(r) \/ ConfirmCode(r)
  BY <1>2, DoesSetupStore, DoesEnd, DoesConfirmRead, DoesOnward DEF Does
<1>3. CASE Members(r) \/ Read(r) \/ ConfirmStore(r) \/ ConfirmAdd(r) \/ ConfirmClean(r)
  BY <1>3, DoesMembers, DoesRead, DoesConfirmStore, DoesConfirmAdd, DoesEnd DEF Does
<1>4. CASE RemoveRead(r) \/ Delete(r) \/ Unlist(r) \/ Rewrite(r)
  BY <1>4, DoesRemoveRead, DoesDelete, DoesUnlist, DoesRewrite DEF Does
<1>5. CASE RateRead(r) \/ RateWrite(r) \/ ChallengeStore(r)
  BY <1>5, DoesOnward, DoesChallengeStore DEF Does
<1>6. CASE LoadChallenge(r) \/ DropLate(r) \/ LoadMethod(r)
  BY <1>6, DoesLoadChallenge, DoesEnd, DoesLoadMethod DEF Does
<1>7. CASE Drop(r) \/ Touch(r) \/ Trust(r) \/ Charge(r)
  BY <1>7, DoesOnward, DoesTouch, DoesEnd DEF Does
<1> QED BY <1>1, <1>2, <1>3, <1>4, <1>5, <1>6, <1>7 DEF Advance

LEMMA DoesTime ==
    ASSUME TInv, Time
    PROVE  Lapsing
<1>1. CASE \E m \in Methods : MethodLapses(m)
  BY <1>1 DEF MethodLapses, Lapsing, facts, TInv, TypeOK
<1>2. CASE \E m \in Methods : SetupCodeLapses(m)
  BY <1>2 DEF SetupCodeLapses, Lapsing, facts
<1>3. CASE \E c \in Challenges : Deadline(c)
  BY <1>3 DEF Deadline, Lapsing
<1>4. CASE \E c \in Challenges : ChallengeLapses(c)
  BY <1>4 DEF ChallengeLapses, Lapsing, facts
<1>5. CASE RateLapses
  BY <1>5 DEF RateLapses, Lapsing, facts
<1> QED BY <1>1, <1>2, <1>3, <1>4, <1>5 DEF Time

\* A step is one of a request, or time passes.
LEMMA DoesNext ==
    ASSUME TInv, Undrawn, Next
    PROVE  (\E r \in Requests : Does(r)) \/ Lapsing
BY DoesAdvance, DoesTime DEF Next

-----------------------------------------------------------------------------
(* What was confirmed stays enabled.                                       *)

\* What request r has from the list, it had, or it was told of just now.
Learns(r) ==
    /\ Only(r) /\ Carries(req[r])'
    /\ \A m \in Methods :
          /\ m \in req'[r].todo => m \in req[r].todo \/ m \in members
          /\ \/ req'[r].found[m] \in {Absent, req[r].found[m]}
             \/ m \in req[r].todo /\ req'[r].found[m] = method[m]
          /\ req'[r].pc \in Chosen /\ req'[r].m = m =>
                \/ req[r].pc \in Chosen /\ req[r].m = m
                \/ req[r].found[m].stored \/ m \in req[r].todo
    /\ req'[r].copy \in {Absent, req[r].copy} \/ \E m \in Methods : req'[r].copy = method[m]
    /\ Copied(req'[r]) =>
          \/ Copied(req[r]) /\ req'[r].copy = req[r].copy /\ req'[r].m = req[r].m
          \/ req'[r].copy = method[req'[r].m] /\ method[req'[r].m].stored
    /\ req'[r].pc = "confirmAdd" =>
          /\ kind[req'[r].m] # None /\ Enabled(method'[req'[r].m])
          /\ \A n \in Methods : ~ req'[r].found[n].stored

\* What it leaves in the stores.
Settles(r) ==
    /\ \A c \in Challenges :
          /\ about[c] # None => about'[c] = about[c]
          /\ about'[c] = about[c] \/ (req[r].pc \in Chosen /\ about'[c] = req[r].m)
    /\ \A m \in Methods :
          /\ kind[m] # None => kind'[m] # None
          /\ m \in members' => m \in members \/ (req[r].pc = "confirmAdd" /\ req[r].m = m)
          /\ m \in members => m \in members' \/ (req[r].pc = "unlist" /\ req[r].m = m)
          /\ \/ method'[m] = method[m] \/ Enabled(method'[m])
             \/ method'[m] = Absent /\ req[r].pc = "delete" /\ req[r].m = m
             \/ kind[m] = None /\ ~ method'[m].primary

LEMMA StillSettles ==
    ASSUME NEW r \in Requests, Still
    PROVE  Settles(r)
BY DEF Still, Settles

LEMMA IdleLearns ==
    ASSUME NEW r \in Requests, Only(r), req'[r] = Idle
    PROVE  Learns(r)
<1>1. Idle.op \notin {"verify", "confirm"}
  BY IdleFields, NoneAssumption DEF Ops
<1> QED BY <1>1, IdleFields DEF Learns, Carries, Copied, Chosen

\* A request that keeps what it has.
LEMMA KeepingLearns ==
    ASSUME TInv, NEW r \in Requests, Only(r), Carries(req[r])',
           req'[r].found = req[r].found, req'[r].todo = req[r].todo,
           req'[r].copy \in {Absent, req[r].copy} \/ \E m \in Methods : req'[r].copy = method[m],
           req'[r].pc # "confirmAdd",
           req'[r].pc \in Chosen => req[r].pc \in Chosen /\ req'[r].m = req[r].m,
           Copied(req'[r]) =>
              \/ Copied(req[r]) /\ req'[r].copy = req[r].copy /\ req'[r].m = req[r].m
              \/ req'[r].copy = method[req'[r].m] /\ method[req'[r].m].stored
    PROVE  Learns(r)
BY DEF Learns

\* The pending methods and the target, as far as Carries looks.
LEMMA CarriesOn ==
    ASSUME Still, NEW v, NEW q, Carries(q), Kin(v, q),
           v.op = "verify" /\ v.pc \in {"loadMethod", "drop", "touch"} =>
              q.pc \in {"loadMethod", "drop", "touch"},
           v.pc \notin {"rewrite", "delete", "unlist"}
    PROVE  Carries(v)'
BY DEF Carries, Kin, Still

LEMMA LearnsOutcome ==
    ASSUME TInv, ConfirmedInv, NEW r \in Requests, Only(r), Still,
           req[r].pc \in {"members", "read"}, NEW t, NEW f, Outcome(req'[r], req[r], t, f),
           \A m \in Methods : m \in t => m \in req[r].todo \/ m \in members,
           \A m \in Methods : \/ f[m] \in {Absent, req[r].found[m]}
                              \/ m \in req[r].todo /\ f[m] = method[m]
    PROVE  Learns(r)
<1>1. CASE req'[r] = Idle
  BY <1>1, IdleLearns
<1>2. CASE /\ Kin(req'[r], req[r]) /\ req'[r].copy = req[r].copy /\ req'[r].found = f /\ req'[r].todo = t
           /\ \/ req'[r].pc = "read" /\ t # {}
              \/ /\ req'[r].pc = "rewrite" /\ t = {} /\ req[r].target # None
                 /\ req'[r].pend = {m \in Methods : f[m].stored} /\ req'[r].pend # {}
              \/ req'[r].pc = "confirmStore" /\ t = {} /\ req[r].target = None /\ req[r].op = "confirm"
              \/ /\ req'[r].pc = "delete" /\ t = {} /\ req[r].target = None /\ req[r].op = "remove"
                 /\ \E m \in Methods \ {req[r].m} : f[m].stored /\ f[m].enabled
  <2>1. Carries(req[r]) /\ Fits(req[r])
    BY DEF ConfirmedInv, TInv
  <2>2. req'[r].op # "verify"
    BY <1>2, <2>1 DEF Kin, Fits, Verifying, Judged, Accepted
  <2>3. Carries(req[r])'
    BY <1>2, <2>1, <2>2 DEF Carries, Kin, Still
  <2> QED BY <1>2, <2>2, <2>3 DEF Learns, Copied, Chosen
<1>3. CASE /\ req'[r].pc = "rateRead" /\ req'[r].op = req[r].op /\ req[r].op \notin {"confirm", "remove"}
           /\ req'[r].target = None /\ req'[r].copy = req[r].copy /\ req'[r].todo = {}
           /\ req'[r].found = [m \in Methods |-> Absent]
           /\ req'[r].m \in Methods /\ f[req'[r].m].stored
  <2>1. Carries(req[r])'
    BY <1>3 DEF Carries
  <2>2. \A m \in Methods : ~ req'[r].found[m].stored
    BY <1>3, IdleFields
  <2> QED BY <1>3, <2>1, <2>2 DEF Learns, Copied, Chosen
<1> QED BY <1>1, <1>2, <1>3 DEF Outcome

LEMMA LearnsListing ==
    ASSUME TInv, ConfirmedInv, NEW r \in Requests, Begins(r) \/ Reads(r)
    PROVE  Learns(r) /\ Settles(r)
<1>1. CASE Begins(r)
  <2>1. PICK t \in {members, {}} : Outcome(req'[r], req[r], t, [m \in Methods |-> Absent])
    BY <1>1 DEF Begins
  <2>2. \A m \in Methods : [n \in Methods |-> Absent][m] = Absent
    OBVIOUS
  <2>3. Learns(r)
    BY <1>1, <2>1, <2>2, LearnsOutcome DEF Begins
  <2> QED BY <1>1, <2>3, StillSettles DEF Begins
<1>2. CASE Reads(r)
  <2>1. PICK n \in req[r].todo :
            Outcome(req'[r], req[r], req[r].todo \ {n}, [req[r].found EXCEPT ![n] = method[n]])
    BY <1>2 DEF Reads
  <2> DEFINE f == [req[r].found EXCEPT ![n] = method[n]]
             t == req[r].todo \ {n}
  <2>2. \A m \in Methods : f[m] = req[r].found[m] \/ (m = n /\ f[m] = method[m])
    BY DEF TInv, TypeOK, Request
  <2>3. Outcome(req'[r], req[r], t, f) /\ \A m \in t : m \in req[r].todo
    BY <2>1
  <2> HIDE DEF f, t
  <2>4. Learns(r)
    BY <1>2, <2>2, <2>3, LearnsOutcome DEF Reads
  <2> QED BY <1>2, <2>4, StillSettles DEF Reads
<1> QED BY <1>1, <1>2

LEMMA LearnsQuiet ==
    ASSUME TInv, ConfirmedInv, NEW r \in Requests,
           Ended(r) \/ Arrives(r) \/ Onward(r) \/ Copying(r) \/ Chooses(r)
    PROVE  Learns(r) /\ Settles(r)
<1>1. Only(r) /\ Still
  BY DEF Ended, Arrives, Onward, Copying, Chooses
<1>2. Carries(req[r]) /\ Fits(req[r])
  BY DEF ConfirmedInv, TInv
<1>3. CASE Ended(r)
  BY <1>1, <1>3, IdleLearns, StillSettles DEF Ended
<1>4. CASE Arrives(r)
  <2>1. Carries(req[r])'
    BY <1>1, <1>4 DEF Arrives, Carries, Still
  <2>2. \A m \in Methods : ~ req'[r].found[m].stored
    BY <1>4, IdleFields DEF Arrives
  <2>3. req'[r].pc \notin Chosen \cup {"drop", "touch", "confirmAdd"}
    BY <1>4 DEF Arrives, Chosen
  <2>4. Learns(r)
    BY <1>1, <1>4, <2>1, <2>2, <2>3 DEF Learns, Arrives, Copied
  <2> QED BY <1>1, <2>4, StillSettles
<1>5. CASE Onward(r)
  <2>1. Carries(req[r])'
    BY <1>1, <1>2, <1>5, CarriesOn DEF Onward
  <2>2. Learns(r)
    BY <1>1, <1>2, <1>5, <2>1, KeepingLearns DEF Onward, Kin, Keeps, Copied, Chosen, Fits, Verifying, Judged
  <2> QED BY <1>1, <2>2, StillSettles
<1>6. CASE Copying(r)
  <2>1. Carries(req[r])'
    BY <1>1, <1>2, <1>6, CarriesOn DEF Copying, Kin
  <2>2. Learns(r)
    BY <1>1, <1>2, <1>6, <2>1, KeepingLearns DEF Copying, Kin, Copied, Chosen
  <2> QED BY <1>1, <2>2, StillSettles
<1>7. CASE Chooses(r)
  <2>1. Carries(req[r])'
    BY <1>1, <1>7 DEF Chooses, Carries, Still
  <2>2. Learns(r)
    BY <1>1, <1>7, <2>1, KeepingLearns DEF Chooses, Keeps, Copied, Chosen
  <2> QED BY <1>1, <2>2, StillSettles
<1> QED BY <1>3, <1>4, <1>5, <1>6, <1>7

LEMMA LearnsSetsUp ==
    ASSUME TInv, ConfirmedInv, NEW r \in Requests, SetsUp(r)
    PROVE  Learns(r) /\ Settles(r)
<1>1. Settles(r)
  BY DEF SetsUp, Settles
<1>2. CASE req'[r] = Idle
  BY <1>1, <1>2, IdleLearns DEF SetsUp
<1>3. CASE req'[r].pc = "setupCode" /\ req'[r].op = "setup" /\ Keeps(req'[r], req[r])
  <2>1. Carries(req[r])'
    BY <1>3 DEF Carries
  <2>2. Learns(r)
    BY <1>3, <2>1, KeepingLearns DEF SetsUp, Keeps, Copied, Chosen
  <2> QED BY <1>1, <2>2
<1> QED BY <1>2, <1>3 DEF SetsUp

LEMMA LearnsConfirms ==
    ASSUME TInv, ConfirmedInv, NEW r \in Requests, Confirms(r)
    PROVE  Learns(r) /\ Settles(r)
<1>1. Carries(req[r]) /\ Fits(req[r]) /\ req[r].op = "confirm" /\ req[r].m \in Methods
  BY DEF ConfirmedInv, TInv, Confirms, Fits
<1>2. PICK w \in Value : Proven(req[r], w) /\ Writes(r, w)
  BY DEF Confirms
<1>3. Settles(r)
  BY <1>2 DEF Settles, Writes, Proven, Enabled
<1>4. Carries(req[r])'
  BY <1>1, <1>2 DEF Carries, Confirms, Kin, Writes
<1>5. \A m \in Methods : ~ req'[r].found[m].stored
  BY IdleFields DEF Confirms
<1>6. kind[req'[r].m] # None /\ Enabled(method'[req'[r].m])
  BY <1>1, <1>2 DEF Confirms, Kin, Writes, Proven, Carries, Enabled
<1>7. Learns(r)
  BY <1>1, <1>4, <1>5, <1>6 DEF Learns, Confirms, Kin, Copied, Chosen
<1> QED BY <1>3, <1>7

LEMMA LearnsChanges ==
    ASSUME TInv, ConfirmedInv, NEW r \in Requests, Adds(r) \/ Erases(r) \/ Strikes(r) \/ Opens(r)
    PROVE  Learns(r) /\ Settles(r)
<1>1. Carries(req[r]) /\ Fits(req[r])
  BY DEF ConfirmedInv, TInv
<1>2. CASE Adds(r)
  <2>1. Carries(req[r])'
    BY <1>1, <1>2 DEF Carries, Adds, Kin
  <2>2. Learns(r)
    BY <1>2, <2>1, KeepingLearns DEF Adds, Kin, Keeps, Copied, Chosen
  <2>3. Settles(r)
    BY <1>2 DEF Adds, Settles
  <2> QED BY <2>2, <2>3
<1>3. CASE Erases(r)
  <2>1. Carries(req[r])'
    BY <1>1, <1>3 DEF Carries, Erases, Kin, Writes
  <2>2. Learns(r)
    BY <1>3, <2>1, KeepingLearns DEF Erases, Kin, Keeps, Copied, Chosen
  <2>3. Settles(r)
    BY <1>3, IdleFields DEF Erases, Settles, Writes
  <2> QED BY <2>2, <2>3
<1>4. CASE Strikes(r)
  <2>1. Settles(r)
    BY <1>4 DEF Strikes, Settles
  <2>2. CASE req'[r] = Idle
    BY <1>4, <2>1, <2>2, IdleLearns DEF Strikes
  <2>3. CASE req'[r] # Idle
    <3>1. req'[r].op = "remove" /\ req'[r].pc = "members"
      BY <1>1, <1>4, <2>3 DEF Strikes, Fits
    <3>2. Carries(req[r])'
      BY <3>1 DEF Carries
    <3>3. Learns(r)
      BY <1>4, <2>3, <3>1, <3>2, KeepingLearns DEF Strikes, Keeps, Copied, Chosen
    <3> QED BY <2>1, <3>3
  <2> QED BY <2>2, <2>3
<1>5. CASE Opens(r)
  <2>1. PICK c \in Challenges : about[c] = None /\ about' = [about EXCEPT ![c] = req[r].m]
    BY <1>5 DEF Opens
  <2>2. Settles(r)
    BY <1>5, <2>1 DEF Opens, Settles, Chosen, TInv, TypeOK
  <2> QED BY <1>5, <2>2, IdleLearns DEF Opens
<1> QED BY <1>2, <1>3, <1>4, <1>5

LEMMA LearnsRanking ==
    ASSUME TInv, ConfirmedInv, NEW r \in Requests, Ranking(r)
    PROVE  Learns(r) /\ Settles(r)
<1>1. Carries(req[r]) /\ req[r] \in Request /\ req[r].pc = "rewrite"
  BY DEF ConfirmedInv, TInv, TypeOK, Ranking
<1>2. PICK m \in req[r].pend :
        /\ \E w \in Value :
              /\ w.stored = req[r].found[m].stored /\ w.enabled = req[r].found[m].enabled
              /\ \A n \in Methods : method'[n] = IF n = m THEN w ELSE method[n]
        /\ \/ req'[r] = Idle
           \/ /\ Kin(req'[r], req[r]) /\ req'[r].pc = "rewrite" /\ req'[r].pend = req[r].pend \ {m}
              /\ req'[r].copy = req[r].copy /\ req'[r].found = req[r].found
              /\ req'[r].todo = req[r].todo
  BY DEF Ranking
<1>3. m \in Methods /\ req[r].found[m].stored
  BY <1>1, <1>2 DEF Request, Carries
<1>4. StaysEnabled(m)
  BY <1>3 DEF ConfirmedInv, Confirmed
<1>5. \A n \in Methods : method'[n] = method[n] \/ Enabled(method'[n])
  BY <1>2, <1>3, <1>4 DEF StaysEnabled, Enabled
<1>6. Settles(r)
  BY <1>5 DEF Settles, Ranking
<1>7. CASE req'[r] = Idle
  BY <1>6, <1>7, IdleLearns DEF Ranking
<1>8. CASE req'[r] # Idle
  <2>1. Carries(req[r])'
    BY <1>1, <1>2, <1>8 DEF Carries, Ranking, Kin
  <2>2. Learns(r)
    BY <1>2, <1>8, <2>1, KeepingLearns DEF Ranking, Kin, Copied, Chosen
  <2> QED BY <1>6, <2>2
<1> QED BY <1>7, <1>8

LEMMA LearnsUses ==
    ASSUME TInv, Undrawn, ConfirmedInv, NEW r \in Requests, Uses(r)
    PROVE  Learns(r) /\ Settles(r)
<1>1. Carries(req[r]) /\ Fits(req[r]) /\ req[r].pc = "touch"
  BY DEF ConfirmedInv, TInv, Uses
<1>2. /\ req[r].op = "verify" /\ req[r].c \in Challenges /\ req[r].m = about[req[r].c]
      /\ Copied(req[r])
  BY <1>1 DEF Fits, Verifying, Accepted, Carries, Copied
<1>3. req[r].m \in Methods
  BY <1>2 DEF Undrawn, TInv, TypeOK
<1>4. StaysEnabled(req[r].m)
  BY <1>2, <1>3 DEF ConfirmedInv, Confirmed
<1>5. Enabled(req[r].copy)
  BY <1>2, <1>4 DEF StaysEnabled
<1>6. Settles(r)
  BY <1>5 DEF Settles, Uses, Writes, Enabled
<1>7. Carries(req[r])'
  BY <1>1, <1>2 DEF Carries, Uses, Kin
<1>8. Learns(r)
  BY <1>7, KeepingLearns DEF Uses, Kin, Copied, Chosen
<1> QED BY <1>6, <1>8

LEMMA LearnsAlways ==
    ASSUME TInv, Undrawn, ConfirmedInv, NEW r \in Requests, Does(r)
    PROVE  Learns(r) /\ Settles(r)
BY LearnsQuiet, LearnsSetsUp, LearnsConfirms, LearnsChanges, LearnsRanking, LearnsUses,
   LearnsListing DEF Does

LEMMA ConfirmedBefore ==
    ASSUME NEW r \in Requests, Learns(r), Settles(r), NEW m \in Methods, Confirmed(m)'
    PROVE  Confirmed(m) \/ (req'[r].pc = "confirmAdd" /\ req'[r].m = m)
<1>1. CASE m \in members'
  BY <1>1 DEF Settles, Confirmed
<1>2. CASE \E c \in Challenges : about'[c] = m
  BY <1>2 DEF Settles, Confirmed
<1>3. CASE \E s \in Requests :
             \/ m \in req'[s].todo \/ req'[s].found[m].stored
             \/ req'[s].pc \in Chosen \cup {"confirmAdd"} /\ req'[s].m = m
  <2>1. PICK s \in Requests :
             \/ m \in req'[s].todo \/ req'[s].found[m].stored
             \/ req'[s].pc \in Chosen \cup {"confirmAdd"} /\ req'[s].m = m
    BY <1>3
  <2>2. CASE s # r
    <3>1. req'[s] = req[s]
      BY <2>2 DEF Learns, Only
    <3> QED BY <2>1, <3>1 DEF Confirmed
  <2>3. CASE s = r
    <3>1. CASE m \in req'[r].todo \/ req'[r].found[m].stored
      BY <3>1, IdleFields DEF Learns, Confirmed
    <3>2. CASE req'[r].pc \in Chosen /\ req'[r].m = m
      BY <3>2 DEF Learns, Confirmed
    <3> QED BY <2>1, <2>3, <3>1, <3>2
  <2> QED BY <2>2, <2>3
<1> QED BY <1>1, <1>2, <1>3 DEF Confirmed

LEMMA CarriesNext ==
    ASSUME TInv, Undrawn, ConfirmedInv, NEW r \in Requests, Learns(r), Settles(r)
    PROVE  \A s \in Requests : Carries(req[s])'
<1> SUFFICES ASSUME NEW s \in Requests, s # r PROVE Carries(req[s])'
  BY DEF Learns
<1>1. req'[s] = req[s] /\ Carries(req[s]) /\ Fits(req[s])
  BY DEF Learns, Only, ConfirmedInv, TInv
<1>2. req[s].op = "verify" => req[s].c \in Challenges /\ about'[req[s].c] = about[req[s].c]
  BY <1>1 DEF Fits, Undrawn, Settles
<1>3. req[s].op = "confirm" => kind'[req[s].m] # None
  BY <1>1 DEF Fits, Carries, Settles
<1> QED BY <1>1, <1>2, <1>3 DEF Carries

LEMMA ConfirmedNext ==
    ASSUME TInv, Undrawn, ConfirmedInv, NEW r \in Requests, Learns(r), Settles(r)
    PROVE  ConfirmedInv'
<1> SUFFICES ASSUME NEW m \in Methods, Confirmed(m)' PROVE StaysEnabled(m)'
  BY CarriesNext DEF ConfirmedInv
<1>1. \A s \in Requests \ {r} : req'[s] = req[s]
  BY DEF Learns, Only
<1>2. CASE Confirmed(m)
  <2>1. StaysEnabled(m)
    BY <1>2 DEF ConfirmedInv
  <2>2. kind'[m] # None /\ (method'[m].stored => method'[m].enabled)
    BY <2>1, IdleFields DEF StaysEnabled, Settles, Enabled
  <2>3. ASSUME NEW s \in Requests
        PROVE  /\ req'[s].found[m].stored => req'[s].found[m].enabled
               /\ Copied(req'[s]) /\ req'[s].m = m => Enabled(req'[s].copy)
    <3>1. CASE s # r
      BY <1>1, <2>1, <3>1 DEF StaysEnabled
    <3>2. CASE s = r
      BY <2>1, <3>2, IdleFields DEF StaysEnabled, Learns, Enabled
    <3> QED BY <3>1, <3>2
  <2> QED BY <2>2, <2>3 DEF StaysEnabled
<1>3. CASE ~ Confirmed(m)
  <2>1. req'[r].pc = "confirmAdd" /\ req'[r].m = m
    BY <1>3, ConfirmedBefore
  <2>2. kind'[m] # None /\ Enabled(method'[m])
    BY <2>1 DEF Learns, Settles
  <2>3. ASSUME NEW s \in Requests
        PROVE  /\ req'[s].found[m].stored => req'[s].found[m].enabled
               /\ Copied(req'[s]) /\ req'[s].m = m => Enabled(req'[s].copy)
    <3>1. CASE s # r
      <4>1. req'[s] = req[s] /\ ~ req[s].found[m].stored
        BY <1>1, <1>3, <3>1 DEF Confirmed
      <4>2. Copied(req[s]) => req[s].m = about[req[s].c] /\ req[s].c \in Challenges
        BY DEF Copied, ConfirmedInv, Carries, TInv, Fits
      <4> QED BY <1>3, <4>1, <4>2 DEF Confirmed
    <3>2. CASE s = r
      BY <2>1, <3>2 DEF Learns, Copied
    <3> QED BY <3>1, <3>2
  <2> QED BY <2>2, <2>3 DEF StaysEnabled, Enabled
<1> QED BY <1>2, <1>3

LEMMA ConfirmedLasts ==
    ASSUME ConfirmedInv, Lapsing
    PROVE  ConfirmedInv'
<1>1. \A r \in Requests : Carries(req[r])'
  BY DEF ConfirmedInv, Lapsing, Carries
<1>2. ASSUME NEW m \in Methods, Confirmed(m)' PROVE StaysEnabled(m)'
  <2>1. Confirmed(m)
    BY <1>2 DEF Lapsing, Confirmed
  <2>2. StaysEnabled(m)
    BY <2>1 DEF ConfirmedInv
  <2>3. method'[m] = method[m] \/ method'[m] = Absent
    BY DEF Lapsing
  <2> QED BY <2>2, <2>3, IdleFields DEF Lapsing, StaysEnabled
<1> QED BY <1>1, <1>2 DEF ConfirmedInv

-----------------------------------------------------------------------------
(* Only what is enabled is primary.                                        *)

LEMMA PlainNext ==
    ASSUME PlainInv, NEW r \in Requests, Learns(r), Settles(r)
    PROVE  PlainInv'
<1>1. Plain(Absent)
  BY DEF Plain, Absent
<1>2. \A m \in Methods : Plain(method'[m])
  BY <1>1 DEF PlainInv, Settles, Plain
<1>3. ASSUME NEW s \in Requests
      PROVE  Plain(req'[s].copy) /\ \A m \in Methods : Plain(req'[s].found[m])
  <2>1. CASE s # r
    BY <2>1 DEF PlainInv, Learns, Only
  <2>2. CASE s = r
    BY <1>1, <2>2 DEF PlainInv, Learns
  <2> QED BY <2>1, <2>2
<1> QED BY <1>2, <1>3 DEF PlainInv

LEMMA PlainLasts ==
    ASSUME PlainInv, Lapsing
    PROVE  PlainInv'
<1>1. Plain(Absent)
  BY DEF Plain, Absent
<1>2. \A m \in Methods : method'[m] = method[m] \/ method'[m] = Absent
  BY DEF Lapsing
<1> QED BY <1>1, <1>2 DEF PlainInv, Lapsing

-----------------------------------------------------------------------------
(* A user who has a method keeps one.                                      *)

\* A method leaves the active ones by a removal alone.
LEMMA StaysActive ==
    ASSUME TInv, Undrawn, ConfirmedInv, NEW r \in Requests, Does(r), NEW n \in Active
    PROVE  n \in Active' \/ (req[r].pc \in {"delete", "unlist"} /\ req[r].m = n)
<1>1. n \in members /\ n \in Methods /\ method[n].stored /\ method[n].enabled
  BY DEF Active, TInv, TypeOK
<1>2. kind[n] # None
  BY <1>1 DEF ConfirmedInv, Confirmed, StaysEnabled
<1>3. Settles(r)
  BY LearnsAlways
<1>4. n \in members' \/ (req[r].pc = "unlist" /\ req[r].m = n)
  BY <1>1, <1>3 DEF Settles
<1>5. (method'[n].stored /\ method'[n].enabled) \/ (req[r].pc = "delete" /\ req[r].m = n)
  BY <1>1, <1>2, <1>3 DEF Settles, Enabled
<1> QED BY <1>4, <1>5 DEF Active

LEMMA ActiveLasts ==
    ASSUME Lapsing, NEW n \in Active, TInv
    PROVE  n \in Active'
<1>1. n \in members /\ n \in Methods /\ method[n].stored /\ method[n].enabled
  BY DEF Active, TInv, TypeOK
<1>2. method'[n] = method[n] /\ members' = members
  BY <1>1 DEF Lapsing
<1> QED BY <1>1, <1>2 DEF Active

\* Whoever is about to take a method out of the list has decided that.
LEMMA TakesOut ==
    ASSUME TInv, ConfirmedInv, NEW r \in Requests, req[r].pc \in {"delete", "unlist"}
    PROVE  Leaving(r)
BY DEF TInv, Fits, ConfirmedInv, Carries, Leaving

\* Unless removals overlap, request r spares what s has seen to remain.
LEMMA Spares ==
    ASSUME TInv, Undrawn, ConfirmedInv, ~ Crossed, NEW r \in Requests, Does(r),
           NEW s \in Requests, Leaving(s), NEW n \in Methods, n # req[s].m
    PROVE  /\ n \in members => n \in members'
           /\ n \in Active => n \in Active'
<1>1. req[r].pc \in {"delete", "unlist"} => req[r].m # n
  BY TakesOut DEF Crossed
<1>2. n \in members => n \in members'
  BY <1>1, LearnsAlways DEF Settles
<1>3. n \in Active => n \in Active'
  BY <1>1, StaysActive
<1> QED BY <1>2, <1>3

\* Where a removal that is deciding comes from.
LEMMA LeavesBy ==
    ASSUME TInv, NEW r \in Requests, Does(r), Leaving(r)'
    PROVE  Erases(r) \/ Begins(r) \/ Reads(r)
<1>1. /\ req'[r].op = "remove" /\ req'[r].target = None
      /\ req'[r].pc \in {"read", "delete", "unlist"}
  BY DEF Leaving
<1>2. req'[r] # Idle
  BY <1>1, IdleFields
<1>3. ~ Ended(r) /\ ~ Opens(r)
  BY <1>2 DEF Ended, Opens
<1>4. ~ Arrives(r) /\ ~ Onward(r) /\ ~ Copying(r) /\ ~ SetsUp(r)
  BY <1>1, <1>2 DEF Arrives, Onward, Copying, SetsUp
<1>5. ~ Confirms(r) /\ ~ Adds(r) /\ ~ Strikes(r)
  BY <1>1, <1>2 DEF Confirms, Adds, Strikes
<1>6. ~ Ranking(r) /\ ~ Chooses(r) /\ ~ Uses(r)
  BY <1>1, <1>2 DEF Ranking, Chooses, Uses
<1> QED BY <1>3, <1>4, <1>5, <1>6 DEF Does

\* What Outcome makes of a removal that is still deciding.
LEMMA LeavesWith ==
    ASSUME NEW q, NEW v, NEW t, NEW f, Outcome(v, q, t, f), v.op = "remove", v.target = None,
           v.pc \in {"read", "delete", "unlist"}
    PROVE  /\ q.op = "remove" /\ q.target = None /\ v.m = q.m /\ v.todo = t /\ v.found = f
           /\ \/ v.pc = "read"
              \/ v.pc = "delete" /\ \E m \in Methods \ {q.m} : f[m].stored /\ f[m].enabled
<1>1. v # Idle
  BY IdleFields
<1> QED BY <1>1 DEF Outcome, Kin

LEMMA RemainsMine ==
    ASSUME TInv, Undrawn, ConfirmedInv, ~ Crossed, NEW r \in Requests, Does(r), Leaving(r)',
           Leaving(r) => Remains(r)
    PROVE  Remains(r)'
<1>1. /\ req'[r].op = "remove" /\ req'[r].target = None
      /\ req'[r].pc \in {"read", "delete", "unlist"}
  BY DEF Leaving
<1>2. CASE Erases(r)
  <2>1. Leaving(r) /\ req[r].pc = "delete" /\ req'[r].m = req[r].m
    BY <1>2, TakesOut DEF Erases, Kin
  <2>2. Remains(r) /\ req'[r].todo = req[r].todo /\ req'[r].found = req[r].found
    BY <1>2, <2>1 DEF Erases, Keeps
  <2>3. /\ \A n \in req[r].todo \ {req[r].m} : n \in members
        /\ \A n \in Listed(req[r]) \ {req[r].m} : n \in Active
        /\ Usable(req[r]) \ {req[r].m} # {}
    BY <2>1, <2>2 DEF Remains
  <2>4. \A n \in Methods : n # req[r].m => (n \in members => n \in members') /\ (n \in Active => n \in Active')
    BY <2>1, Spares
  <2>5. req[r].todo \subseteq Methods /\ Listed(req[r]) \subseteq Methods
    BY DEF TInv, TypeOK, Request, Listed
  <2>6. Listed(req'[r]) = Listed(req[r]) /\ Usable(req'[r]) = Usable(req[r])
    BY <2>2 DEF Listed, Usable
  <2>7. Listed(req[r])' = Listed(req'[r]) /\ Usable(req[r])' = Usable(req'[r])
    BY DEF Listed, Usable
  <2> QED BY <2>1, <2>2, <2>3, <2>4, <2>5, <2>6, <2>7 DEF Remains
<1>3. CASE Begins(r)
  <2>1. PICK t \in {members, {}} : Outcome(req'[r], req[r], t, [m \in Methods |-> Absent])
    BY <1>3 DEF Begins
  <2>2. req'[r].todo = t /\ req'[r].found = [m \in Methods |-> Absent]
    BY <1>1, <2>1, LeavesWith
  <2>3. \A m \in Methods : ~ req'[r].found[m].stored
    BY <2>2, IdleFields
  <2>4. \A m \in Methods : ~ [n \in Methods |-> Absent][m].stored
    BY IdleFields
  <2>5. req'[r].pc = "read"
    BY <1>1, <2>1, <2>4, LeavesWith
  <2>6. Listed(req[r])' = {}
    BY <2>3 DEF Listed
  <2>7. members' = members
    BY <1>3 DEF Begins, Still
  <2> QED BY <2>2, <2>5, <2>6, <2>7 DEF Remains
<1>4. CASE Reads(r)
  <2>1. PICK k \in req[r].todo :
            Outcome(req'[r], req[r], req[r].todo \ {k}, [req[r].found EXCEPT ![k] = method[k]])
    BY <1>4 DEF Reads
  <2> DEFINE f == [req[r].found EXCEPT ![k] = method[k]]
             t == req[r].todo \ {k}
  <2>2. req[r] \in Request /\ req[r].pc = "read" /\ Still
    BY <1>4 DEF TInv, TypeOK, Reads
  <2>3. k \in Methods /\ \A m \in Methods : f[m] = IF m = k THEN method[k] ELSE req[r].found[m]
    BY <2>1, <2>2 DEF Request
  <2>4. Outcome(req'[r], req[r], t, f) /\ t \subseteq req[r].todo
    BY <2>1
  <2> HIDE DEF f, t
  <2>5. /\ req[r].op = "remove" /\ req[r].target = None /\ req'[r].m = req[r].m
        /\ req'[r].todo = t /\ req'[r].found = f
        /\ \/ req'[r].pc = "read"
           \/ req'[r].pc = "delete" /\ \E m \in Methods \ {req[r].m} : f[m].stored /\ f[m].enabled
    BY <1>1, <2>4, LeavesWith
  <2>6. Remains(r)
    BY <2>2, <2>5 DEF Leaving
  <2>7. members' = members /\ Active' = Active
    BY <2>2 DEF Still, Active
  <2>8. \A n \in t \ {req[r].m} : n \in members'
    BY <2>4, <2>6, <2>7 DEF Remains
  <2>9. ASSUME NEW n \in Methods, n # req[r].m, f[n].stored PROVE n \in Active'
    <3>1. CASE n = k
      <4>1. n \in members /\ method[n].stored
        BY <2>1, <2>3, <2>6, <2>9, <3>1 DEF Remains
      <4>2. StaysEnabled(n)
        BY <4>1 DEF ConfirmedInv, Confirmed
      <4> QED BY <2>7, <4>1, <4>2 DEF StaysEnabled, Active
    <3>2. CASE n # k
      BY <2>3, <2>6, <2>7, <2>9, <3>2 DEF Remains, Listed
    <3> QED BY <3>1, <3>2
  <2>10. /\ Listed(req[r])' = {n \in Methods : f[n].stored}
         /\ Usable(req[r])' = {n \in Methods : f[n].stored /\ f[n].enabled}
    BY <2>5 DEF Listed, Usable
  <2>11. \A n \in Listed(req[r])' \ {req'[r].m} : n \in Active'
    BY <2>5, <2>9, <2>10
  <2>12. req'[r].pc \in {"delete", "unlist"} => Usable(req[r])' \ {req'[r].m} # {}
    BY <2>5, <2>10
  <2> QED BY <2>5, <2>8, <2>11, <2>12 DEF Remains
<1> QED BY <1>2, <1>3, <1>4, LeavesBy

LEMMA RemainsOther ==
    ASSUME TInv, Undrawn, ConfirmedInv, ~ Crossed, NEW r \in Requests, Does(r),
           NEW s \in Requests, s # r, Leaving(s)', Leaving(s) => Remains(s)
    PROVE  Remains(s)'
<1>1. req'[s] = req[s]
  BY LearnsAlways DEF Learns, Only
<1>2. Leaving(s) /\ Remains(s)
  BY <1>1 DEF Leaving
<1>3. \A n \in Methods : n # req[s].m => (n \in members => n \in members') /\ (n \in Active => n \in Active')
  BY <1>2, Spares
<1>4. req[s].todo \subseteq Methods /\ Listed(req[s]) \subseteq Methods
  BY DEF TInv, TypeOK, Request, Listed
<1>5. Listed(req[s])' = Listed(req[s]) /\ Usable(req[s])' = Usable(req[s])
  BY <1>1 DEF Listed, Usable
<1> QED BY <1>1, <1>2, <1>3, <1>4, <1>5 DEF Remains

LEMMA LeavingNext ==
    ASSUME TInv, Undrawn, ConfirmedInv, LeavingInv, Next
    PROVE  LeavingInv'
<1>1. crossed' = (crossed \/ Crossed')
  BY DEF Next, History
<1>2. ASSUME ~ crossed', NEW s \in Requests, Leaving(s)' PROVE Remains(s)'
  <2>1. ~ crossed /\ ~ Crossed /\ (Leaving(s) => Remains(s))
    BY <1>1, <1>2 DEF LeavingInv
  <2>2. CASE Lapsing
    <3>1. req' = req /\ members' = members
      BY <2>2 DEF Lapsing
    <3>2. Remains(s)
      BY <1>2, <2>1, <3>1 DEF Leaving
    <3>3. \A n \in Active : n \in Active'
      BY <2>2, ActiveLasts
    <3>4. Listed(req[s])' = Listed(req[s]) /\ Usable(req[s])' = Usable(req[s])
      BY <3>1 DEF Listed, Usable
    <3> QED BY <3>1, <3>2, <3>3, <3>4 DEF Remains
  <2>3. CASE \E r \in Requests : Does(r)
    BY <1>2, <2>1, <2>3, RemainsMine, RemainsOther
  <2> QED BY <2>2, <2>3, DoesNext
<1>3. Crossed' => crossed'
  BY <1>1
<1> QED BY <1>2, <1>3 DEF LeavingInv

-----------------------------------------------------------------------------
(* One primary: what calls have read that mix with no other.               *)

Ranked == EnabledListed /\ OneRanked /\ \A r \in Requests : Holding(r)

LEMMA NotMixingNext ==
    ASSUME TInv', NEW s \in Requests, ~ Mixing(s)'
    PROVE  Holding(s)'
<1>1. Fits(req[s])'
  BY DEF TInv
<1>2. ~ Ranks(s)' \/ req'[s].pc # "read"
  BY <1>1 DEF Mixing, Ranks
<1>3. req'[s].pc \notin {"confirmStore", "rewrite", "unlist"} /\ ~ Copied(req[s])'
  BY <1>1 DEF Mixing, Fits, Copied
<1>4. ~ (req'[s].op = "confirm" /\ req'[s].pc \in {"confirmCode", "members", "read", "confirmStore"})
  BY DEF Mixing
<1> QED BY <1>2, <1>3, <1>4 DEF Holding

\* At these steps nothing is held.
LEMMA HoldsNothing ==
    ASSUME NEW r \in Requests,
           req'[r].pc \notin {"read", "confirmStore", "rewrite", "unlist", "confirmCode", "drop", "touch"},
           req'[r].pc = "members" => req'[r].op # "confirm"
    PROVE  Holding(r)'
BY DEF Holding, Copied

LEMMA IdleHolds ==
    ASSUME NEW r \in Requests, req'[r] = Idle
    PROVE  Holding(r)'
BY IdleFields, HoldsNothing

\* Nothing is written but what nobody confirmed: it is new, or it lapses.
Unhurt ==
    \A n \in Methods :
        \/ method'[n] = method[n]
        \/ /\ ~ method'[n].primary /\ ~ Enabled(method'[n])
           /\ \/ kind[n] = None
              \/ method[n].stored /\ ~ method[n].enabled /\ ~ method'[n].stored

LEMMA UnhurtSame ==
    ASSUME method' = method
    PROVE  Unhurt
BY DEF Unhurt

LEMMA UnhurtConfirmed ==
    ASSUME ConfirmedInv, Unhurt, NEW n \in Methods, Confirmed(n)
    PROVE  method'[n] = method[n]
<1>1. StaysEnabled(n)
  BY DEF ConfirmedInv
<1> QED BY <1>1 DEF Unhurt, StaysEnabled

LEMMA HoldingLight ==
    ASSUME TInv, Undrawn, ConfirmedInv, PlainInv, MethodsGone, Unhurt, members' = members,
           NEW s \in Requests, req'[s] = req[s], Holding(s)
    PROVE  Holding(s)'
<1>1. Fits(req[s]) /\ Carries(req[s]) /\ req[s] \in Request
  BY DEF TInv, TypeOK, ConfirmedInv
<1>2. \A n \in members : n \in Methods /\ method'[n] = method[n]
  BY UnhurtConfirmed DEF Confirmed, TInv, TypeOK
<1>3. (Ranks(s) /\ req[s].pc = "read" =>
          /\ req[s].todo \subseteq members
          /\ \A m \in members : m \in req[s].todo \/ req[s].found[m] = method[m]
          /\ \A m \in Methods : req[s].found[m].stored => m \in members)'
  BY <1>2 DEF Holding, Ranks
<1>4. (req[s].pc = "confirmStore" => \A m \in members : req[s].found[m] = method[m])'
  BY <1>2 DEF Holding
<1>5. ASSUME req[s].pc = "rewrite"
      PROVE  /\ \A m \in req[s].pend : req[s].found[m] = method'[m]
             /\ \A m \in Methods \ req[s].pend : method'[m].primary =>
                   m = req[s].target /\ \A n \in req[s].pend : ~ method'[n].primary
  <2>1. \A m \in req[s].pend : m \in Methods /\ method'[m] = method[m]
    BY <1>1, <1>5, UnhurtConfirmed DEF Carries, Confirmed, Request
  <2>2. \A m \in Methods : method'[m].primary => method[m].primary
    BY DEF Unhurt
  <2> QED BY <1>5, <2>1, <2>2 DEF Holding
<1>6. ASSUME req[s].op = "confirm", req[s].pc \in {"confirmCode", "members", "read", "confirmStore"},
             req[s].copy.primary
      PROVE  method'[req[s].m].primary
  <2>1. /\ req[s].m \in Methods /\ kind[req[s].m] # None
        /\ method[req[s].m].primary /\ Enabled(method[req[s].m])
    BY <1>1, <1>6 DEF Holding, Fits, Carries, PlainInv, Plain
  <2> QED BY <2>1 DEF Unhurt, Enabled
<1>7. ASSUME req[s].pc = "unlist" PROVE ~ method'[req[s].m].stored
  <2>1. req[s].m \in Methods /\ kind[req[s].m] # None /\ ~ method[req[s].m].stored
    BY <1>1, <1>7 DEF Holding, Fits, MethodsGone
  <2> QED BY <2>1 DEF Unhurt
<1>8. ASSUME Copied(req[s]) PROVE req[s].copy = method'[req[s].m]
  <2>1. req[s].m = about[req[s].c] /\ req[s].c \in Challenges /\ req[s].op = "verify"
    BY <1>1, <1>8 DEF Copied, Carries, Fits
  <2>2. req[s].m \in Methods
    BY <2>1 DEF Undrawn, TInv, TypeOK
  <2>3. method'[req[s].m] = method[req[s].m]
    BY <2>1, <2>2, UnhurtConfirmed DEF Confirmed
  <2> QED BY <1>8, <2>3 DEF Holding
<1> QED BY <1>3, <1>4, <1>5, <1>6, <1>7, <1>8 DEF Holding, Copied

LEMMA RankedLight ==
    ASSUME EnabledListed, OneRanked, Unhurt, members' = members,
           \A m \in Methods : Adding(m) => Adding(m)'
    PROVE  EnabledListed' /\ OneRanked'
<1>1. \A m \in Methods : Enabled(method'[m]) => Enabled(method[m])
  BY DEF Unhurt, Enabled
<1>2. \A m \in Methods : method'[m].primary => method[m].primary
  BY DEF Unhurt
<1> QED BY <1>1, <1>2 DEF EnabledListed, OneRanked

\* The shapes of a step that writes nothing that was confirmed.
LEMMA UnhurtBy ==
    ASSUME TInv, Undrawn, ConfirmedInv, Ranked, NEW r \in Requests,
           \/ Ended(r) \/ Arrives(r) \/ Onward(r) \/ Copying(r) \/ SetsUp(r) \/ Chooses(r) \/ Opens(r)
           \/ Uses(r) \/ Begins(r) \/ Reads(r)
    PROVE  Unhurt /\ members' = members /\ Only(r) /\ req[r].pc # "confirmAdd"
<1>1. CASE Ended(r) \/ Arrives(r) \/ Onward(r) \/ Copying(r) \/ Chooses(r) \/ Begins(r) \/ Reads(r)
  <2>1. Only(r) /\ Still
    BY <1>1 DEF Ended, Arrives, Onward, Copying, Chooses, Begins, Reads
  <2>2. req[r].pc # "confirmAdd"
    BY <1>1 DEF Ended, Arrives, Onward, Copying, Chooses, Begins, Reads
  <2> QED BY <2>1, <2>2, UnhurtSame DEF Still
<1>2. CASE SetsUp(r)
  <2>1. Unhurt
    BY <1>2 DEF SetsUp, Unhurt, Enabled
  <2> QED BY <1>2, <2>1 DEF SetsUp
<1>3. CASE Opens(r)
  BY <1>3, UnhurtSame DEF Opens
<1>4. CASE Uses(r)
  <2>1. Fits(req[r]) /\ req[r].pc = "touch" /\ Holding(r)
    BY <1>4 DEF Uses, TInv, Ranked
  <2>2. req[r].copy = method[req[r].m]
    BY <2>1 DEF Fits, Holding, Copied, Verifying, Accepted
  <2>3. \A n \in Methods : method'[n] = method[n]
    BY <1>4, <2>2 DEF Uses, Writes
  <2> QED BY <1>4, <2>3 DEF Uses, Writes, Unhurt
<1> QED BY <1>1, <1>2, <1>3, <1>4

LEMMA AddingOn ==
    ASSUME NEW r \in Requests, Only(r), req[r].pc # "confirmAdd", NEW m, Adding(m)
    PROVE  Adding(m)'
BY DEF Adding, Only

LEMMA HoldingQuiet ==
    ASSUME TInv, Ranked, NEW r \in Requests,
           \/ Ended(r) \/ Arrives(r) \/ Onward(r) \/ Copying(r) \/ SetsUp(r) \/ Chooses(r) \/ Opens(r)
           \/ Uses(r)
    PROVE  Holding(r)'
<1>1. Fits(req[r]) /\ Holding(r)
  BY DEF TInv, Ranked
<1>2. CASE Ended(r) \/ Opens(r)
  BY <1>2, IdleHolds DEF Ended, Opens
<1>3. CASE Arrives(r)
  BY <1>3, HoldsNothing DEF Arrives
<1>4. CASE Onward(r)
  <2>1. CASE req[r].pc = "confirmCode" /\ req'[r].pc = "members"
    BY <1>1, <1>4, <2>1 DEF Onward, Kin, Keeps, Still, Holding, Copied
  <2>2. CASE req[r].pc = "drop" /\ req'[r].pc = "touch"
    BY <1>1, <1>4, <2>2 DEF Onward, Kin, Keeps, Still, Holding, Copied
  <2>3. CASE req'[r].pc \in {"rateWrite", "challengeStore", "dropLate"}
    BY <2>3, HoldsNothing
  <2> QED BY <1>4, <2>1, <2>2, <2>3 DEF Onward
<1>5. CASE Copying(r)
  <2>1. /\ req'[r].m = req[r].m /\ req'[r].copy = method[req[r].m] /\ method' = method
        /\ req'[r].op = req[r].op
    BY <1>5 DEF Copying, Kin, Still
  <2>2. req'[r].pc \in {"confirmCode", "members", "drop", "charge"}
    BY <1>5 DEF Copying
  <2> QED BY <2>1, <2>2 DEF Holding, Copied
<1>6. CASE SetsUp(r)
  BY <1>6, HoldsNothing, IdleHolds DEF SetsUp
<1>7. CASE Chooses(r) \/ Uses(r)
  BY <1>7, HoldsNothing DEF Chooses, Uses
<1> QED BY <1>2, <1>3, <1>4, <1>5, <1>6, <1>7

\* While a call that writes methods mixes with no other, nobody lists one.
LEMMA NobodyAdds ==
    ASSUME TInv, ~ Mixed, NEW r \in Requests, Mixing(r), req[r].op # "verify",
           req[r].pc # "confirmAdd", NEW m \in Methods
    PROVE  ~ Adding(m)
<1> SUFFICES ASSUME NEW s \in Requests, req[s].pc = "confirmAdd" PROVE FALSE
  BY DEF Adding
<1>1. req[s].op = "confirm" /\ Mixing(s) /\ s # r
  BY DEF TInv, Fits, Mixing
<1> QED BY <1>1 DEF Mixed

LEMMA HoldingBegins ==
    ASSUME TInv, Ranked, ~ Mixed', NEW r \in Requests, Begins(r)
    PROVE  Holding(r)'
<1>1. /\ Fits(req[r]) /\ Holding(r) /\ req[r].pc = "members"
      /\ method' = method /\ members' = members
  BY DEF TInv, Ranked, Begins, Still
<1>2. PICK t \in {members, {}} :
          /\ Outcome(req'[r], req[r], t, [m \in Methods |-> Absent])
          /\ t = members \/ req'[r].swallowed \/ req'[r] = Idle
  BY DEF Begins
<1>3. \A m \in Methods : ~ [n \in Methods |-> Absent][m].stored
  BY IdleFields
<1>4. CASE req'[r] = Idle
  BY <1>4, IdleHolds
<1>5. CASE req'[r].pc = "rateRead"
  BY <1>5, HoldsNothing
<1>6. CASE req'[r] # Idle /\ req'[r].pc # "rateRead"
  <2> DEFINE f == [m \in Methods |-> Absent]
  <2>1. /\ Kin(req'[r], req[r]) /\ req'[r].copy = req[r].copy /\ req'[r].found = f
        /\ req'[r].todo = t
        /\ \/ req'[r].pc = "read" /\ t # {}
           \/ req'[r].pc = "confirmStore" /\ t = {} /\ req[r].op = "confirm"
    BY <1>2, <1>3, <1>6 DEF Outcome
  <2>2. \A m \in Methods : ~ req'[r].found[m].stored
    BY <1>3, <2>1
  <2>3. req[r].op = "confirm" /\ req[r].copy.primary => method[req[r].m].primary
    BY <1>1 DEF Holding
  <2>4. CASE req'[r].pc = "read" /\ t # {}
    BY <1>1, <1>2, <2>1, <2>2, <2>3, <2>4 DEF Holding, Copied, Kin
  <2>5. CASE req'[r].pc = "confirmStore" /\ t = {} /\ req[r].op = "confirm"
    <3>1. ~ req'[r].swallowed
      BY <2>1, <2>5 DEF Mixed, Kin
    <3>2. members' = {}
      BY <1>1, <1>2, <1>6, <2>5, <3>1
    <3> QED BY <1>1, <2>1, <2>3, <2>5, <3>2 DEF Holding, Copied, Kin
  <2> QED BY <2>1, <2>4, <2>5
<1> QED BY <1>4, <1>5, <1>6

LEMMA HoldingReads ==
    ASSUME TInv, Ranked, PlainInv, ~ Mixed, NEW r \in Requests, Reads(r)
    PROVE  Holding(r)'
<1>1. /\ Fits(req[r]) /\ Holding(r) /\ req[r].pc = "read" /\ req[r] \in Request
      /\ method' = method /\ members' = members
  BY DEF TInv, TypeOK, Ranked, Reads, Still
<1>2. PICK k \in req[r].todo :
          Outcome(req'[r], req[r], req[r].todo \ {k}, [req[r].found EXCEPT ![k] = method[k]])
  BY DEF Reads
<1> DEFINE f == [req[r].found EXCEPT ![k] = method[k]]
           t == req[r].todo \ {k}
<1>3. k \in Methods /\ \A m \in Methods : f[m] = IF m = k THEN method[k] ELSE req[r].found[m]
  BY <1>1, <1>2 DEF Request
<1>4. Outcome(req'[r], req[r], t, f) /\ \A m \in Methods : m \in t <=> m \in req[r].todo /\ m # k
  BY <1>2
<1>5. t \subseteq req[r].todo
  OBVIOUS
<1> HIDE DEF f, t
<1>6. ASSUME Ranks(r)
      PROVE  /\ t \subseteq members
             /\ \A m \in members : m \in t \/ f[m] = method[m]
             /\ \A m \in Methods : f[m].stored => m \in members
  <2>1. /\ req[r].todo \subseteq members
        /\ \A m \in members : m \in req[r].todo \/ req[r].found[m] = method[m]
        /\ \A m \in Methods : req[r].found[m].stored => m \in members
    BY <1>1, <1>6 DEF Holding
  <2>2. members \subseteq Methods
    BY DEF TInv, TypeOK
  <2> QED BY <1>2, <1>3, <1>4, <1>5, <2>1, <2>2
<1>7. req[r].op = "confirm" /\ req[r].copy.primary => method[req[r].m].primary
  BY <1>1 DEF Holding
<1>8. CASE req'[r] = Idle
  BY <1>8, IdleHolds
<1>9. CASE req'[r].pc = "rateRead"
  BY <1>9, HoldsNothing
<1>10. CASE req'[r] # Idle /\ req'[r].pc # "rateRead"
  <2>1. /\ Kin(req'[r], req[r]) /\ req'[r].copy = req[r].copy /\ req'[r].found = f
        /\ req'[r].todo = t
        /\ \/ req'[r].pc = "read"
           \/ /\ req'[r].pc = "rewrite" /\ t = {} /\ req[r].target # None
              /\ req'[r].pend = {m \in Methods : f[m].stored}
           \/ req'[r].pc = "confirmStore" /\ t = {} /\ req[r].op = "confirm"
           \/ req'[r].pc = "delete"
    BY <1>4, <1>10 DEF Outcome
  <2>2. Ranks(r)' => Ranks(r)
    BY <2>1 DEF Ranks, Kin
  <2>3. CASE req'[r].pc = "read"
    BY <1>1, <1>6, <1>7, <2>1, <2>2, <2>3 DEF Holding, Copied, Kin
  <2>4. CASE /\ req'[r].pc = "rewrite" /\ t = {} /\ req[r].target # None
             /\ req'[r].pend = {m \in Methods : f[m].stored}
    <3>1. Ranks(r) /\ Mixing(r) /\ req[r].op # "verify"
      BY <1>1, <2>4 DEF Ranks, Mixing, Fits, Verifying, Judged, Accepted
    <3>2. \A m \in members : f[m] = method[m]
      BY <1>6, <2>4, <3>1
    <3>3. \A m \in req'[r].pend : m \in Methods /\ f[m] = method[m]
      BY <1>6, <2>4, <3>1, <3>2
    <3>4. ASSUME NEW m \in Methods, method[m].primary PROVE m \in req'[r].pend
      <4>1. Enabled(method[m])
        BY <3>4 DEF PlainInv, Plain
      <4>2. m \in members
        BY <1>1, <3>1, <4>1, NobodyAdds DEF Ranked, EnabledListed
      <4> QED BY <2>4, <3>2, <4>1, <4>2 DEF Enabled
    <3> QED BY <1>1, <2>1, <2>4, <3>3, <3>4 DEF Holding, Copied, Kin
  <2>5. CASE req'[r].pc = "confirmStore" /\ t = {} /\ req[r].op = "confirm"
    <3>1. \A m \in members : f[m] = method[m]
      BY <1>6, <2>5 DEF Ranks
    <3> QED BY <1>1, <1>7, <2>1, <2>5, <3>1 DEF Holding, Copied, Kin
  <2>6. CASE req'[r].pc = "delete"
    BY <2>6, HoldsNothing
  <2> QED BY <2>1, <2>3, <2>4, <2>5, <2>6
<1> QED BY <1>8, <1>9, <1>10

LEMMA RankedQuiet ==
    ASSUME TInv, Undrawn, ConfirmedInv, PlainInv, MethodsGone, Ranked, ~ Mixed, ~ Mixed',
           NEW r \in Requests,
           \/ Ended(r) \/ Arrives(r) \/ Onward(r) \/ Copying(r) \/ SetsUp(r) \/ Chooses(r) \/ Opens(r)
           \/ Uses(r) \/ Begins(r) \/ Reads(r)
    PROVE  Ranked'
<1>1. Unhurt /\ members' = members /\ Only(r) /\ req[r].pc # "confirmAdd"
  BY UnhurtBy
<1>2. EnabledListed' /\ OneRanked'
  BY <1>1, AddingOn, RankedLight DEF Ranked
<1>3. Holding(r)'
  BY HoldingQuiet, HoldingBegins, HoldingReads
<1>4. ASSUME NEW s \in Requests, s # r PROVE Holding(s)'
  BY <1>1, <1>4, HoldingLight DEF Ranked, Only
<1> QED BY <1>2, <1>3, <1>4 DEF Ranked

LEMMA RankedLasts ==
    ASSUME TInv, Undrawn, ConfirmedInv, PlainInv, MethodsGone, Ranked, Lapsing
    PROVE  Ranked'
<1>1. req' = req /\ members' = members
  BY DEF Lapsing
<1>2. ~ Absent.primary /\ ~ Enabled(Absent) /\ ~ Absent.stored
  BY DEF Absent, Enabled
<1>3. Unhurt
  BY <1>2 DEF Lapsing, Unhurt
<1>4. EnabledListed' /\ OneRanked'
  BY <1>1, <1>3, RankedLight DEF Ranked, Adding
<1>5. \A s \in Requests : Holding(s)'
  BY <1>1, <1>3, HoldingLight DEF Ranked
<1> QED BY <1>4, <1>5 DEF Ranked

LEMMA OthersHold ==
    ASSUME TInv, TInv', ~ Mixed, NEW r \in Requests, Only(r), Mixing(r), req[r].op # "verify",
           NEW s \in Requests, s # r
    PROVE  Holding(s)'
<1>1. ~ Mixing(s) /\ req'[s] = req[s]
  BY DEF Mixed, Only
<1>2. ~ Mixing(s)'
  BY <1>1 DEF Mixing
<1> QED BY <1>2, NotMixingNext

LEMMA RankedConfirms ==
    ASSUME TInv, TInv', PlainInv, Ranked, ~ Mixed, NEW r \in Requests, Confirms(r)
    PROVE  Ranked'
<1>1. /\ Fits(req[r]) /\ req[r].pc = "confirmStore" /\ req[r].op = "confirm" /\ req[r].m \in Methods
      /\ Only(r) /\ Holding(r)
  BY DEF TInv, Confirms, Fits, Ranked
<1>2. Mixing(r)
  BY <1>1 DEF Mixing
<1>3. PICK w \in Value : Proven(req[r], w) /\ Writes(r, w)
  BY DEF Confirms
<1>4. \A m \in Methods : m = req[r].m => Adding(m)'
  BY DEF Adding, Confirms, Kin
<1>5. \A m \in Methods : Adding(m) => Adding(m)'
  BY <1>1, AddingOn
<1>6. EnabledListed'
  BY <1>3, <1>4, <1>5 DEF Ranked, EnabledListed, Writes
<1>7. ASSUME NEW m \in Methods, w.primary, method[m].primary PROVE m = req[r].m
  <2>1. CASE req[r].copy.primary
    BY <1>1, <1>7, <2>1 DEF Holding, Ranked, OneRanked
  <2>2. CASE Listed(req[r]) = {}
    <3>1. Enabled(method[m])
      BY <1>7 DEF PlainInv, Plain
    <3>2. m \in members
      BY <1>1, <1>2, <3>1, NobodyAdds DEF Ranked, EnabledListed
    <3>3. req[r].found[m] = method[m]
      BY <1>1, <3>2 DEF Holding
    <3> QED BY <2>2, <3>1, <3>3 DEF Listed, Enabled
  <2> QED BY <1>3, <1>7, <2>1, <2>2 DEF Proven
<1>8. OneRanked'
  BY <1>3, <1>7 DEF Ranked, OneRanked, Writes
<1>9. Holding(r)'
  BY HoldsNothing DEF Confirms
<1> QED BY <1>1, <1>2, <1>6, <1>8, <1>9, OthersHold DEF Ranked

LEMMA RankedAdds ==
    ASSUME TInv, TInv', Ranked, ~ Mixed, ~ Mixed', NEW r \in Requests, Adds(r)
    PROVE  Ranked'
<1>1. req[r].op = "confirm" /\ req[r].pc = "confirmAdd" /\ req[r].m \in Methods /\ Only(r)
  BY DEF TInv, Adds, Fits
<1>2. Mixing(r) /\ method' = method
  BY <1>1 DEF Mixing, Adds
<1>3. members' = members \cup {req[r].m}
  BY <1>1 DEF Adds, Mixed, Kin
<1>4. ASSUME NEW m \in Methods, Adding(m) PROVE Adding(m)' \/ m = req[r].m
  BY <1>1, <1>4 DEF Adding, Only
<1>5. EnabledListed' /\ OneRanked'
  BY <1>2, <1>3, <1>4 DEF Ranked, EnabledListed, OneRanked
<1>6. Holding(r)'
  BY HoldsNothing DEF Adds
<1> QED BY <1>1, <1>2, <1>5, <1>6, OthersHold DEF Ranked

LEMMA RankedErases ==
    ASSUME TInv, TInv', Ranked, ~ Mixed, NEW r \in Requests, Erases(r)
    PROVE  Ranked'
<1>1. req[r].op = "remove" /\ req[r].pc = "delete" /\ req[r].m \in Methods /\ Only(r)
  BY DEF TInv, Erases, Fits
<1>2. Mixing(r)
  BY <1>1 DEF Mixing
<1>3. ~ Absent.primary /\ ~ Enabled(Absent) /\ ~ Absent.stored
  BY DEF Absent, Enabled
<1>4. /\ members' = members
      /\ \A n \in Methods : method'[n] = IF n = req[r].m THEN Absent ELSE method[n]
  BY DEF Erases, Writes
<1>5. \A m \in Methods : Adding(m) => Adding(m)'
  BY <1>1, AddingOn
<1>6. EnabledListed'
  BY <1>3, <1>4, <1>5 DEF Ranked, EnabledListed
<1>7. OneRanked'
  BY <1>3, <1>4 DEF Ranked, OneRanked
<1>8. req'[r].pc = "unlist" /\ req'[r].m = req[r].m /\ ~ method'[req'[r].m].stored
  BY <1>1, <1>3, <1>4 DEF Erases, Kin
<1>9. Holding(r)'
  BY <1>8 DEF Holding, Copied
<1> QED BY <1>1, <1>2, <1>6, <1>7, <1>9, OthersHold DEF Ranked

LEMMA RankedStrikes ==
    ASSUME TInv, TInv', Ranked, ~ Mixed, NEW r \in Requests, Strikes(r)
    PROVE  Ranked'
<1>1. /\ req[r].op = "remove" /\ req[r].pc = "unlist" /\ req[r].m \in Methods /\ Only(r)
      /\ Holding(r)
  BY DEF TInv, Strikes, Fits, Ranked
<1>2. Mixing(r) /\ method' = method /\ ~ method[req[r].m].stored
  BY <1>1 DEF Mixing, Strikes, Holding
<1>3. \A m \in members : m \in members' \/ m = req[r].m
  BY DEF Strikes
<1>4. \A m \in Methods : Adding(m) => Adding(m)'
  BY <1>1, AddingOn
<1>5. EnabledListed' /\ OneRanked'
  BY <1>2, <1>3, <1>4 DEF Ranked, EnabledListed, OneRanked, Enabled
<1>6. Holding(r)'
  BY <1>1, IdleHolds, HoldsNothing DEF Strikes
<1> QED BY <1>1, <1>2, <1>5, <1>6, OthersHold DEF Ranked

LEMMA RankedRanking ==
    ASSUME TInv, TInv', ConfirmedInv, Ranked, ~ Mixed, NEW r \in Requests, Ranking(r)
    PROVE  Ranked'
<1>1. /\ req[r] \in Request /\ Fits(req[r]) /\ req[r].pc = "rewrite" /\ Only(r)
      /\ members' = members /\ Holding(r)
  BY DEF TInv, TypeOK, Ranking, Ranked
<1>2. Mixing(r) /\ req[r].op # "verify"
  BY <1>1 DEF Fits, Mixing, Verifying, Judged, Accepted
<1>3. PICK m \in req[r].pend :
          /\ req[r].found[m].primary \/ \A n \in req[r].pend : ~ req[r].found[n].primary
          /\ \E w \in Value :
                /\ w.stored = req[r].found[m].stored /\ w.enabled = req[r].found[m].enabled
                /\ w.primary <=> m = req[r].target
                /\ \A n \in Methods : method'[n] = IF n = m THEN w ELSE method[n]
          /\ \/ req'[r] = Idle
             \/ /\ Kin(req'[r], req[r]) /\ req'[r].pc = "rewrite" /\ req'[r].pend = req[r].pend \ {m}
                /\ req'[r].copy = req[r].copy /\ req'[r].found = req[r].found
                /\ req'[r].todo = req[r].todo
  BY DEF Ranking
<1>4. /\ req[r].pend \subseteq Methods /\ m \in Methods
      /\ \A n \in req[r].pend : req[r].found[n] = method[n]
      /\ \A n \in Methods \ req[r].pend : method[n].primary =>
            n = req[r].target /\ \A k \in req[r].pend : ~ method[k].primary
  BY <1>1, <1>3 DEF Request, Holding
<1>5. /\ \A n \in Methods : n # m => method'[n] = method[n]
      /\ method'[m].primary <=> m = req[r].target
      /\ Enabled(method'[m]) => Enabled(method[m])
  BY <1>3, <1>4 DEF Enabled
<1>6. \A n \in Methods : Adding(n) => Adding(n)'
  BY <1>1, AddingOn
<1>7. EnabledListed'
  BY <1>1, <1>5, <1>6 DEF Ranked, EnabledListed
<1>8. ASSUME NEW n \in req[r].pend, n # m PROVE ~ method'[n].primary
  <2>1. method'[n] = method[n] /\ n \in Methods
    BY <1>4, <1>5, <1>8
  <2>2. method[n].primary => method[m].primary
    BY <1>3, <1>4, <1>8
  <2> QED BY <1>4, <1>8, <2>1, <2>2 DEF Ranked, OneRanked
<1>9. ASSUME NEW n \in Methods, method'[n].primary PROVE n = req[r].target /\ n \notin req[r].pend \ {m}
  BY <1>4, <1>5, <1>8, <1>9
<1>10. OneRanked'
  BY <1>9 DEF OneRanked
<1>11. Holding(r)'
  <2>1. CASE req'[r] = Idle
    BY <2>1, IdleHolds
  <2>2. CASE req'[r] # Idle
    <3>1. /\ req'[r].pc = "rewrite" /\ req'[r].pend = req[r].pend \ {m}
          /\ req'[r].found = req[r].found /\ req'[r].target = req[r].target
      BY <1>3, <2>2 DEF Kin
    <3>2. \A n \in req'[r].pend : req'[r].found[n] = method'[n]
      BY <1>4, <1>5, <3>1
    <3>3. \A n \in Methods \ req'[r].pend : method'[n].primary =>
             n = req'[r].target /\ \A k \in req'[r].pend : ~ method'[k].primary
      BY <1>8, <1>9, <3>1
    <3> QED BY <3>1, <3>2, <3>3 DEF Holding, Copied
  <2> QED BY <2>1, <2>2
<1> QED BY <1>1, <1>2, <1>7, <1>10, <1>11, OthersHold DEF Ranked

LEMMA PrimaryNext ==
    ASSUME IInv, TInv', ConfirmedInv, PlainInv, PrimaryInv, Next
    PROVE  PrimaryInv'
<1>1. mixed' = (mixed \/ Mixed')
  BY DEF Next, History
<1>2. TInv /\ Undrawn /\ MethodsGone
  BY DEF IInv
<1>3. ASSUME ~ mixed' PROVE Ranked'
  <2>1. ~ Mixed /\ ~ Mixed' /\ Ranked
    BY <1>1, <1>3 DEF PrimaryInv, Ranked
  <2>2. CASE Lapsing
    BY <1>2, <2>1, <2>2, RankedLasts
  <2>3. ASSUME NEW r \in Requests, Does(r) PROVE Ranked'
    BY <1>2, <2>1, <2>3, RankedQuiet, RankedConfirms, RankedAdds, RankedErases, RankedStrikes,
       RankedRanking DEF Does
  <2> QED BY <1>2, <2>2, <2>3, DoesNext
<1>4. Mixed' => mixed'
  BY <1>1
<1> QED BY <1>3, <1>4 DEF PrimaryInv, Ranked

-----------------------------------------------------------------------------
(* The invariant holds, and what follows from it.                          *)

LEMMA MethodsStart == Init => ConfirmedInv /\ LeavingInv /\ PlainInv /\ PrimaryInv
<1> SUFFICES ASSUME Init PROVE ConfirmedInv /\ LeavingInv /\ PlainInv /\ PrimaryInv
  OBVIOUS
<1>1. \A r \in Requests : req[r] = Idle
  BY DEF Init
<1>2. \A r \in Requests : /\ req[r].pc = "idle" /\ req[r].op = None /\ req[r].todo = {}
                          /\ req[r].copy = Absent /\ req[r].target = None /\ ~ req[r].swallowed
                          /\ \A m \in Methods : req[r].found[m] = Absent
  BY <1>1, IdleFields
<1>3. None \notin Ops /\ None \notin Methods
  BY NoneAssumption
<1>4. ~ Absent.primary /\ ~ Absent.stored /\ ~ Absent.enabled
  BY DEF Absent
<1>5. members = {} /\ \A c \in Challenges : about[c] = None
  BY DEF Init
<1>6. \A m \in Methods : method[m] = Absent
  BY DEF Init
<1>7. ConfirmedInv
  <2>1. \A r \in Requests : Carries(req[r])
    BY <1>2, <1>3 DEF Carries, Ops
  <2>2. \A m \in Methods : ~ Confirmed(m)
    BY <1>2, <1>3, <1>4, <1>5 DEF Confirmed, Chosen
  <2> QED BY <2>1, <2>2 DEF ConfirmedInv
<1>8. LeavingInv
  BY <1>2 DEF LeavingInv, Crossed, Leaving
<1>9. PlainInv
  BY <1>2, <1>4, <1>6 DEF PlainInv, Plain
<1>10. \A r \in Requests : ~ Mixing(r)
  BY <1>2, <1>3 DEF Mixing, Ops
<1>11. ~ Mixed
  BY <1>2, <1>10 DEF Mixed
<1>12. \A r \in Requests : Holding(r)
  BY <1>2 DEF Holding, Ranks, Copied
<1>13. EnabledListed /\ OneRanked
  BY <1>4, <1>6 DEF EnabledListed, OneRanked, Enabled
<1> QED BY <1>7, <1>8, <1>9, <1>11, <1>12, <1>13 DEF PrimaryInv

LEMMA MethodsStutter ==
    ASSUME ConfirmedInv, LeavingInv, PlainInv, PrimaryInv, UNCHANGED vars
    PROVE  (ConfirmedInv /\ LeavingInv /\ PlainInv /\ PrimaryInv)'
<1>1. UNCHANGED <<method, members, kind, about, req, mixed, crossed>>
  BY DEF vars, redis, facts, overlaps
<1>2. ConfirmedInv'
  BY <1>1 DEF ConfirmedInv, Carries, Confirmed, StaysEnabled
<1>3. \A r \in Requests : Leaving(r)' <=> Leaving(r)
  BY <1>1 DEF Leaving
<1>4. \A r \in Requests : Remains(r) => Remains(r)'
  BY <1>1 DEF Remains, Listed, Usable, Active
<1>5. LeavingInv'
  BY <1>1, <1>3, <1>4 DEF LeavingInv, Crossed
<1>6. PlainInv'
  BY <1>1 DEF PlainInv
<1>7. \A r \in Requests : Mixing(r)' <=> Mixing(r)
  BY <1>1 DEF Mixing
<1>8. \A r \in Requests : Holding(r) => Holding(r)'
  BY <1>1 DEF Holding, Ranks
<1>9. EnabledListed /\ OneRanked => EnabledListed' /\ OneRanked'
  BY <1>1 DEF EnabledListed, OneRanked, Adding
<1>10. PrimaryInv'
  BY <1>1, <1>7, <1>8, <1>9 DEF PrimaryInv, Mixed
<1> QED BY <1>2, <1>5, <1>6, <1>10

LEMMA MethodsStep ==
    ASSUME IInv, IInv', ConfirmedInv, LeavingInv, PlainInv, PrimaryInv, Next
    PROVE  (ConfirmedInv /\ LeavingInv /\ PlainInv /\ PrimaryInv)'
<1>1. TInv /\ Undrawn /\ TInv'
  BY DEF IInv
<1>2. CASE Lapsing
  BY <1>1, <1>2, ConfirmedLasts, PlainLasts, LeavingNext, PrimaryNext
<1>3. ASSUME NEW r \in Requests, Does(r)
      PROVE  (ConfirmedInv /\ LeavingInv /\ PlainInv /\ PrimaryInv)'
  BY <1>1, <1>3, LearnsAlways, ConfirmedNext, PlainNext, LeavingNext, PrimaryNext
<1> QED BY <1>1, <1>2, <1>3, DoesNext

\* The invariant of the methods: what was confirmed stays enabled, what a
\* removal has seen of the others remains, and what a call that mixes with no
\* other has read of the methods is so.
THEOREM MethodsInvariance == Spec => []MethodsInv
<1>1. Init => ConfirmedInv /\ LeavingInv /\ PlainInv /\ PrimaryInv
  BY MethodsStart
<1>2. /\ IInv /\ IInv' /\ [Next]_vars
      /\ ConfirmedInv /\ LeavingInv /\ PlainInv /\ PrimaryInv
      => (ConfirmedInv /\ LeavingInv /\ PlainInv /\ PrimaryInv)'
  BY MethodsStep, MethodsStutter
<1>3. MethodsInv <=> IInv /\ ConfirmedInv /\ LeavingInv /\ PlainInv /\ PrimaryInv
  BY DEF MethodsInv
<1> QED BY <1>1, <1>2, <1>3, Invariance, PTL DEF Spec

\* removeMFAMethod refuses to remove the last active method: the method it
\* has seen beside the one it removes is there when that one goes, unless
\* another removal decides at the same time.
THEOREM AMethodIsKept == Spec => KeepsAMethod
<1>1. MethodsInv /\ [Next]_vars => [Active # {} /\ ~crossed' => Active' # {}]_vars
  <2> SUFFICES ASSUME MethodsInv, Next, Active # {}, ~ crossed' PROVE Active' # {}
    OBVIOUS
  <2>1. TInv /\ Undrawn /\ ConfirmedInv /\ LeavingInv
    BY DEF MethodsInv, IInv
  <2>2. PICK n : n \in Active
    OBVIOUS
  <2>3. CASE Lapsing
    BY <2>1, <2>2, <2>3, ActiveLasts
  <2>4. ASSUME NEW r \in Requests, Does(r) PROVE Active' # {}
    <3>1. CASE n \in Active'
      BY <3>1
    <3>2. CASE req[r].pc \in {"delete", "unlist"} /\ req[r].m = n
      <4>1. ~ crossed /\ ~ Crossed
        BY <2>1 DEF LeavingInv, Next, History
      <4>2. Leaving(r) /\ Remains(r)
        BY <2>1, <3>2, <4>1, TakesOut DEF LeavingInv
      <4>3. PICK k \in Usable(req[r]) : k # req[r].m
        BY <3>2, <4>2 DEF Remains
      <4>4. k \in Active /\ k \in Methods
        BY <4>2, <4>3 DEF Remains, Usable, Listed
      <4>5. k \in Active'
        BY <2>1, <2>4, <4>1, <4>2, <4>3, <4>4, Spares
      <4> QED BY <4>5
    <3> QED BY <2>1, <2>2, <2>4, <3>1, <3>2, StaysActive
  <2> QED BY <2>1, <2>3, <2>4, DoesNext
<1> QED BY <1>1, MethodsInvariance, PTL DEF Spec, KeepsAMethod

\* verifyMFASetup, setPrimaryMFAMethod and removeMFAMethod: at most one method
\* is the primary, also when a rewrite of the list stops half-way, unless two
\* calls that write methods overlap or a failure was taken for an answer.
THEOREM OnePrimaryAlways == Spec => []OnePrimary
<1>1. MethodsInv => OnePrimary
  <2> SUFFICES ASSUME MethodsInv PROVE OnePrimary
    OBVIOUS
  <2>1. TypeOK /\ PrimaryInv
    BY DEF MethodsInv, IInv, TInv
  <2>2. Active \subseteq Methods
    BY <2>1 DEF Active, TypeOK
  <2> QED BY <2>1, <2>2 DEF PrimaryInv, OneRanked, OnePrimary
<1> QED BY <1>1, MethodsInvariance, PTL
=============================================================================
