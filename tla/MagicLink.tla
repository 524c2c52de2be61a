------------------------------ MODULE MagicLink ------------------------------
(***************************************************************************)
(* Passwordless sign-in links: MagicLinkServiceImpl of                     *)
(* smp-auth-ts/src/services/magic-link.service.ts.                         *)
(*                                                                         *)
(* Every public call of the service (generateMagicLink, verifyMagicLink,   *)
(* sendMagicLink, revokeMagicLink, cleanupExpiredLinks) is a request that  *)
(* advances from one await to the next; between two awaits any other       *)
(* request of any process that shares the Redis server may run.  A step    *)
(* stands for one Redis, Keycloak or mail call and the synchronous code    *)
(* behind it.                                                              *)
(*                                                                         *)
(* A token is as random as the identifier of its link and is created with  *)
(* it, so the link's name stands for both.  Time is counted in ticks and   *)
(* only remaining lifetimes are kept.                                      *)
(***************************************************************************)
EXTENDS Integers

CONSTANTS
    Requests,            \* the calls made to the service
    Links,               \* identifiers (and tokens) the generator may draw
    Emails,
    Actions,             \* what a link may be good for
    Kinds,               \* the calls an instance makes
    Expiry,              \* expiryMinutes, in ticks
    MaxUsesPerDay,
    RequireExistingUser,
    AutoCreateUser,
    RedisMayFail,        \* may a Redis call fail?
    None

Ops == {"generate", "verify", "resend", "revoke", "cleanup"}

ASSUME ExpiryAssumption == Expiry \in Nat \ {0}
ASSUME LimitAssumption == MaxUsesPerDay \in Nat \ {0}
ASSUME ConfigAssumption == {RequireExistingUser, AutoCreateUser, RedisMayFail} \subseteq BOOLEAN
ASSUME KindsAssumption == Kinds \subseteq Ops
ASSUME NoneAssumption == None \notin Links \cup Emails \cup Actions \cup Ops

Statuses == {"pending", "used", "revoked", "expired"}
Stored == Statuses \cup {"absent"}

\* The set magic_link:email:<email> of an address carries no time to live
\* until EXPIRE gives it one.
NoTTL == Expiry + 1

VARIABLES
    store,        \* magic_link:<id>, the status in the JSON value or "absent"
    storeTTL,     \* ... its remaining time to live, 0 when absent
    tokenTTL,     \* magic_link:token:<token>, 0 when absent
    index,        \* magic_link:email:<email>, absent when empty
    indexTTL,     \* ... its remaining time to live
    daily,        \* magic_link:daily:<email>:<today>
    left,         \* expiresAt of a link minus now, -1 once it is past
    info,         \* the fields of a link that never change
    issued,       \* identifiers drawn so far
    accounts,     \* does Keycloak know the address?
    delivered,    \* links whose mail has reached its mailbox
    req,          \* the requests and their local variables
    counted,      \* history: increments of today's counter that were written
    conflict,     \* history: links touched by an overlap named by Overlap
    unsettled     \* history: addresses touched by an overlap named by Unsettled

redis == <<store, storeTTL, tokenTTL, index, indexTTL, daily>>
world == <<left, info, issued, accounts, delivered, counted>>
vars == <<redis, world, req, conflict, unsettled>>

-----------------------------------------------------------------------------
(* Requests.                                                               *)

PCs == {"idle", "done",
        "checkLimit", "lookup", "members", "scan", "storeLink", "storeToken",
        "storeIndex", "expireIndex", "countRead", "countWrite", "mail",
        "mailWrite", "stampWrite", "emit", "token", "load", "process",
        "resendRead", "statusRead", "statusWrite",
        "keys", "cleanScan", "deleteRead", "deleteLink", "deleteToken", "deleteIndex"}

IdleRequest ==
    [pc |-> "idle", op |-> None, email |-> None, action |-> None, hasUser |-> FALSE,
     link |-> None,      \* the link the request is about
     cur |-> None,       \* the link updateLinkStatus or deleteMagicLink is at
     goal |-> "pending", \* the status updateLinkStatus is to write
     copy |-> "absent",  \* status in the request's own copy of the link
     todo |-> {}, pend |-> {}, count |-> 0, today |-> TRUE,
     reply |-> None,     \* the answer of the call
     acted |-> FALSE,    \* a verification has let its caller in
     swallowed |-> FALSE \* a failed Redis call was taken for an empty answer
    ]

\* A request that has answered keeps only what the properties speak of.
Answer(q, reply) ==
    [IdleRequest EXCEPT !.pc = "done", !.op = q.op, !.link = q.link,
                        !.reply = reply, !.acted = q.acted, !.swallowed = q.swallowed]

Become(r, q) == req' = [req EXCEPT ![r] = q]

\* What getMagicLink returns: its catch turns a failed GET into null.
Seen(id) == {store[id]} \cup (IF RedisMayFail THEN {"absent"} ELSE {})

\* The loops of revokeExistingLinks and getUserMagicLinks, between two calls.
\* The list is sorted newest first in the code; any order is allowed here.
RevokeOrStore(q) ==
    IF q.pend = {} THEN {[q EXCEPT !.pc = "storeLink"]}
    ELSE {[q EXCEPT !.pc = "statusRead", !.cur = id, !.goal = "revoked",
                    !.pend = q.pend \ {id}] : id \in q.pend}

ScanOrRevoke(q) ==
    IF q.todo = {} THEN RevokeOrStore(q) ELSE {[q EXCEPT !.pc = "scan"]}

\* What the caller of updateLinkStatus goes on with.
AfterStatus(q) ==
    CASE q.op = "generate" -> RevokeOrStore(q)
      [] q.op = "revoke" -> {Answer(q, "success")}
      [] q.op = "verify" /\ q.goal = "used" -> {[q EXCEPT !.pc = "process"]}
      [] OTHER -> {Answer(q, "failure")}

\* A Redis call that throws ends the request through the catch of the call.
Throw(r) ==
    /\ RedisMayFail
    /\ Become(r, Answer(req[r], "failure"))
    /\ UNCHANGED <<redis, world>>

-----------------------------------------------------------------------------
(* The start of each call.                                                 *)

StartGenerate(r) ==
    /\ "generate" \in Kinds /\ req[r].pc = "idle"
    /\ \E e \in Emails, a \in Actions, id \in Links \ issued :
          /\ Become(r, [IdleRequest EXCEPT !.pc = "checkLimit", !.op = "generate",
                                           !.email = e, !.action = a, !.link = id,
                                           !.copy = "pending"])
          /\ issued' = issued \cup {id}
    /\ UNCHANGED <<redis, left, info, accounts, delivered, counted>>

\* Only the reader of the mail knows the token.
StartVerify(r) ==
    /\ "verify" \in Kinds /\ req[r].pc = "idle"
    /\ \E id \in delivered :
          Become(r, [IdleRequest EXCEPT !.pc = "token", !.op = "verify", !.link = id])
    /\ UNCHANGED <<redis, world>>

\* Identifiers are known from the answer of generateMagicLink and from
\* getUserMagicLinks.
StartResend(r) ==
    /\ "resend" \in Kinds /\ req[r].pc = "idle"
    /\ \E id \in issued :
          /\ info[id].email # None
          /\ Become(r, [IdleRequest EXCEPT !.pc = "resendRead", !.op = "resend", !.link = id])
    /\ UNCHANGED <<redis, world>>

StartRevoke(r) ==
    /\ "revoke" \in Kinds /\ req[r].pc = "idle"
    /\ \E id \in issued :
          /\ info[id].email # None
          /\ Become(r, [IdleRequest EXCEPT !.pc = "statusRead", !.op = "revoke",
                                           !.link = id, !.cur = id, !.goal = "revoked"])
    /\ UNCHANGED <<redis, world>>

StartCleanup(r) ==
    /\ "cleanup" \in Kinds /\ req[r].pc = "idle"
    /\ Become(r, [IdleRequest EXCEPT !.pc = "keys", !.op = "cleanup"])
    /\ UNCHANGED <<redis, world>>

-----------------------------------------------------------------------------
(* generateMagicLink.                                                      *)

\* checkDailyLimit: throws once the counter has reached the limit.
CheckLimit(r) ==
    /\ req[r].pc = "checkLimit"
    /\ \/ /\ daily[req[r].email] < MaxUsesPerDay
          /\ Become(r, [req[r] EXCEPT !.pc = "lookup"])
          /\ UNCHANGED <<redis, world>>
       \/ /\ daily[req[r].email] >= MaxUsesPerDay
          /\ Become(r, Answer(req[r], "failure"))
          /\ UNCHANGED <<redis, world>>
       \/ Throw(r)

\* keycloakClient.getUserByEmail, which may fail too.
Lookup(r) ==
    /\ req[r].pc = "lookup"
    /\ \/ /\ accounts[req[r].email] \/ ~RequireExistingUser
          /\ Become(r, [req[r] EXCEPT !.pc = "members", !.hasUser = accounts[req[r].email]])
       \/ Become(r, Answer(req[r], "failure"))
    /\ UNCHANGED <<redis, world>>

\* getUserMagicLinks: sMembers answers [] when Redis fails.
Members(r) ==
    /\ req[r].pc = "members"
    /\ \E found \in {index[req[r].email]} \cup (IF RedisMayFail THEN {{}} ELSE {}) :
       \E q \in ScanOrRevoke([req[r] EXCEPT !.todo = found,
                                 !.swallowed = (found # index[req[r].email])]) :
          Become(r, q)
    /\ UNCHANGED <<redis, world>>

\* Faulty variant: the filter keeps the links that are not pending.
ScanWrongFilter(r) ==
    /\ req[r].pc = "scan"
    /\ \E id \in req[r].todo : \E seen \in Seen(id) :
       \E q \in ScanOrRevoke(
                   [req[r] EXCEPT !.todo = req[r].todo \ {id},
                                  !.pend = IF seen \in {"pending", "absent"} THEN req[r].pend
                                                               ELSE req[r].pend \cup {id}]) :
          Become(r, q)
    /\ UNCHANGED <<redis, world>>

\* ... and reads the links one after the other.
Scan(r) ==
    /\ req[r].pc = "scan"
    /\ \E id \in req[r].todo : \E seen \in Seen(id) :
       \E q \in ScanOrRevoke(
                   [req[r] EXCEPT !.todo = req[r].todo \ {id},
                                  !.pend = IF seen = "pending" THEN req[r].pend \cup {id}
                                                               ELSE req[r].pend,
                                  !.swallowed = req[r].swallowed \/ seen # store[id]]) :
          Become(r, q)
    /\ UNCHANGED <<redis, world>>

\* storeMagicLink, its four calls.  set throws, sAdd and expire do not.
StoreLink(r) ==
    /\ req[r].pc = "storeLink"
    /\ \/ LET id == req[r].link IN
          /\ store' = [store EXCEPT ![id] = "pending"]
          /\ storeTTL' = [storeTTL EXCEPT ![id] = Expiry]
          /\ left' = [left EXCEPT ![id] = Expiry]
          /\ info' = [info EXCEPT ![id] = [email |-> req[r].email, action |-> req[r].action,
                                           hasUser |-> req[r].hasUser]]
          /\ Become(r, [req[r] EXCEPT !.pc = "storeToken"])
          /\ UNCHANGED <<tokenTTL, index, indexTTL, daily, issued, accounts, delivered, counted>>
       \/ Throw(r)

StoreToken(r) ==
    /\ req[r].pc = "storeToken"
    /\ \/ /\ tokenTTL' = [tokenTTL EXCEPT ![req[r].link] = Expiry]
          /\ Become(r, [req[r] EXCEPT !.pc = "storeIndex"])
          /\ UNCHANGED <<store, storeTTL, index, indexTTL, daily, world>>
       \/ Throw(r)

StoreIndex(r) ==
    /\ req[r].pc = "storeIndex"
    /\ \/ /\ index' = [index EXCEPT ![req[r].email] = @ \cup {req[r].link}]
          /\ Become(r, [req[r] EXCEPT !.pc = "expireIndex"])
       \/ /\ RedisMayFail
          /\ Become(r, [req[r] EXCEPT !.pc = "expireIndex", !.swallowed = TRUE])
          /\ UNCHANGED index
    /\ UNCHANGED <<store, storeTTL, tokenTTL, indexTTL, daily, world>>

\* EXPIRE does nothing on a key that has just expired.
ExpireIndex(r) ==
    /\ req[r].pc = "expireIndex"
    /\ \/ /\ indexTTL' = [indexTTL EXCEPT ![req[r].email] =
                             IF index[req[r].email] = {} THEN NoTTL ELSE Expiry]
          /\ Become(r, [req[r] EXCEPT !.pc = "countRead"])
       \/ /\ RedisMayFail
          /\ Become(r, [req[r] EXCEPT !.pc = "countRead", !.swallowed = TRUE])
          /\ UNCHANGED indexTTL
    /\ UNCHANGED <<store, storeTTL, tokenTTL, index, daily, world>>

\* incrementDailyCounter: a read, then a write of what was read plus one.
CountRead(r) ==
    /\ req[r].pc = "countRead"
    /\ \/ /\ Become(r, [req[r] EXCEPT !.pc = "countWrite",
                                      !.count = daily[req[r].email], !.today = TRUE])
          /\ UNCHANGED <<redis, world>>
       \/ Throw(r)

\* After midnight the write goes to a key nobody reads any more.  The key
\* lives 24 hours from its last write, longer than its day.
CountWrite(r) ==
    /\ req[r].pc = "countWrite"
    /\ \/ LET e == req[r].email IN
          /\ daily' = IF req[r].today THEN [daily EXCEPT ![e] = req[r].count + 1] ELSE daily
          /\ counted' = IF req[r].today THEN [counted EXCEPT ![e] = @ + 1] ELSE counted
          /\ Become(r, [req[r] EXCEPT !.pc = "mail", !.count = 0])
          /\ UNCHANGED <<store, storeTTL, tokenTTL, index, indexTTL,
                         left, info, issued, accounts, delivered>>
       \/ Throw(r)

\* sendMagicLinkEmail: the provider's answer and the fate of the mail are
\* independent (a timeout may follow an accepted mail, an accepted mail may
\* be lost).  A failed mail ends a resend and not a generation.
Mail(r) ==
    /\ req[r].pc = "mail"
    /\ delivered' \in {delivered, delivered \cup {req[r].link}}
    /\ \/ Become(r, [req[r] EXCEPT !.pc = "mailWrite"])
       \/ Become(r, IF req[r].op = "generate"
                    THEN [req[r] EXCEPT !.pc = "emit", !.reply = "success"]
                    ELSE Answer(req[r], "failure"))
    /\ UNCHANGED <<redis, left, info, issued, accounts, counted>>

\* ... then updateMagicLink writes the request's own copy of the link with a
\* fresh time to live; a failed write is reported as a failed mail.
MailWrite(r) ==
    /\ req[r].pc = "mailWrite"
    /\ \/ /\ store' = [store EXCEPT ![req[r].link] = req[r].copy]
          /\ storeTTL' = [storeTTL EXCEPT ![req[r].link] = Expiry]
          /\ Become(r, IF req[r].op = "generate"
                       THEN [req[r] EXCEPT !.pc = "emit", !.reply = "success"]
                       ELSE [req[r] EXCEPT !.pc = "stampWrite"])
       \/ /\ RedisMayFail
          /\ Become(r, IF req[r].op = "generate"
                       THEN [req[r] EXCEPT !.pc = "emit", !.reply = "success"]
                       ELSE Answer(req[r], "failure"))
          /\ UNCHANGED <<store, storeTTL>>
    /\ UNCHANGED <<tokenTTL, index, indexTTL, daily, world>>

\* emitEvent: the answer is lost when the event cannot be stored.
Emit(r) ==
    /\ req[r].pc = "emit"
    /\ \/ /\ Become(r, Answer(req[r], req[r].reply))
          /\ UNCHANGED <<redis, world>>
       \/ Throw(r)

-----------------------------------------------------------------------------
(* verifyMagicLink.                                                        *)

ReadToken(r) ==
    /\ req[r].pc = "token"
    /\ \/ /\ tokenTTL[req[r].link] > 0
          /\ Become(r, [req[r] EXCEPT !.pc = "load"])
          /\ UNCHANGED <<redis, world>>
       \/ /\ tokenTTL[req[r].link] = 0
          /\ Become(r, Answer(req[r], "failure"))
          /\ UNCHANGED <<redis, world>>
       \/ Throw(r)

\* Faulty variant: the check for a used link is missing.
LoadIgnoringUsed(r) ==
    /\ req[r].pc = "load"
    /\ LET id == req[r].link IN
       \E seen \in Seen(id) :
          Become(r, IF seen \in {"absent", "revoked"}
                    THEN Answer(req[r], "failure")
                    ELSE [req[r] EXCEPT !.pc = "statusRead", !.cur = id,
                             !.goal = IF left[id] < 0 THEN "expired" ELSE "used"])
    /\ UNCHANGED <<redis, world>>

\* The checks of the status and of expiresAt, on what getMagicLink returned.
Load(r) ==
    /\ req[r].pc = "load"
    /\ LET id == req[r].link IN
       \E seen \in Seen(id) :
          Become(r, IF seen \in {"absent", "used", "revoked"}
                    THEN Answer(req[r], "failure")
                    ELSE [req[r] EXCEPT !.pc = "statusRead", !.cur = id,
                             !.goal = IF left[id] < 0 THEN "expired" ELSE "used"])
    /\ UNCHANGED <<redis, world>>

\* processMagicLinkAction.  Keycloak may refuse or fail at any point; a
\* registration may fail after the account was created.
Process(r) ==
    /\ req[r].pc = "process"
    /\ LET link == info[req[r].link]
           Succeed == Become(r, [req[r] EXCEPT !.pc = "emit", !.reply = "success", !.acted = TRUE])
           Refuse == Become(r, [req[r] EXCEPT !.pc = "emit", !.reply = "failure"])
       IN
       \/ Refuse /\ UNCHANGED accounts
       \/ /\ link.action \in {"login", "verify_email"} /\ link.hasUser
          /\ Succeed /\ UNCHANGED accounts
       \/ /\ link.action = "reset_password"
          /\ Succeed /\ UNCHANGED accounts
       \/ /\ link.action = "register" /\ AutoCreateUser /\ ~accounts[link.email]
          /\ accounts' = [accounts EXCEPT ![link.email] = TRUE]
          /\ Succeed \/ Refuse
    /\ UNCHANGED <<redis, left, info, issued, delivered, counted>>

-----------------------------------------------------------------------------
(* updateLinkStatus: reads the link again and writes it with the new       *)
(* status; a link that is not found is left alone.                         *)

ReadForStatus(r) ==
    /\ req[r].pc = "statusRead"
    /\ \E seen \in Seen(req[r].cur) :
          IF seen = "absent"
          THEN \E q \in AfterStatus([req[r] EXCEPT
                                        !.swallowed = @ \/ seen # store[req[r].cur]]) :
                  Become(r, q)
          ELSE Become(r, [req[r] EXCEPT !.pc = "statusWrite"])
    /\ UNCHANGED <<redis, world>>

\* Faulty variants: the link is written as it was read; a write that failed
\* is taken for one that did not.
WriteStatusStale(r) ==
    /\ req[r].pc = "statusWrite"
    /\ \/ /\ storeTTL' = [storeTTL EXCEPT ![req[r].cur] = IF store[req[r].cur] = "absent"
                                                          THEN 0 ELSE Expiry]
          /\ \E q \in AfterStatus(req[r]) : Become(r, q)
          /\ UNCHANGED <<store, tokenTTL, index, indexTTL, daily, world>>
       \/ Throw(r)

WriteStatusUnchecked(r) ==
    /\ req[r].pc = "statusWrite"
    /\ \/ /\ store' = [store EXCEPT ![req[r].cur] = req[r].goal]
          /\ storeTTL' = [storeTTL EXCEPT ![req[r].cur] = Expiry]
       \/ RedisMayFail /\ UNCHANGED <<store, storeTTL>>
    /\ \E q \in AfterStatus(req[r]) : Become(r, q)
    /\ UNCHANGED <<tokenTTL, index, indexTTL, daily, world>>

WriteStatus(r) ==
    /\ req[r].pc = "statusWrite"
    /\ \/ /\ store' = [store EXCEPT ![req[r].cur] = req[r].goal]
          /\ storeTTL' = [storeTTL EXCEPT ![req[r].cur] = Expiry]
          /\ \E q \in AfterStatus(req[r]) : Become(r, q)
          /\ UNCHANGED <<tokenTTL, index, indexTTL, daily, world>>
       \/ Throw(r)

-----------------------------------------------------------------------------
(* sendMagicLink: the mail of a link, once more.                           *)

\* Faulty variant: a closed link is opened again for the mail.
ResendReadReopening(r) ==
    /\ req[r].pc = "resendRead"
    /\ \E seen \in Seen(req[r].link) :
          Become(r, IF seen = "absent" THEN Answer(req[r], "failure")
                    ELSE [req[r] EXCEPT !.pc = "mail", !.copy = "pending"])
    /\ UNCHANGED <<redis, world>>

ResendRead(r) ==
    /\ req[r].pc = "resendRead"
    /\ LET id == req[r].link IN
       \E seen \in Seen(id) :
          Become(r, CASE seen = "absent" -> Answer(req[r], "failure")
                      [] seen # "absent" /\ left[id] < 0 ->
                            [req[r] EXCEPT !.pc = "statusRead", !.cur = id, !.goal = "expired"]
                      [] left[id] >= 0 /\ seen \in {"used", "revoked"} ->
                            Answer(req[r], "failure")
                      [] OTHER -> [req[r] EXCEPT !.pc = "mail", !.copy = seen])
    /\ UNCHANGED <<redis, world>>

\* The second updateMagicLink, that of sendMagicLink itself.
StampWrite(r) ==
    /\ req[r].pc = "stampWrite"
    /\ \/ /\ store' = [store EXCEPT ![req[r].link] = req[r].copy]
          /\ storeTTL' = [storeTTL EXCEPT ![req[r].link] = Expiry]
          /\ Become(r, Answer(req[r], "success"))
          /\ UNCHANGED <<tokenTTL, index, indexTTL, daily, world>>
       \/ Throw(r)

-----------------------------------------------------------------------------
(* cleanupExpiredLinks and deleteMagicLink.                                *)

Keys(r) ==
    /\ req[r].pc = "keys"
    /\ \E found \in {{id \in Links : store[id] # "absent"}}
                       \cup (IF RedisMayFail THEN {{}} ELSE {}) :
          Become(r, [req[r] EXCEPT !.pc = "cleanScan", !.todo = found])
    /\ UNCHANGED <<redis, world>>

\* Faulty variants: a link counts as expired in its last tick; a link that
\* is not found is tried again.
CleanScanEarly(r) ==
    /\ req[r].pc = "cleanScan"
    /\ \/ /\ req[r].todo = {}
          /\ Become(r, Answer(req[r], "success"))
       \/ \E id \in req[r].todo : \E seen \in Seen(id) :
             Become(r, [req[r] EXCEPT !.todo = req[r].todo \ {id}, !.cur = id,
                           !.pc = IF seen # "absent" /\ left[id] <= 0 THEN "deleteRead"
                                                                      ELSE "cleanScan"])
    /\ UNCHANGED <<redis, world>>

CleanScanRetrying(r) ==
    /\ req[r].pc = "cleanScan"
    /\ \/ /\ req[r].todo = {}
          /\ Become(r, Answer(req[r], "success"))
       \/ \E id \in req[r].todo : \E seen \in Seen(id) \ {"absent"} :
             Become(r, [req[r] EXCEPT !.todo = req[r].todo \ {id}, !.cur = id,
                           !.pc = IF left[id] < 0 THEN "deleteRead" ELSE "cleanScan"])
    /\ UNCHANGED <<redis, world>>

CleanScan(r) ==
    /\ req[r].pc = "cleanScan"
    /\ \/ /\ req[r].todo = {}
          /\ Become(r, Answer(req[r], "success"))
       \/ \E id \in req[r].todo : \E seen \in Seen(id) :
             Become(r, [req[r] EXCEPT !.todo = req[r].todo \ {id}, !.cur = id,
                           !.pc = IF seen # "absent" /\ left[id] < 0 THEN "deleteRead"
                                                                     ELSE "cleanScan"])
    /\ UNCHANGED <<redis, world>>

DeleteRead(r) ==
    /\ req[r].pc = "deleteRead"
    /\ \E seen \in Seen(req[r].cur) :
          Become(r, [req[r] EXCEPT !.pc = IF seen = "absent" THEN "cleanScan" ELSE "deleteLink"])
    /\ UNCHANGED <<redis, world>>

DeleteLink(r) ==
    /\ req[r].pc = "deleteLink"
    /\ \/ /\ store' = [store EXCEPT ![req[r].cur] = "absent"]
          /\ storeTTL' = [storeTTL EXCEPT ![req[r].cur] = 0]
          /\ Become(r, [req[r] EXCEPT !.pc = "deleteToken"])
          /\ UNCHANGED <<tokenTTL, index, indexTTL, daily, world>>
       \/ Throw(r)

DeleteToken(r) ==
    /\ req[r].pc = "deleteToken"
    /\ \/ /\ tokenTTL' = [tokenTTL EXCEPT ![req[r].cur] = 0]
          /\ Become(r, [req[r] EXCEPT !.pc = "deleteIndex"])
          /\ UNCHANGED <<store, storeTTL, index, indexTTL, daily, world>>
       \/ Throw(r)

DeleteIndex(r) ==
    /\ req[r].pc = "deleteIndex"
    /\ LET e == info[req[r].cur].email
           rest == index[e] \ {req[r].cur} IN
       \/ /\ index' = [index EXCEPT ![e] = rest]
          /\ indexTTL' = [indexTTL EXCEPT ![e] = IF rest = {} THEN NoTTL ELSE @]
       \/ RedisMayFail /\ UNCHANGED <<index, indexTTL>>
    /\ Become(r, [req[r] EXCEPT !.pc = "cleanScan"])
    /\ UNCHANGED <<store, storeTTL, tokenTTL, daily, world>>

-----------------------------------------------------------------------------
(* Time.                                                                   *)

Less(n) == IF n = 0 THEN 0 ELSE n - 1

\* Faulty variants: a key outlives its time; the counter's key lacks the date.
TickLate ==
    /\ storeTTL' = [id \in Links |-> Less(storeTTL[id])]
    /\ store' = [id \in Links |-> IF storeTTL[id] = 0 THEN "absent" ELSE store[id]]
    /\ left' = [id \in Links |-> IF left[id] = -1 THEN -1 ELSE left[id] - 1]
    /\ UNCHANGED <<tokenTTL, index, indexTTL, daily, info, issued, accounts, delivered,
                   counted, req>>

MidnightSameKey ==
    /\ counted' = [e \in Emails |-> 0]
    /\ UNCHANGED <<redis, left, info, issued, accounts, delivered, req>>

\* A tick of the clock; Redis drops the keys whose time to live is over.
Tick ==
    /\ storeTTL' = [id \in Links |-> Less(storeTTL[id])]
    /\ store' = [id \in Links |-> IF storeTTL[id] <= 1 THEN "absent" ELSE store[id]]
    /\ tokenTTL' = [id \in Links |-> Less(tokenTTL[id])]
    /\ indexTTL' = [e \in Emails |-> IF indexTTL[e] \in {1, NoTTL} THEN NoTTL ELSE indexTTL[e] - 1]
    /\ index' = [e \in Emails |-> IF indexTTL[e] = 1 THEN {} ELSE index[e]]
    /\ left' = [id \in Links |-> IF left[id] = -1 THEN -1 ELSE left[id] - 1]
    /\ UNCHANGED <<daily, info, issued, accounts, delivered, counted, req>>

\* A new day: new counters; a counter key computed before is yesterday's.
Midnight ==
    /\ daily' = [e \in Emails |-> 0]
    /\ counted' = [e \in Emails |-> 0]
    /\ req' = [r \in Requests |-> IF req[r].pc = "countWrite"
                                  THEN [req[r] EXCEPT !.today = FALSE] ELSE req[r]]
    /\ UNCHANGED <<store, storeTTL, tokenTTL, index, indexTTL,
                   left, info, issued, accounts, delivered>>

-----------------------------------------------------------------------------
(* The overlaps that break the guarantees of the service, as history.      *)

\* s has read or created link id and will write its own copy back.
Sender(s, id) ==
    /\ req[s].link = id
    /\ \/ /\ req[s].op = "generate"
          /\ req[s].pc \in {"storeToken", "storeIndex", "expireIndex", "countRead",
                            "countWrite", "mail", "mailWrite"}
       \/ /\ req[s].op = "resend"
          /\ req[s].pc \in {"mail", "mailWrite", "stampWrite"}

\* r has found link id open and is about to mark it used.
Permit(r, id) ==
    /\ req[r].op = "verify" /\ req[r].link = id /\ req[r].goal = "used"
    /\ req[r].pc \in {"statusRead", "statusWrite"}

\* r is about to write a new status of link id.
Closer(r, id) == req[r].cur = id /\ req[r].pc \in {"statusRead", "statusWrite"}

Overlap(id) ==
    \/ \E s, r \in Requests : Sender(s, id) /\ Closer(r, id)
    \/ \E p, q \in Requests : p # q /\ Permit(p, id) /\ Permit(q, id)
    \/ \E r \in Requests : /\ req[r].op \in {"verify", "revoke"} /\ req[r].link = id
                           /\ req[r].swallowed

\* g is between its look at the index and the entry of its own link.
Replacing(g, e) ==
    /\ req[g].op = "generate" /\ req[g].email = e
    /\ req[g].pc \in {"members", "scan", "statusRead", "statusWrite", "storeLink",
                      "storeToken", "storeIndex"}

Unsettled(e) ==
    \/ \E g, h \in Requests : g # h /\ Replacing(g, e) /\ Replacing(h, e)
    \/ \E g \in Requests : req[g].op = "generate" /\ req[g].email = e /\ req[g].swallowed
    \/ \E g \in Requests : /\ req[g].op = "generate" /\ req[g].email = e
                           /\ req[g].pc = "expireIndex" /\ req[g].link \notin index[e]
    \/ \E id \in Links : /\ info[id].email = e
                         /\ \/ conflict[id]
                            \/ \E s \in Requests : Sender(s, id) /\ store[id] = "absent"

History ==
    /\ conflict' = [id \in Links |-> conflict[id] \/ Overlap(id)']
    /\ unsettled' = [e \in Emails |-> unsettled[e] \/ Unsettled(e)']

-----------------------------------------------------------------------------

Init ==
    /\ store = [id \in Links |-> "absent"]
    /\ storeTTL = [id \in Links |-> 0]
    /\ tokenTTL = [id \in Links |-> 0]
    /\ index = [e \in Emails |-> {}]
    /\ indexTTL = [e \in Emails |-> NoTTL]
    /\ daily = [e \in Emails |-> 0]
    /\ left = [id \in Links |-> -1]
    /\ info = [id \in Links |-> [email |-> None, action |-> None, hasUser |-> FALSE]]
    /\ issued = {}
    /\ accounts \in [Emails -> BOOLEAN]
    /\ delivered = {}
    /\ req = [r \in Requests |-> IdleRequest]
    /\ counted = [e \in Emails |-> 0]
    /\ conflict = [id \in Links |-> FALSE]
    /\ unsettled = [e \in Emails |-> FALSE]

-----------------------------------------------------------------------------
(* Who calls.  mu-auth runs two of these services, whose keys have prefixes *)
(* of their own: one behind the REST routes, and one behind the GraphQL     *)
(* mutations that generate and verify, while those that revoke and clean up *)
(* go to the first.  The module is either: the second sees a part of it.    *)

\* magic-link/generate and magic-link/verify.
LinkRoutes(r) == StartGenerate(r) \/ StartVerify(r)

\* magic-link/:linkId (revoke), passwordless/initiate, magic-link/cleanup.
AdministrationRoutes(r) == StartRevoke(r) \/ StartGenerate(r) \/ StartCleanup(r)

\* generateMagicLink and verifyMagicLink: the second service.
LinkMutations(r) == StartGenerate(r) \/ StartVerify(r)

\* initiatePasswordlessAuth, of the second service; revokeMagicLink and
\* cleanupExpiredMagicLinks, of the first.
AdministrationMutations(r) == StartGenerate(r) \/ StartRevoke(r) \/ StartCleanup(r)

\* MagicLinkIntegrationService forwards the calls.  Nothing in mu-auth resends.
Start(r) ==
    \/ LinkRoutes(r) \/ AdministrationRoutes(r)
    \/ LinkMutations(r) \/ AdministrationMutations(r)
    \/ StartResend(r)

Advance(r) ==
    \/ CheckLimit(r) \/ Lookup(r) \/ Members(r) \/ Scan(r)
    \/ StoreLink(r) \/ StoreToken(r) \/ StoreIndex(r) \/ ExpireIndex(r)
    \/ CountRead(r) \/ CountWrite(r) \/ Mail(r) \/ MailWrite(r) \/ Emit(r)
    \/ ReadToken(r) \/ Load(r) \/ Process(r)
    \/ ReadForStatus(r) \/ WriteStatus(r)
    \/ ResendRead(r) \/ StampWrite(r)
    \/ Keys(r) \/ CleanScan(r) \/ DeleteRead(r)
    \/ DeleteLink(r) \/ DeleteToken(r) \/ DeleteIndex(r)

Work(r) == Advance(r) /\ History

Next ==
    \/ \E r \in Requests : Start(r) /\ History
    \/ \E r \in Requests : Work(r)
    \/ (Tick \/ Midnight) /\ History

Spec == Init /\ [][Next]_vars

\* The runtime resumes a call whose awaited result (or failure) has come; it
\* owes no client a new call and no clock a tick.
FairSpec == Spec /\ \A r \in Requests : WF_vars(Work(r))

-----------------------------------------------------------------------------
(* Properties.                                                             *)

Request ==
    [pc : PCs, op : Ops \cup {None}, email : Emails \cup {None},
     action : Actions \cup {None}, hasUser : BOOLEAN,
     link : Links \cup {None}, cur : Links \cup {None},
     goal : Statuses, copy : Stored, todo : SUBSET Links, pend : SUBSET Links,
     count : Nat, today : BOOLEAN, reply : {None, "success", "failure"},
     acted : BOOLEAN, swallowed : BOOLEAN]

LinkInfo == [email : Emails \cup {None}, action : Actions \cup {None}, hasUser : BOOLEAN]

\* Types, and what the encoding of Redis keys relies on: a key is absent
\* exactly when it has no time left.
TypeOK ==
    /\ store \in [Links -> Stored]
    /\ storeTTL \in [Links -> 0..Expiry]
    /\ tokenTTL \in [Links -> 0..Expiry]
    /\ index \in [Emails -> SUBSET Links]
    /\ indexTTL \in [Emails -> 1..NoTTL]
    /\ daily \in [Emails -> Nat]
    /\ left \in [Links -> -1..Expiry]
    /\ info \in [Links -> LinkInfo]
    /\ issued \subseteq Links
    /\ accounts \in [Emails -> BOOLEAN]
    /\ delivered \subseteq Links
    /\ req \in [Requests -> Request]
    /\ counted \in [Emails -> Nat]
    /\ conflict \in [Links -> BOOLEAN]
    /\ unsettled \in [Emails -> BOOLEAN]
    /\ \A id \in Links : store[id] = "absent" <=> storeTTL[id] = 0

\* A link its reader could still get in with.
Usable(id) ==
    id \in delivered /\ store[id] = "pending" /\ tokenTTL[id] > 0 /\ left[id] >= 0

Won(r, id) == req[r].op = "verify" /\ req[r].link = id /\ req[r].acted

\* verifyMagicLink refuses a used link ("Magic link has already been used"):
\* a link lets at most one verification in, unless two verifications passed
\* the checks before either wrote, a status write met a mailer that holds an
\* older copy, or Redis failed inside updateLinkStatus.
SingleUse ==
    \A id \in Links : ~conflict[id] =>
        \A r, q \in Requests : Won(r, id) /\ Won(q, id) => r = q

\* revokeMagicLink: once a revocation has answered "success" no verification
\* that starts can get in with the link, whatever a mailer still holds, under
\* the same proviso.
RevocationHolds ==
    \A r \in Requests :
        LET id == req[r].link IN
        /\ req[r].op = "revoke" /\ req[r].pc = "done" /\ req[r].reply = "success"
        /\ ~conflict[id]
        => ~Usable(id)

\* revokeExistingLinks: an address has at most one usable link, unless two
\* generations for it overlapped, the index expired between SADD and EXPIRE,
\* a mail took longer than the link's key lives, or a failure of Redis was
\* taken for an empty answer.
OneUsableLink ==
    \A e \in Emails : ~unsettled[e] =>
        \A id, other \in Links :
            /\ info[id].email = e /\ info[other].email = e
            /\ Usable(id) /\ Usable(other)
            => id = other

\* incrementDailyCounter: lost updates only ever undercount, so that nobody
\* is refused by checkDailyLimit before the limit was really reached.
CounterNeverOvercharges == \A e \in Emails : daily[e] <= counted[e]

\* cleanupExpiredLinks works on what it read before; what it deletes is
\* expired whatever happened since.
CleanupSparesLive ==
    \A r \in Requests :
        req[r].pc \in {"deleteRead", "deleteLink", "deleteToken", "deleteIndex"}
        => left[req[r].cur] < 0

\* A link that was used, revoked or expired never becomes usable again,
\* outside the named overlaps.
ClosedStaysClosed ==
    [][\A id \in Links :
          store[id] \in {"used", "revoked", "expired"} /\ ~conflict'[id] => ~Usable(id)']_vars

\* Every call answers: the loops over links end and no step waits for
\* another request.
EveryCallAnswers ==
    \A r \in Requests : req[r].pc # "idle" ~> req[r].pc = "done"
=============================================================================
