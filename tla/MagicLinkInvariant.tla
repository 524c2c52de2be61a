------------------------- MODULE MagicLinkInvariant -------------------------
(* The inductive invariants of MagicLink, checked by TLC on instances and   *)
(* proved in MagicLinkProofs: IInv behind SingleUse, RevocationHolds and    *)
(* ClosedStaysClosed; CountsBehind and LinksInv behind the daily counter,   *)
(* the clean-up and the one usable link of an address.                     *)
EXTENDS MagicLink

\* Which call is at which step, and what its locals are good for there.
Control(q) ==
    /\ q.pc = "idle" => q.op = None
    /\ q.pc \in {"checkLimit", "lookup", "members", "scan", "storeLink", "storeToken",
                 "storeIndex", "expireIndex", "countRead", "countWrite"}
       => q.op = "generate"
    /\ q.pc \in {"mail", "mailWrite"} => q.op \in {"generate", "resend"}
    /\ q.pc \in {"resendRead", "stampWrite"} => q.op = "resend"
    /\ q.pc \in {"token", "load", "process"} => q.op = "verify"
    /\ q.pc = "emit" => q.op \in {"generate", "verify"}
    /\ q.pc \in {"statusRead", "statusWrite"} =>
          /\ q.cur \in Links
          /\ \/ q.op = "generate" /\ q.goal = "revoked"
             \/ q.op = "revoke" /\ q.goal = "revoked" /\ q.cur = q.link
             \/ q.op = "verify" /\ q.goal \in {"used", "expired"} /\ q.cur = q.link
             \/ q.op = "resend" /\ q.goal = "expired" /\ q.cur = q.link
    /\ q.pc \in {"keys", "cleanScan", "deleteRead", "deleteLink", "deleteToken", "deleteIndex"}
       => q.op = "cleanup"
    /\ q.pc \in {"deleteRead", "deleteLink", "deleteToken", "deleteIndex"} => q.cur \in Links
    /\ q.op = "generate" => q.link \in Links /\ (q.pc # "done" => q.email \in Emails)
    /\ q.op \in {"verify", "resend", "revoke"} => q.link \in Links
    /\ q.acted => q.op = "verify" /\ q.pc \in {"emit", "done"}

ControlOK == \A r \in Requests : Control(req[r])

\* g has drawn its link but not stored it yet.
Unstored(g) ==
    /\ req[g].op = "generate"
    /\ req[g].pc \in {"checkLimit", "lookup", "members", "scan",
                      "statusRead", "statusWrite", "storeLink"}

\* No call knows a link before its generation has stored it.
FreshLinks ==
    /\ \A g \in Requests : req[g].op = "generate" => req[g].link \in issued
    /\ \A g, h \in Requests :
          req[g].op = "generate" /\ req[h].op = "generate" /\ req[g].link = req[h].link => g = h
    /\ \A g \in Requests : Unstored(g) => info[req[g].link].email = None
    /\ \A g \in Requests :
          req[g].op = "generate" /\ ~Unstored(g) /\ req[g].pc # "done"
          => info[req[g].link].email # None
    /\ \A r \in Requests :
          req[r].op \in {"verify", "resend", "revoke"} => info[req[r].link].email # None
    /\ \A id \in delivered : info[id].email # None
    /\ \A id \in Links : info[id].email # None => id \in issued

OverlapNoted == \A id \in Links : Overlap(id) => conflict[id]

\* "expired" is written of expired links only, and only pending links are
\* mailed.
ExpiryOK ==
    /\ \A id \in Links : store[id] = "expired" => left[id] < 0
    /\ \A r \in Requests :
          req[r].pc \in {"statusRead", "statusWrite"} /\ req[r].goal = "expired"
          => left[req[r].cur] < 0
    /\ \A s \in Requests : Unstored(s) => req[s].copy = "pending"
    /\ \A s \in Requests, id \in Links : Sender(s, id) => req[s].copy = "pending"

\* r has been let through by link id.
Consumer(r, id) ==
    req[r].op = "verify" /\ req[r].link = id /\ (req[r].pc = "process" \/ req[r].acted)

\* A revocation that was told it succeeded.
Settled(q) == q.op = "revoke" /\ q.pc = "done" /\ q.reply = "success"

Shut(id) == store[id] = "pending" => left[id] < 0

\* Without a conflict, the first consumer of a link is alone with a link
\* that is shut, a revoked link has no mailer that could write it back, and
\* no mailer meets a link that was closed.
Exclusive ==
    \A id \in Links : ~conflict[id] =>
        /\ \A r \in Requests : Consumer(r, id) =>
              /\ Shut(id)
              /\ \A s \in Requests : ~Sender(s, id)
              /\ \A q \in Requests : q # r => ~Permit(q, id) /\ ~Consumer(q, id)
        /\ \A r \in Requests : Settled(req[r]) /\ req[r].link = id =>
              /\ store[id] # "pending"
              /\ \A s \in Requests : ~Sender(s, id)
        /\ \A s \in Requests : Sender(s, id) => store[id] \in {"pending", "absent"}

IInv == TypeOK /\ ControlOK /\ FreshLinks /\ OverlapNoted /\ ExpiryOK /\ Exclusive

-----------------------------------------------------------------------------
(* The inductive invariants behind CounterNeverOvercharges, on its own,    *)
(* and behind CleanupSparesLive and OneUsableLink, on top of IInv.         *)

\* A generation that has read the counter writes no more than it counts.
CountsBehind ==
    /\ \A e \in Emails : daily[e] <= counted[e]
    /\ \A r \in Requests :
          req[r].pc = "countWrite" /\ req[r].today => req[r].count <= counted[req[r].email]

Deleting == {"deleteRead", "deleteLink", "deleteToken", "deleteIndex"}

\* What status writes and the clean-up work on was stored once, and is over
\* when the clean-up deletes it.
KnownLinks ==
    /\ \A id \in Links : store[id] # "absent" => info[id].email # None
    /\ \A r \in Requests : \A id \in req[r].pend : info[id].email # None
    /\ \A r \in Requests :
          req[r].pc \in {"statusRead", "statusWrite"} => info[req[r].cur].email # None
    /\ \A r \in Requests :
          req[r].pc \in Deleting => info[req[r].cur].email # None /\ left[req[r].cur] < 0

\* A link has no token before its generation stores it.
FreshTokens ==
    \A id \in Links : tokenTTL[id] > 0 =>
        /\ id \in issued
        /\ \A g \in Requests : req[g].op = "generate" /\ req[g].link = id
                              => ~Unstored(g) /\ req[g].pc # "storeToken"

\* A generation works for the address its link is stored for.
OwnAddress ==
    \A g \in Requests :
        req[g].op = "generate" /\ ~Unstored(g) /\ req[g].pc # "done"
        => info[req[g].link].email = req[g].email

UnsettledNoted == \A e \in Emails : Unsettled(e) => unsettled[e]

\* The links a token of which still lets somebody in, mailed or not.
Live(id) == store[id] = "pending" /\ tokenTTL[id] > 0 /\ left[id] >= 0
LiveOf(e) == {id \in Links : info[id].email = e /\ Live(id)}

\* Generation h has drawn link id and is at a step.
Generates(h, id, step) == req[h].op = "generate" /\ req[h].link = id /\ req[h].pc = step

\* revokeExistingLinks will find a live link: it is in the index, which lives
\* as long as the token, or its generation is on the way there.
Indexed(id, e) ==
    \/ \E h \in Requests : Generates(h, id, "storeIndex")
    \/ /\ id \in index[e]
       /\ \/ tokenTTL[id] <= indexTTL[e]
          \/ \E h \in Requests : Generates(h, id, "expireIndex")

\* What revokeExistingLinks has still to look at or to revoke.
ToRevoke(q) == q.pend \cup (IF q.pc = "scan" THEN q.todo ELSE {q.cur})

\* An address has one live link, which a generation for the address still has
\* to revoke until it stores its own.
OneLive(e) ==
    /\ \A id, other \in LiveOf(e) : id = other
    /\ \A id \in LiveOf(e) : Indexed(id, e)
    /\ \A g \in Requests : req[g].op = "generate" /\ req[g].email = e =>
          /\ req[g].pc \in {"scan", "statusRead", "statusWrite"} => LiveOf(e) \subseteq ToRevoke(req[g])
          /\ req[g].pc \in {"storeLink", "storeToken"} => LiveOf(e) = {}

OneLiveEach == \A e \in Emails : ~unsettled[e] => OneLive(e)

LinksInv == IInv /\ KnownLinks /\ FreshTokens /\ OwnAddress /\ UnsettledNoted /\ OneLiveEach
=============================================================================
