-------------------------- MODULE MagicLinkProofs --------------------------
(* Theorems about MagicLink, for any number of requests, links, addresses, *)
(* any lifetimes and limits, with or without failures of Redis.            *)
EXTENDS MagicLinkInvariant, TLAPS

(***************************************************************************)
(* Requests.  Like: q is p at another step.  Quiet: going from p to q      *)
(* takes up no new part in the overlaps, and lets nobody in.               *)
(***************************************************************************)
Early == {"checkLimit", "lookup", "members", "scan", "statusRead", "statusWrite", "storeLink"}
Late == {"storeToken", "storeIndex", "expireIndex", "countRead", "countWrite", "mail", "mailWrite"}
AtStatus == {"statusRead", "statusWrite"}

Like(p, q) ==
    /\ q.op = p.op /\ q.email = p.email /\ q.link = p.link
    /\ q.copy = p.copy /\ q.acted = p.acted

Quiet(p, q) ==
    /\ q.op = p.op /\ q.link = p.link
    /\ q.pc # "done" =>
          /\ p.pc # "done" /\ q.copy = p.copy
          /\ p.op = "generate" => (q.pc \in Early <=> p.pc \in Early)
          /\ p.op = "generate" /\ q.pc \in Late => p.pc \in Late
          /\ p.op = "resend" /\ q.pc \in {"mail", "mailWrite", "stampWrite"}
             => p.pc \in {"mail", "mailWrite", "stampWrite"}
    /\ q.pc \in AtStatus /\ q.goal \in {"used", "expired"}
       => p.pc \in AtStatus /\ p.goal = q.goal /\ p.cur = q.cur
    /\ q.pc = "process" \/ q.acted => p.pc = "process" \/ p.acted
    /\ Settled(q) => Settled(p)

LEMMA IdleType == IdleRequest \in Request
  BY DEF IdleRequest, Request, PCs, Statuses, Stored

LEMMA DoneType ==
    ASSUME NEW op \in Ops \cup {None}, NEW link \in Links \cup {None}, NEW acted \in BOOLEAN,
           NEW swallowed \in BOOLEAN, NEW reply \in {None, "success", "failure"}
    PROVE  [IdleRequest EXCEPT !.pc = "done", !.op = op, !.link = link,
                !.reply = reply, !.acted = acted, !.swallowed = swallowed] \in Request
  BY DEF IdleRequest, Request, PCs, Statuses, Stored

LEMMA AnswerFields ==
    ASSUME NEW p \in Request, NEW reply \in {None, "success", "failure"},
           NEW q, q = Answer(p, reply)
    PROVE  /\ q \in Request /\ q.pc = "done" /\ q.op = p.op /\ q.link = p.link
           /\ q.acted = p.acted /\ q.reply = reply /\ q.swallowed = p.swallowed
<1>1. /\ p.op \in Ops \cup {None} /\ p.link \in Links \cup {None}
      /\ p.acted \in BOOLEAN /\ p.swallowed \in BOOLEAN
  BY DEF Request
<1>2. q \in Request
  <2>1. \A op \in Ops \cup {None}, link \in Links \cup {None},
           acted \in BOOLEAN, swallowed \in BOOLEAN :
            [IdleRequest EXCEPT !.pc = "done", !.op = op, !.link = link,
                 !.reply = reply, !.acted = acted, !.swallowed = swallowed] \in Request
    BY DoneType
  <2>2. [IdleRequest EXCEPT !.pc = "done", !.op = p.op, !.link = p.link,
             !.reply = reply, !.acted = p.acted, !.swallowed = p.swallowed] \in Request
    BY <1>1, <2>1
  <2>3. QED
    BY <2>2 DEF Answer
<1>3. /\ q.pc = "done" /\ q.op = p.op /\ q.link = p.link
      /\ q.acted = p.acted /\ q.reply = reply /\ q.swallowed = p.swallowed
  BY DEF Answer, IdleRequest
<1>4. QED
  BY <1>2, <1>3

LEMMA AnswerQuiet ==
    ASSUME NEW p \in Request, Control(p), p.pc # "done",
           NEW reply \in {None, "success", "failure"}, p.op # "revoke" \/ reply = "failure",
           NEW q, q = Answer(p, reply)
    PROVE  q \in Request /\ Control(q) /\ Quiet(p, q)
<1>1. /\ q \in Request /\ q.pc = "done" /\ q.op = p.op /\ q.link = p.link
      /\ q.acted = p.acted /\ q.reply = reply
  BY AnswerFields
<1>2. QED
  BY <1>1 DEF Control, Quiet, AtStatus, Settled

LEMMA QuietTransitive ==
    ASSUME NEW p \in Request, NEW x \in Request, NEW q \in Request,
           Quiet(p, x), Quiet(x, q), x.pc # "done"
    PROVE  Quiet(p, q)
  BY DEF Quiet

LEMMA RevokeOrStoreQuiet ==
    ASSUME NEW p \in Request, Control(p), p.op = "generate", p.pc \in Early,
           NEW q \in RevokeOrStore(p)
    PROVE  q \in Request /\ Control(q) /\ Quiet(p, q)
<1>1. CASE p.pend = {}
  <2>1. "storeLink" \in PCs
    BY DEF PCs
  <2>2. q \in Request /\ q.pc = "storeLink" /\ Like(p, q)
    BY <1>1, <2>1 DEF RevokeOrStore, Request, Like
  <2>3. QED
    BY <2>2 DEF Like, Control, Quiet, Early, Late, AtStatus, Settled
<1>2. CASE p.pend # {}
  <2>1. PICK id \in p.pend : q = [p EXCEPT !.pc = "statusRead", !.cur = id, !.goal = "revoked",
                                           !.pend = p.pend \ {id}]
    BY <1>2 DEF RevokeOrStore
  <2>2. id \in Links /\ p.pend \ {id} \in SUBSET Links
        /\ "statusRead" \in PCs /\ "revoked" \in Statuses
    BY DEF Request, PCs, Statuses
  <2>3. q \in Request /\ q.pc = "statusRead" /\ q.goal = "revoked" /\ q.cur = id /\ Like(p, q)
    BY <2>1, <2>2 DEF Request, Like
  <2>4. QED
    BY <2>2, <2>3 DEF Like, Control, Quiet, Early, Late, AtStatus, Settled
<1>3. QED
  BY <1>1, <1>2

LEMMA ScanOrRevokeQuiet ==
    ASSUME NEW p \in Request, Control(p), p.op = "generate", p.pc \in Early,
           NEW q \in ScanOrRevoke(p)
    PROVE  q \in Request /\ Control(q) /\ Quiet(p, q)
<1>1. CASE p.todo = {}
  BY <1>1, RevokeOrStoreQuiet DEF ScanOrRevoke
<1>2. CASE p.todo # {}
  <2>1. "scan" \in PCs
    BY DEF PCs
  <2>2. q \in Request /\ q.pc = "scan" /\ Like(p, q)
    BY <1>2, <2>1 DEF ScanOrRevoke, Request, Like
  <2>3. QED
    BY <2>2 DEF Like, Control, Quiet, Early, Late, AtStatus, Settled
<1>3. QED
  BY <1>1, <1>2

\* After a status: the next link, the verification's action, or the answer.
LEMMA AfterStatusMoves ==
    ASSUME NEW p \in Request, Control(p), p.pc \in AtStatus,
           NEW q \in AfterStatus(p)
    PROVE  /\ q \in Request /\ Control(q)
           /\ \/ Quiet(p, q)
              \/ /\ p.op = "verify" /\ p.goal = "used" /\ q.pc = "process"
                 /\ Like(p, q) /\ q.swallowed = p.swallowed
              \/ /\ p.op = "revoke" /\ q.pc = "done" /\ q.op = "revoke" /\ q.link = p.link
                 /\ ~q.acted /\ q.swallowed = p.swallowed
<1>0. p.pc # "done" /\ p.pc \in Early /\ ~p.acted
  BY DEF AtStatus, Early, Control, Request
<1>1. CASE p.op = "generate"
  BY <1>0, <1>1, RevokeOrStoreQuiet DEF AfterStatus
<1>2. CASE p.op = "verify" /\ p.goal = "used"
  <2>1. "process" \in PCs
    BY DEF PCs
  <2>2. q = [p EXCEPT !.pc = "process"]
    BY <1>2 DEF AfterStatus
  <2>3. q \in Request /\ q.pc = "process" /\ Like(p, q) /\ q.swallowed = p.swallowed
    BY <2>1, <2>2 DEF Request, Like
  <2>4. Control(q)
    BY <2>3, <1>2 DEF Like, Control, AtStatus
  <2>5. QED
    BY <1>2, <2>3, <2>4
<1>3. CASE p.op = "revoke"
  <2>1. q = Answer(p, "success")
    BY <1>3 DEF AfterStatus
  <2>2. /\ q \in Request /\ q.pc = "done" /\ q.op = p.op /\ q.link = p.link
        /\ q.acted = p.acted /\ q.swallowed = p.swallowed
    BY <2>1, AnswerFields
  <2>3. Control(q)
    BY <1>0, <1>3, <2>2 DEF Control
  <2>4. QED
    BY <1>0, <1>3, <2>2, <2>3
<1>4. CASE p.op \notin {"generate", "revoke"} /\ ~(p.op = "verify" /\ p.goal = "used")
  <2>1. q = Answer(p, "failure")
    BY <1>4 DEF AfterStatus
  <2>2. QED
    BY <2>1, <1>0, AnswerQuiet
<1>5. QED
  BY <1>1, <1>2, <1>3, <1>4

-----------------------------------------------------------------------------
(* What each step makes of its request.                                    *)

Moved(r) == \E q \in Request : Become(r, q) /\ Control(q) /\ Quiet(req[r], q)

LEMMA Running ==
    ASSUME TypeOK, ControlOK, NEW r \in Requests
    PROVE  req[r] \in Request /\ Control(req[r])
  BY DEF TypeOK, ControlOK

\* A step that only goes on to the next pc.
LEMMA NextPC ==
    ASSUME NEW p \in Request, Control(p), NEW q \in Request, Like(p, q),
           \/ p.pc = "checkLimit" /\ q.pc = "lookup"
           \/ p.pc = "lookup" /\ q.pc = "members"
           \/ p.pc = "storeToken" /\ q.pc = "storeIndex"
           \/ p.pc = "storeIndex" /\ q.pc = "expireIndex"
           \/ p.pc = "expireIndex" /\ q.pc = "countRead"
           \/ p.pc = "countRead" /\ q.pc = "countWrite"
           \/ p.pc = "countWrite" /\ q.pc = "mail"
           \/ p.pc = "mail" /\ q.pc = "mailWrite"
           \/ p.pc \in {"mail", "mailWrite"} /\ p.op = "generate" /\ q.pc = "emit"
           \/ p.pc = "mailWrite" /\ p.op # "generate" /\ q.pc = "stampWrite"
           \/ p.pc = "token" /\ q.pc = "load"
           \/ p.pc = "process" /\ q.pc = "emit"
           \/ p.pc = "keys" /\ q.pc = "cleanScan"
           \/ p.pc = "deleteRead" /\ q.pc \in {"cleanScan", "deleteLink"} /\ q.cur = p.cur
           \/ p.pc = "deleteLink" /\ q.pc = "deleteToken" /\ q.cur = p.cur
           \/ p.pc = "deleteToken" /\ q.pc = "deleteIndex" /\ q.cur = p.cur
           \/ p.pc = "deleteIndex" /\ q.pc = "cleanScan"
           \/ p.pc = "cleanScan" /\ q.pc \in {"cleanScan", "deleteRead"} /\ q.cur \in Links
    PROVE  Control(q) /\ Quiet(p, q)
<1>1. Control(q)
  BY DEF Like, Control
<1>2. Quiet(p, q)
  BY DEF Like, Control, Quiet, Early, Late, AtStatus, Settled
<1>3. QED
  BY <1>1, <1>2

LEMMA ThrowMoves ==
    ASSUME TypeOK, ControlOK, NEW r \in Requests, Throw(r), req[r].pc # "done"
    PROVE  Moved(r)
  BY Running, AnswerQuiet DEF Throw, Moved

LEMMA CheckLimitMoves ==
    ASSUME TypeOK, ControlOK, NEW r \in Requests, CheckLimit(r)
    PROVE  Moved(r)
<1> DEFINE p == req[r]
<1>1. p \in Request /\ Control(p) /\ p.pc = "checkLimit"
  BY Running DEF CheckLimit
<1>2. CASE Become(r, [p EXCEPT !.pc = "lookup"])
  <2> DEFINE q == [p EXCEPT !.pc = "lookup"]
  <2>1. "lookup" \in PCs
    BY DEF PCs
  <2>2. q \in Request /\ q.pc = "lookup" /\ Like(p, q)
    BY <1>1, <2>1 DEF Request, Like
  <2>3. QED
    BY <1>1, <1>2, <2>2, NextPC DEF Moved
<1>3. CASE Become(r, Answer(p, "failure"))
  BY <1>1, <1>3, AnswerQuiet DEF Moved
<1>4. QED
  BY <1>1, <1>2, <1>3 DEF CheckLimit, Throw

LEMMA LookupMoves ==
    ASSUME TypeOK, ControlOK, NEW r \in Requests, Lookup(r)
    PROVE  Moved(r)
<1> DEFINE p == req[r]
           q == [p EXCEPT !.pc = "members", !.hasUser = accounts[p.email]]
<1>1. p \in Request /\ Control(p) /\ p.pc = "lookup"
  BY Running DEF Lookup
<1>2. CASE Become(r, q)
  <2>1. "members" \in PCs /\ accounts[p.email] \in BOOLEAN
    BY <1>1 DEF PCs, TypeOK, Control
  <2>2. q \in Request /\ q.pc = "members" /\ Like(p, q)
    BY <1>1, <2>1 DEF Request, Like
  <2>3. QED
    BY <1>1, <1>2, <2>2, NextPC DEF Moved
<1>3. CASE Become(r, Answer(p, "failure"))
  BY <1>1, <1>3, AnswerQuiet DEF Moved
<1>4. QED
  BY <1>1, <1>2, <1>3 DEF Lookup

LEMMA StoreTokenMoves ==
    ASSUME TypeOK, ControlOK, NEW r \in Requests, StoreToken(r)
    PROVE  Moved(r)
<1> DEFINE p == req[r]
           q == [p EXCEPT !.pc = "storeIndex"]
<1>1. p \in Request /\ Control(p) /\ p.pc = "storeToken"
  BY Running DEF StoreToken
<1>2. CASE Become(r, q)
  <2>1. "storeIndex" \in PCs
    BY DEF PCs
  <2>2. q \in Request /\ q.pc = "storeIndex" /\ Like(p, q)
    BY <1>1, <2>1 DEF Request, Like
  <2>3. QED
    BY <1>1, <1>2, <2>2, NextPC DEF Moved
<1>3. CASE Become(r, Answer(p, "failure"))
  BY <1>1, <1>3, AnswerQuiet DEF Moved
<1>4. QED
  BY <1>1, <1>2, <1>3 DEF StoreToken, Throw

LEMMA CountReadMoves ==
    ASSUME TypeOK, ControlOK, NEW r \in Requests, CountRead(r)
    PROVE  Moved(r)
<1> DEFINE p == req[r]
           q == [p EXCEPT !.pc = "countWrite", !.count = daily[p.email], !.today = TRUE]
<1>1. p \in Request /\ Control(p) /\ p.pc = "countRead"
  BY Running DEF CountRead
<1>2. CASE Become(r, q)
  <2>1. "countWrite" \in PCs /\ daily[p.email] \in Nat
    BY <1>1 DEF PCs, TypeOK, Control
  <2>2. q \in Request /\ q.pc = "countWrite" /\ Like(p, q)
    BY <1>1, <2>1 DEF Request, Like
  <2>3. QED
    BY <1>1, <1>2, <2>2, NextPC DEF Moved
<1>3. CASE Become(r, Answer(p, "failure"))
  BY <1>1, <1>3, AnswerQuiet DEF Moved
<1>4. QED
  BY <1>1, <1>2, <1>3 DEF CountRead, Throw

LEMMA CountWriteMoves ==
    ASSUME TypeOK, ControlOK, NEW r \in Requests, CountWrite(r)
    PROVE  Moved(r)
<1> DEFINE p == req[r]
           q == [p EXCEPT !.pc = "mail", !.count = 0]
<1>1. p \in Request /\ Control(p) /\ p.pc = "countWrite"
  BY Running DEF CountWrite
<1>2. CASE Become(r, q)
  <2>1. "mail" \in PCs
    BY DEF PCs
  <2>2. q \in Request /\ q.pc = "mail" /\ Like(p, q)
    BY <1>1, <2>1 DEF Request, Like
  <2>3. QED
    BY <1>1, <1>2, <2>2, NextPC DEF Moved
<1>3. CASE Become(r, Answer(p, "failure"))
  BY <1>1, <1>3, AnswerQuiet DEF Moved
<1>4. QED
  BY <1>1, <1>2, <1>3 DEF CountWrite, Throw

LEMMA DeleteLinkMoves ==
    ASSUME TypeOK, ControlOK, NEW r \in Requests, DeleteLink(r)
    PROVE  Moved(r)
<1> DEFINE p == req[r]
           q == [p EXCEPT !.pc = "deleteToken"]
<1>1. p \in Request /\ Control(p) /\ p.pc = "deleteLink"
  BY Running DEF DeleteLink
<1>2. CASE Become(r, q)
  <2>1. "deleteToken" \in PCs
    BY DEF PCs
  <2>2. q \in Request /\ q.pc = "deleteToken" /\ Like(p, q) /\ q.cur = p.cur
    BY <1>1, <2>1 DEF Request, Like
  <2>3. QED
    BY <1>1, <1>2, <2>2, NextPC DEF Moved
<1>3. CASE Become(r, Answer(p, "failure"))
  BY <1>1, <1>3, AnswerQuiet DEF Moved
<1>4. QED
  BY <1>1, <1>2, <1>3 DEF DeleteLink, Throw

LEMMA DeleteTokenMoves ==
    ASSUME TypeOK, ControlOK, NEW r \in Requests, DeleteToken(r)
    PROVE  Moved(r)
<1> DEFINE p == req[r]
           q == [p EXCEPT !.pc = "deleteIndex"]
<1>1. p \in Request /\ Control(p) /\ p.pc = "deleteToken"
  BY Running DEF DeleteToken
<1>2. CASE Become(r, q)
  <2>1. "deleteIndex" \in PCs
    BY DEF PCs
  <2>2. q \in Request /\ q.pc = "deleteIndex" /\ Like(p, q) /\ q.cur = p.cur
    BY <1>1, <2>1 DEF Request, Like
  <2>3. QED
    BY <1>1, <1>2, <2>2, NextPC DEF Moved
<1>3. CASE Become(r, Answer(p, "failure"))
  BY <1>1, <1>3, AnswerQuiet DEF Moved
<1>4. QED
  BY <1>1, <1>2, <1>3 DEF DeleteToken, Throw

LEMMA DeleteIndexMoves ==
    ASSUME TypeOK, ControlOK, NEW r \in Requests, DeleteIndex(r)
    PROVE  Moved(r)
<1> DEFINE p == req[r]
           q == [p EXCEPT !.pc = "cleanScan"]
<1>1. p \in Request /\ Control(p) /\ p.pc = "deleteIndex"
  BY Running DEF DeleteIndex
<1>2. CASE Become(r, q)
  <2>1. "cleanScan" \in PCs
    BY DEF PCs
  <2>2. q \in Request /\ q.pc = "cleanScan" /\ Like(p, q)
    BY <1>1, <2>1 DEF Request, Like
  <2>3. QED
    BY <1>1, <1>2, <2>2, NextPC DEF Moved
<1>3. QED
  BY <1>1, <1>2 DEF DeleteIndex

LEMMA ReadTokenMoves ==
    ASSUME TypeOK, ControlOK, NEW r \in Requests, ReadToken(r)
    PROVE  Moved(r)
<1> DEFINE p == req[r]
           q == [p EXCEPT !.pc = "load"]
<1>1. p \in Request /\ Control(p) /\ p.pc = "token"
  BY Running DEF ReadToken
<1>2. CASE Become(r, q)
  <2>1. "load" \in PCs
    BY DEF PCs
  <2>2. q \in Request /\ q.pc = "load" /\ Like(p, q)
    BY <1>1, <2>1 DEF Request, Like
  <2>3. QED
    BY <1>1, <1>2, <2>2, NextPC DEF Moved
<1>3. CASE Become(r, Answer(p, "failure"))
  BY <1>1, <1>3, AnswerQuiet DEF Moved
<1>4. QED
  BY <1>1, <1>2, <1>3 DEF ReadToken, Throw

LEMMA StoreIndexMoves ==
    ASSUME TypeOK, ControlOK, NEW r \in Requests, StoreIndex(r)
    PROVE  Moved(r)
<1> DEFINE p == req[r]
           q1 == [p EXCEPT !.pc = "expireIndex"]
           q2 == [p EXCEPT !.pc = "expireIndex", !.swallowed = TRUE]
<1>1. p \in Request /\ Control(p) /\ p.pc = "storeIndex"
  BY Running DEF StoreIndex
<1>2. CASE Become(r, q1)
  <2>1. "expireIndex" \in PCs
    BY DEF PCs
  <2>2. q1 \in Request /\ q1.pc = "expireIndex" /\ Like(p, q1)
    BY <1>1, <2>1 DEF Request, Like
  <2>3. QED
    BY <1>1, <1>2, <2>2, NextPC DEF Moved
<1>3. CASE Become(r, q2)
  <2>1. "expireIndex" \in PCs
    BY DEF PCs
  <2>2. q2 \in Request /\ q2.pc = "expireIndex" /\ Like(p, q2)
    BY <1>1, <2>1 DEF Request, Like
  <2>3. QED
    BY <1>1, <1>3, <2>2, NextPC DEF Moved
<1>4. QED
  BY <1>1, <1>2, <1>3 DEF StoreIndex

LEMMA ExpireIndexMoves ==
    ASSUME TypeOK, ControlOK, NEW r \in Requests, ExpireIndex(r)
    PROVE  Moved(r)
<1> DEFINE p == req[r]
           q1 == [p EXCEPT !.pc = "countRead"]
           q2 == [p EXCEPT !.pc = "countRead", !.swallowed = TRUE]
<1>1. p \in Request /\ Control(p) /\ p.pc = "expireIndex"
  BY Running DEF ExpireIndex
<1>2. CASE Become(r, q1)
  <2>1. "countRead" \in PCs
    BY DEF PCs
  <2>2. q1 \in Request /\ q1.pc = "countRead" /\ Like(p, q1)
    BY <1>1, <2>1 DEF Request, Like
  <2>3. QED
    BY <1>1, <1>2, <2>2, NextPC DEF Moved
<1>3. CASE Become(r, q2)
  <2>1. "countRead" \in PCs
    BY DEF PCs
  <2>2. q2 \in Request /\ q2.pc = "countRead" /\ Like(p, q2)
    BY <1>1, <2>1 DEF Request, Like
  <2>3. QED
    BY <1>1, <1>3, <2>2, NextPC DEF Moved
<1>4. QED
  BY <1>1, <1>2, <1>3 DEF ExpireIndex

LEMMA MailMoves ==
    ASSUME TypeOK, ControlOK, NEW r \in Requests, Mail(r)
    PROVE  Moved(r)
<1> DEFINE p == req[r]
           q1 == [p EXCEPT !.pc = "mailWrite"]
           q2 == [p EXCEPT !.pc = "emit", !.reply = "success"]
<1>1. p \in Request /\ Control(p) /\ p.pc = "mail"
  BY Running DEF Mail
<1>2. CASE Become(r, q1)
  <2>1. "mailWrite" \in PCs
    BY DEF PCs
  <2>2. q1 \in Request /\ q1.pc = "mailWrite" /\ Like(p, q1)
    BY <1>1, <2>1 DEF Request, Like
  <2>3. QED
    BY <1>1, <1>2, <2>2, NextPC DEF Moved
<1>3. CASE Become(r, q2) /\ p.op = "generate"
  <2>1. "emit" \in PCs
    BY DEF PCs
  <2>2. q2 \in Request /\ q2.pc = "emit" /\ Like(p, q2)
    BY <1>1, <2>1 DEF Request, Like
  <2>3. QED
    BY <1>1, <1>3, <2>2, NextPC DEF Moved
<1>4. CASE Become(r, Answer(p, "failure"))
  BY <1>1, <1>4, AnswerQuiet DEF Moved
<1>5. QED
  BY <1>1, <1>2, <1>3, <1>4 DEF Mail

LEMMA MailWriteMoves ==
    ASSUME TypeOK, ControlOK, NEW r \in Requests, MailWrite(r)
    PROVE  Moved(r)
<1> DEFINE p == req[r]
           q1 == [p EXCEPT !.pc = "stampWrite"]
           q2 == [p EXCEPT !.pc = "emit", !.reply = "success"]
<1>1. p \in Request /\ Control(p) /\ p.pc = "mailWrite"
  BY Running DEF MailWrite
<1>2. CASE Become(r, q1) /\ p.op # "generate"
  <2>1. "stampWrite" \in PCs
    BY DEF PCs
  <2>2. q1 \in Request /\ q1.pc = "stampWrite" /\ Like(p, q1)
    BY <1>1, <2>1 DEF Request, Like
  <2>3. QED
    BY <1>1, <1>2, <2>2, NextPC DEF Moved
<1>3. CASE Become(r, q2) /\ p.op = "generate"
  <2>1. "emit" \in PCs
    BY DEF PCs
  <2>2. q2 \in Request /\ q2.pc = "emit" /\ Like(p, q2)
    BY <1>1, <2>1 DEF Request, Like
  <2>3. QED
    BY <1>1, <1>3, <2>2, NextPC DEF Moved
<1>4. CASE Become(r, Answer(p, "failure"))
  BY <1>1, <1>4, AnswerQuiet DEF Moved
<1>5. QED
  BY <1>1, <1>2, <1>3, <1>4 DEF MailWrite

LEMMA DeleteReadMoves ==
    ASSUME TypeOK, ControlOK, NEW r \in Requests, DeleteRead(r)
    PROVE  Moved(r)
<1> DEFINE p == req[r]
           q1 == [p EXCEPT !.pc = "cleanScan"]
           q2 == [p EXCEPT !.pc = "deleteLink"]
<1>1. p \in Request /\ Control(p) /\ p.pc = "deleteRead"
  BY Running DEF DeleteRead
<1>2. CASE Become(r, q1)
  <2>1. "cleanScan" \in PCs
    BY DEF PCs
  <2>2. q1 \in Request /\ q1.pc = "cleanScan" /\ Like(p, q1) /\ q1.cur = p.cur
    BY <1>1, <2>1 DEF Request, Like
  <2>3. QED
    BY <1>1, <1>2, <2>2, NextPC DEF Moved
<1>3. CASE Become(r, q2)
  <2>1. "deleteLink" \in PCs
    BY DEF PCs
  <2>2. q2 \in Request /\ q2.pc = "deleteLink" /\ Like(p, q2) /\ q2.cur = p.cur
    BY <1>1, <2>1 DEF Request, Like
  <2>3. QED
    BY <1>1, <1>3, <2>2, NextPC DEF Moved
<1>4. QED
  BY <1>1, <1>2, <1>3 DEF DeleteRead

LEMMA MembersMoves ==
    ASSUME TypeOK, ControlOK, NEW r \in Requests, Members(r)
    PROVE  Moved(r)
<1> DEFINE p == req[r]
<1>1. p \in Request /\ Control(p) /\ p.pc = "members" /\ p.op = "generate" /\ p.email \in Emails
  BY Running DEF Members, Control
<1>2. PICK found \in {index[p.email]} \cup (IF RedisMayFail THEN {{}} ELSE {}) :
         \E q \in ScanOrRevoke([p EXCEPT !.todo = found, !.swallowed = (found # index[p.email])]) :
            Become(r, q)
  BY DEF Members
<1>3. found \in SUBSET Links
  BY <1>1, <1>2 DEF TypeOK
<1> DEFINE x == [p EXCEPT !.todo = found, !.swallowed = (found # index[p.email])]
<1>4. (found # index[p.email]) \in BOOLEAN
  OBVIOUS
<1>5. x \in Request /\ x.pc = "members" /\ Like(p, x)
  BY <1>1, <1>3, <1>4 DEF Request, Like
<1>6. Control(x) /\ Quiet(p, x) /\ x.op = "generate" /\ x.pc \in Early
  BY <1>1, <1>5 DEF Like, Control, Quiet, Early, Late, AtStatus, Settled
<1>7. PICK q \in ScanOrRevoke(x) : Become(r, q)
  BY <1>2
<1>8. q \in Request /\ Control(q) /\ Quiet(x, q)
  BY <1>5, <1>6, <1>7, ScanOrRevokeQuiet
<1>9. Quiet(p, q)
  BY <1>1, <1>5, <1>6, <1>8, QuietTransitive
<1>10. QED
  BY <1>7, <1>8, <1>9 DEF Moved

LEMMA ScanMoves ==
    ASSUME TypeOK, ControlOK, NEW r \in Requests, Scan(r)
    PROVE  Moved(r)
<1> DEFINE p == req[r]
<1>1. p \in Request /\ Control(p) /\ p.pc = "scan" /\ p.op = "generate"
  BY Running DEF Scan, Control
<1>2. PICK id \in p.todo : \E seen \in Seen(id) :
         \E q \in ScanOrRevoke(
                [p EXCEPT !.todo = p.todo \ {id},
                          !.pend = IF seen = "pending" THEN p.pend \cup {id} ELSE p.pend,
                          !.swallowed = p.swallowed \/ seen # store[id]]) :
            Become(r, q)
  BY DEF Scan
<1>2a. PICK seen \in Seen(id) :
         \E q \in ScanOrRevoke(
                [p EXCEPT !.todo = p.todo \ {id},
                          !.pend = IF seen = "pending" THEN p.pend \cup {id} ELSE p.pend,
                          !.swallowed = p.swallowed \/ seen # store[id]]) :
            Become(r, q)
  BY <1>2
<1> DEFINE todo == p.todo \ {id}
           pend == IF seen = "pending" THEN p.pend \cup {id} ELSE p.pend
           swallowed == p.swallowed \/ seen # store[id]
           x == [p EXCEPT !.todo = todo, !.pend = pend, !.swallowed = swallowed]
<1>3. p.todo \in SUBSET Links /\ p.pend \in SUBSET Links
  BY <1>1 DEF Request
<1>4. todo \in SUBSET Links /\ pend \in SUBSET Links /\ swallowed \in BOOLEAN
  BY <1>2, <1>3
<1>5. PICK q \in ScanOrRevoke(x) : Become(r, q)
  BY <1>2a
<1> HIDE DEF todo, pend, swallowed
<1>6. x \in Request /\ x.pc = "scan" /\ Like(p, x)
  BY <1>1, <1>4 DEF Request, Like
<1>7. Control(x) /\ Quiet(p, x) /\ x.op = "generate" /\ x.pc \in Early
  BY <1>1, <1>6 DEF Like, Control, Quiet, Early, Late, AtStatus, Settled
<1>8. q \in Request /\ Control(q) /\ Quiet(x, q)
  BY <1>5, <1>6, <1>7, ScanOrRevokeQuiet
<1>9. Quiet(p, q)
  BY <1>1, <1>6, <1>7, <1>8, QuietTransitive
<1>10. QED
  BY <1>5, <1>8, <1>9 DEF Moved

LEMMA EmitMoves ==
    ASSUME TypeOK, ControlOK, NEW r \in Requests, Emit(r)
    PROVE  Moved(r)
<1>1. req[r] \in Request /\ Control(req[r]) /\ req[r].pc = "emit" /\ req[r].op # "revoke"
  BY Running DEF Emit, Control
<1>2. req[r].reply \in {None, "success", "failure"}
  BY <1>1 DEF Request
<1>3. QED
  BY <1>1, <1>2, AnswerQuiet DEF Emit, Throw, Moved

LEMMA StampWriteMoves ==
    ASSUME TypeOK, ControlOK, NEW r \in Requests, StampWrite(r)
    PROVE  Moved(r)
<1>1. req[r] \in Request /\ Control(req[r]) /\ req[r].pc = "stampWrite" /\ req[r].op = "resend"
  BY Running DEF StampWrite, Control
<1>2. QED
  BY <1>1, AnswerQuiet DEF StampWrite, Throw, Moved

LEMMA ProcessMoves ==
    ASSUME TypeOK, ControlOK, NEW r \in Requests, Process(r)
    PROVE  Moved(r)
<1> DEFINE p == req[r]
           yes == [p EXCEPT !.pc = "emit", !.reply = "success", !.acted = TRUE]
           no == [p EXCEPT !.pc = "emit", !.reply = "failure"]
<1>1. p \in Request /\ Control(p) /\ p.pc = "process" /\ p.op = "verify"
  BY Running DEF Process, Control
<1>2. "emit" \in PCs
  BY DEF PCs
<1>3. CASE Become(r, yes)
  <2>1. yes \in Request /\ yes.pc = "emit" /\ yes.op = p.op /\ yes.link = p.link
        /\ yes.copy = p.copy /\ yes.acted
    BY <1>1, <1>2 DEF Request
  <2>2. Control(yes) /\ Quiet(p, yes)
    BY <1>1, <2>1 DEF Control, Quiet, AtStatus, Settled
  <2>3. QED
    BY <1>3, <2>1, <2>2 DEF Moved
<1>4. CASE Become(r, no)
  <2>1. no \in Request /\ no.pc = "emit" /\ Like(p, no)
    BY <1>1, <1>2 DEF Request, Like
  <2>2. QED
    BY <1>1, <1>4, <2>1, NextPC DEF Moved
<1>5. QED
  BY <1>3, <1>4 DEF Process

LEMMA KeysMoves ==
    ASSUME TypeOK, ControlOK, NEW r \in Requests, Keys(r)
    PROVE  Moved(r)
<1> DEFINE p == req[r]
<1>1. p \in Request /\ Control(p) /\ p.pc = "keys"
  BY Running DEF Keys
<1>2. PICK found \in SUBSET Links : Become(r, [p EXCEPT !.pc = "cleanScan", !.todo = found])
  BY DEF Keys
<1> DEFINE q == [p EXCEPT !.pc = "cleanScan", !.todo = found]
<1>3. "cleanScan" \in PCs
  BY DEF PCs
<1>4. q \in Request /\ q.pc = "cleanScan" /\ Like(p, q)
  BY <1>1, <1>2, <1>3 DEF Request, Like
<1>5. QED
  BY <1>1, <1>2, <1>4, NextPC DEF Moved

LEMMA CleanScanMoves ==
    ASSUME TypeOK, ControlOK, NEW r \in Requests, CleanScan(r)
    PROVE  Moved(r)
<1> DEFINE p == req[r]
<1>1. p \in Request /\ Control(p) /\ p.pc = "cleanScan" /\ p.op = "cleanup"
  BY Running DEF CleanScan, Control
<1>2. CASE Become(r, Answer(p, "success"))
  BY <1>1, <1>2, AnswerQuiet DEF Moved
<1>3. ASSUME NEW id \in p.todo, NEW c \in {"cleanScan", "deleteRead"},
             Become(r, [p EXCEPT !.todo = p.todo \ {id}, !.cur = id, !.pc = c])
      PROVE  Moved(r)
  <2> DEFINE todo == p.todo \ {id}
             q == [p EXCEPT !.todo = todo, !.cur = id, !.pc = c]
  <2>1. c \in PCs /\ id \in Links /\ todo \in SUBSET Links
    BY <1>1 DEF PCs, Request
  <2> HIDE DEF todo
  <2>2. q \in Request /\ q.pc = c /\ q.cur = id /\ Like(p, q)
    BY <1>1, <2>1 DEF Request, Like
  <2>3. Become(r, q)
    BY <1>3 DEF todo
  <2>4. QED
    BY <1>1, <2>1, <2>2, <2>3, NextPC DEF Moved
<1>4. QED
  BY <1>2, <1>3 DEF CleanScan

-----------------------------------------------------------------------------
(* Steps that take up no new part keep the invariant.                      *)

Undisturbed ==
    /\ \A s \in Requests : Quiet(req[s], req'[s])
    /\ \A id \in Links : left[id] < 0 => left'[id] < 0
    /\ info' = info /\ issued' = issued
    /\ \A id \in delivered' : info[id].email # None
    /\ \A id \in Links : \/ store'[id] \in {store[id], "absent"}
                         \/ store'[id] = "pending" /\ \E s \in Requests : Sender(s, id)
                         \/ /\ store'[id] \in {"used", "revoked", "expired"}
                            /\ store'[id] = "expired" => left[id] < 0
                            /\ \E s \in Requests : Closer(s, id)

LEMMA QuietReflexive ==
    ASSUME NEW p
    PROVE  Quiet(p, p)
  BY DEF Quiet

LEMMA MovedAll ==
    ASSUME TypeOK, ControlOK, NEW r \in Requests, Moved(r)
    PROVE  /\ req' \in [Requests -> Request] /\ ControlOK'
           /\ \A s \in Requests : Quiet(req[s], req'[s])
<1>1. PICK q \in Request : req' = [req EXCEPT ![r] = q] /\ Control(q) /\ Quiet(req[r], q)
  BY DEF Moved, Become
<1>2. req' \in [Requests -> Request]
  BY <1>1 DEF TypeOK
<1>3. req'[r] = q /\ \A s \in Requests : s # r => req'[s] = req[s]
  BY <1>1 DEF TypeOK
<1>4. QED
  BY <1>1, <1>2, <1>3, QuietReflexive DEF ControlOK

LEMMA HistoryGrows ==
    ASSUME TypeOK, History
    PROVE  /\ conflict' \in [Links -> BOOLEAN] /\ unsettled' \in [Emails -> BOOLEAN]
           /\ OverlapNoted'
           /\ \A id \in Links : conflict[id] => conflict'[id]
  BY DEF History, OverlapNoted, TypeOK

\* What QuietKeeps needs to know of the parts requests play.
LEMMA QuietParts ==
    ASSUME Undisturbed, NEW s \in Requests
    PROVE  /\ req'[s].op = req[s].op /\ req'[s].link = req[s].link
           /\ Unstored(s)' => Unstored(s)
           /\ req'[s].op = "generate" /\ ~Unstored(s)' /\ req'[s].pc # "done"
              => ~Unstored(s) /\ req[s].pc # "done"
           /\ Unstored(s)' => req'[s].copy = req[s].copy
           /\ Settled(req'[s]) => Settled(req[s])
           /\ req'[s].pc \in AtStatus /\ req'[s].goal \in {"used", "expired"}
              => req[s].pc \in AtStatus /\ req[s].goal = req'[s].goal /\ req[s].cur = req'[s].cur
           /\ \A id \in Links :
                 /\ Sender(s, id)' => Sender(s, id) /\ req'[s].copy = req[s].copy
                 /\ Permit(s, id)' => Permit(s, id)
                 /\ Consumer(s, id)' => Consumer(s, id)
<1>1. Quiet(req[s], req'[s])
  BY DEF Undisturbed
<1>2. QED
  BY <1>1 DEF Quiet, Unstored, Sender, Permit, Consumer, Early, Late, AtStatus

LEMMA QuietFresh ==
    ASSUME FreshLinks, Undisturbed
    PROVE  FreshLinks'
  BY QuietParts DEF FreshLinks, Undisturbed

LEMMA QuietExpiry ==
    ASSUME ControlOK, ExpiryOK, Undisturbed
    PROVE  ExpiryOK'
<1>1. \A id \in Links : store'[id] = "expired" => left'[id] < 0
  BY DEF ExpiryOK, Undisturbed
<1>2. \A r \in Requests :
          req'[r].pc \in {"statusRead", "statusWrite"} /\ req'[r].goal = "expired"
          => left'[req'[r].cur] < 0
  <2>1. ASSUME NEW r \in Requests, req'[r].pc \in AtStatus, req'[r].goal = "expired"
        PROVE  left'[req'[r].cur] < 0
    <3>1. /\ req[r].pc \in AtStatus /\ req[r].goal = "expired" /\ req[r].cur = req'[r].cur
      BY <2>1, QuietParts
    <3>2. req[r].cur \in Links /\ left[req[r].cur] < 0
      BY <3>1 DEF ControlOK, Control, ExpiryOK, AtStatus
    <3>3. QED
      BY <3>1, <3>2 DEF Undisturbed
  <2>2. QED
    BY <2>1 DEF AtStatus
<1>3. \A s \in Requests : Unstored(s)' => req'[s].copy = "pending"
  BY QuietParts DEF ExpiryOK
<1>4. \A s \in Requests, id \in Links : Sender(s, id)' => req'[s].copy = "pending"
  BY QuietParts DEF ExpiryOK
<1>5. QED
  BY <1>1, <1>2, <1>3, <1>4 DEF ExpiryOK

LEMMA QuietExclusive ==
    ASSUME TypeOK, OverlapNoted, Exclusive, Undisturbed, History
    PROVE  Exclusive'
<1> SUFFICES ASSUME NEW id \in Links, ~conflict'[id]
    PROVE
        /\ \A r \in Requests : Consumer(r, id)' =>
              /\ Shut(id)'
              /\ \A s \in Requests : ~Sender(s, id)'
              /\ \A q \in Requests : q # r => ~Permit(q, id)' /\ ~Consumer(q, id)'
        /\ \A r \in Requests : Settled(req'[r]) /\ req'[r].link = id =>
              /\ store'[id] # "pending"
              /\ \A s \in Requests : ~Sender(s, id)'
        /\ \A s \in Requests : Sender(s, id)' => store'[id] \in {"pending", "absent"}
  BY DEF Exclusive
<1>1. ~conflict[id]
  BY HistoryGrows
<1>2. \/ store'[id] \in {store[id], "absent"}
      \/ store'[id] = "pending" /\ \E s \in Requests : Sender(s, id)
      \/ store'[id] \notin {"pending", "absent"} /\ \A s \in Requests : ~Sender(s, id)
  BY <1>1 DEF Undisturbed, OverlapNoted, Overlap
<1>3. left[id] < 0 => left'[id] < 0
  BY DEF Undisturbed
<1>4. ASSUME NEW r \in Requests, Consumer(r, id)'
      PROVE  /\ Shut(id)'
             /\ \A s \in Requests : ~Sender(s, id)'
             /\ \A q \in Requests : q # r => ~Permit(q, id)' /\ ~Consumer(q, id)'
  BY <1>1, <1>2, <1>3, <1>4, QuietParts DEF Exclusive, Shut
<1>5. ASSUME NEW r \in Requests, Settled(req'[r]), req'[r].link = id
      PROVE  /\ store'[id] # "pending"
             /\ \A s \in Requests : ~Sender(s, id)'
  BY <1>1, <1>2, <1>5, QuietParts DEF Exclusive
<1>6. ASSUME NEW s \in Requests, Sender(s, id)'
      PROVE  store'[id] \in {"pending", "absent"}
  BY <1>1, <1>2, <1>6, QuietParts DEF Exclusive
<1>7. QED
  BY <1>4, <1>5, <1>6

-----------------------------------------------------------------------------
(* The steps one by one: those that take up no new part.                   *)

WorldOK ==
    /\ store \in [Links -> Stored]
    /\ storeTTL \in [Links -> 0..Expiry]
    /\ tokenTTL \in [Links -> 0..Expiry]
    /\ index \in [Emails -> SUBSET Links]
    /\ indexTTL \in [Emails -> 1..NoTTL]
    /\ daily \in [Emails -> Nat]
    /\ left \in [Links -> -1..Expiry]
    /\ info \in [Links -> LinkInfo]
    /\ issued \subseteq Links
    /\ accounts \in [Emails -> BOOLEAN]
    /\ delivered \subseteq Links
    /\ counted \in [Emails -> Nat]
    /\ \A id \in Links : store[id] = "absent" <=> storeTTL[id] = 0

LEMMA TypeSplit ==
    TypeOK <=> /\ WorldOK /\ req \in [Requests -> Request]
               /\ conflict \in [Links -> BOOLEAN] /\ unsettled \in [Emails -> BOOLEAN]
  BY DEF TypeOK, WorldOK

LEMMA MovedKeeps ==
    ASSUME IInv, History, NEW r \in Requests, Moved(r), WorldOK',
           UNCHANGED <<left, info, issued>>,
           \A id \in delivered' : info[id].email # None,
           \A id \in Links : \/ store'[id] \in {store[id], "absent"}
                             \/ store'[id] = "pending" /\ Sender(r, id)
                             \/ /\ store'[id] \in {"used", "revoked", "expired"}
                                /\ store'[id] = "expired" => left[id] < 0
                                /\ Closer(r, id)
    PROVE  IInv'
<1>1. req' \in [Requests -> Request] /\ ControlOK'
      /\ \A s \in Requests : Quiet(req[s], req'[s])
  BY MovedAll DEF IInv
<1>2. TypeOK' /\ OverlapNoted'
  BY <1>1, HistoryGrows DEF TypeOK, WorldOK, IInv
<1>3. Undisturbed
  BY <1>1 DEF Undisturbed
<1>4. FreshLinks' /\ ExpiryOK' /\ Exclusive'
  BY <1>3, QuietFresh, QuietExpiry, QuietExclusive DEF IInv
<1>5. QED
  BY <1>1, <1>2, <1>4 DEF IInv

LEMMA UnmovedKeeps ==
    ASSUME IInv, History, NEW r \in Requests, Moved(r), UNCHANGED <<redis, world>>
    PROVE  IInv'
<1>1. WorldOK'
  BY DEF IInv, TypeOK, WorldOK, redis, world
<1>2. /\ UNCHANGED <<left, info, issued>>
      /\ \A id \in delivered' : info[id].email # None
      /\ \A id \in Links : store'[id] \in {store[id], "absent"}
  BY DEF redis, world, IInv, FreshLinks
<1>3. QED
  BY <1>1, <1>2, MovedKeeps

LEMMA ThrowKeeps ==
    ASSUME IInv, History, NEW r \in Requests, Throw(r), req[r].pc # "done"
    PROVE  IInv'
  BY ThrowMoves, UnmovedKeeps DEF IInv, Throw

LEMMA CheckLimitKeeps ==
    ASSUME IInv, History, NEW r \in Requests, CheckLimit(r)
    PROVE  IInv'
<1>1. UNCHANGED <<redis, world>>
  BY DEF CheckLimit, Throw
<1>2. QED
  BY <1>1, CheckLimitMoves, UnmovedKeeps DEF IInv

LEMMA LookupKeeps ==
    ASSUME IInv, History, NEW r \in Requests, Lookup(r)
    PROVE  IInv'
<1>1. UNCHANGED <<redis, world>>
  BY DEF Lookup
<1>2. QED
  BY <1>1, LookupMoves, UnmovedKeeps DEF IInv

LEMMA MembersKeeps ==
    ASSUME IInv, History, NEW r \in Requests, Members(r)
    PROVE  IInv'
<1>1. UNCHANGED <<redis, world>>
  BY DEF Members
<1>2. QED
  BY <1>1, MembersMoves, UnmovedKeeps DEF IInv

LEMMA ScanKeeps ==
    ASSUME IInv, History, NEW r \in Requests, Scan(r)
    PROVE  IInv'
<1>1. UNCHANGED <<redis, world>>
  BY DEF Scan
<1>2. QED
  BY <1>1, ScanMoves, UnmovedKeeps DEF IInv

LEMMA CountReadKeeps ==
    ASSUME IInv, History, NEW r \in Requests, CountRead(r)
    PROVE  IInv'
<1>1. UNCHANGED <<redis, world>>
  BY DEF CountRead, Throw
<1>2. QED
  BY <1>1, CountReadMoves, UnmovedKeeps DEF IInv

LEMMA EmitKeeps ==
    ASSUME IInv, History, NEW r \in Requests, Emit(r)
    PROVE  IInv'
<1>1. UNCHANGED <<redis, world>>
  BY DEF Emit, Throw
<1>2. QED
  BY <1>1, EmitMoves, UnmovedKeeps DEF IInv

LEMMA ReadTokenKeeps ==
    ASSUME IInv, History, NEW r \in Requests, ReadToken(r)
    PROVE  IInv'
<1>1. UNCHANGED <<redis, world>>
  BY DEF ReadToken, Throw
<1>2. QED
  BY <1>1, ReadTokenMoves, UnmovedKeeps DEF IInv

LEMMA KeysKeeps ==
    ASSUME IInv, History, NEW r \in Requests, Keys(r)
    PROVE  IInv'
<1>1. UNCHANGED <<redis, world>>
  BY DEF Keys
<1>2. QED
  BY <1>1, KeysMoves, UnmovedKeeps DEF IInv

LEMMA CleanScanKeeps ==
    ASSUME IInv, History, NEW r \in Requests, CleanScan(r)
    PROVE  IInv'
<1>1. UNCHANGED <<redis, world>>
  BY DEF CleanScan
<1>2. QED
  BY <1>1, CleanScanMoves, UnmovedKeeps DEF IInv

LEMMA DeleteReadKeeps ==
    ASSUME IInv, History, NEW r \in Requests, DeleteRead(r)
    PROVE  IInv'
<1>1. UNCHANGED <<redis, world>>
  BY DEF DeleteRead
<1>2. QED
  BY <1>1, DeleteReadMoves, UnmovedKeeps DEF IInv

LEMMA StoreTokenKeeps ==
    ASSUME IInv, History, NEW r \in Requests, StoreToken(r)
    PROVE  IInv'
<1>1. req[r] \in Request /\ Control(req[r]) /\ TypeOK
  BY Running DEF IInv
<1>2. UNCHANGED <<store, storeTTL, left, info, issued, delivered>>
  BY DEF StoreToken, Throw, redis, world
<1>3. WorldOK'
  <2>1. Expiry \in 0..Expiry
    BY ExpiryAssumption
  <2>2. tokenTTL' \in [Links -> 0..Expiry]
    BY <1>1, <2>1 DEF StoreToken, Throw, redis, TypeOK
  <2>3. UNCHANGED <<store, storeTTL, index, indexTTL, daily, world>>
    BY DEF StoreToken, Throw, redis
  <2>4. QED
    BY <1>1, <2>2, <2>3 DEF world, WorldOK, TypeOK
<1>4. \A id \in delivered' : info[id].email # None
  BY <1>2 DEF IInv, FreshLinks
<1>5. QED
  BY <1>2, <1>3, <1>4, StoreTokenMoves, MovedKeeps DEF IInv

LEMMA StoreIndexKeeps ==
    ASSUME IInv, History, NEW r \in Requests, StoreIndex(r)
    PROVE  IInv'
<1>1. req[r] \in Request /\ Control(req[r]) /\ TypeOK
  BY Running DEF IInv
<1>2. UNCHANGED <<store, storeTTL, left, info, issued, delivered>>
  BY DEF StoreIndex, Throw, redis, world
<1>3. WorldOK'
  <2>1. index' \in [Emails -> SUBSET Links]
    <3>1. req[r].link \in Links /\ req[r].email \in Emails
      BY <1>1 DEF StoreIndex, Control
    <3>2. index[req[r].email] \cup {req[r].link} \in SUBSET Links
      BY <1>1, <3>1 DEF TypeOK
    <3>3. QED
      BY <1>1, <3>2 DEF StoreIndex, TypeOK
  <2>2. UNCHANGED <<store, storeTTL, tokenTTL, indexTTL, daily, world>>
    BY DEF StoreIndex
  <2>3. QED
    BY <1>1, <2>1, <2>2 DEF world, WorldOK, TypeOK
<1>4. \A id \in delivered' : info[id].email # None
  BY <1>2 DEF IInv, FreshLinks
<1>5. QED
  BY <1>2, <1>3, <1>4, StoreIndexMoves, MovedKeeps DEF IInv

LEMMA ExpireIndexKeeps ==
    ASSUME IInv, History, NEW r \in Requests, ExpireIndex(r)
    PROVE  IInv'
<1>1. req[r] \in Request /\ Control(req[r]) /\ TypeOK
  BY Running DEF IInv
<1>2. UNCHANGED <<store, storeTTL, left, info, issued, delivered>>
  BY DEF ExpireIndex, Throw, redis, world
<1>3. WorldOK'
  <2>1. Expiry \in 1..NoTTL /\ NoTTL \in 1..NoTTL
    BY ExpiryAssumption DEF NoTTL
  <2>2. indexTTL' \in [Emails -> 1..NoTTL]
    BY <1>1, <2>1 DEF ExpireIndex, TypeOK
  <2>3. UNCHANGED <<store, storeTTL, tokenTTL, index, daily, world>>
    BY DEF ExpireIndex
  <2>4. QED
    BY <1>1, <2>2, <2>3 DEF world, WorldOK, TypeOK
<1>4. \A id \in delivered' : info[id].email # None
  BY <1>2 DEF IInv, FreshLinks
<1>5. QED
  BY <1>2, <1>3, <1>4, ExpireIndexMoves, MovedKeeps DEF IInv

LEMMA CountWriteKeeps ==
    ASSUME IInv, History, NEW r \in Requests, CountWrite(r)
    PROVE  IInv'
<1>1. req[r] \in Request /\ Control(req[r]) /\ TypeOK
  BY Running DEF IInv
<1>2. UNCHANGED <<store, storeTTL, left, info, issued, delivered>>
  BY DEF CountWrite, Throw, redis, world
<1>3. WorldOK'
  <2>1. req[r].count + 1 \in Nat
    BY <1>1 DEF Request
  <2>2. daily' \in [Emails -> Nat] /\ counted' \in [Emails -> Nat]
    BY <1>1, <2>1 DEF CountWrite, Throw, redis, world, TypeOK
  <2>3. UNCHANGED <<store, storeTTL, tokenTTL, index, indexTTL,
                    left, info, issued, accounts, delivered>>
    BY DEF CountWrite, Throw, redis, world
  <2>4. QED
    BY <1>1, <2>2, <2>3 DEF WorldOK, TypeOK
<1>4. \A id \in delivered' : info[id].email # None
  BY <1>2 DEF IInv, FreshLinks
<1>5. QED
  BY <1>2, <1>3, <1>4, CountWriteMoves, MovedKeeps DEF IInv

LEMMA DeleteTokenKeeps ==
    ASSUME IInv, History, NEW r \in Requests, DeleteToken(r)
    PROVE  IInv'
<1>1. req[r] \in Request /\ Control(req[r]) /\ TypeOK
  BY Running DEF IInv
<1>2. UNCHANGED <<store, storeTTL, left, info, issued, delivered>>
  BY DEF DeleteToken, Throw, redis, world
<1>3. WorldOK'
  <2>1. 0 \in 0..Expiry
    BY ExpiryAssumption
  <2>2. tokenTTL' \in [Links -> 0..Expiry]
    BY <1>1, <2>1 DEF DeleteToken, Throw, redis, TypeOK
  <2>3. UNCHANGED <<store, storeTTL, index, indexTTL, daily, world>>
    BY DEF DeleteToken, Throw, redis
  <2>4. QED
    BY <1>1, <2>2, <2>3 DEF world, WorldOK, TypeOK
<1>4. \A id \in delivered' : info[id].email # None
  BY <1>2 DEF IInv, FreshLinks
<1>5. QED
  BY <1>2, <1>3, <1>4, DeleteTokenMoves, MovedKeeps DEF IInv

LEMMA DeleteIndexKeeps ==
    ASSUME IInv, History, NEW r \in Requests, DeleteIndex(r)
    PROVE  IInv'
<1>1. req[r] \in Request /\ Control(req[r]) /\ TypeOK
  BY Running DEF IInv
<1>2. UNCHANGED <<store, storeTTL, left, info, issued, delivered>>
  BY DEF DeleteIndex, Throw, redis, world
<1>3. WorldOK'
  <2> DEFINE e == info[req[r].cur].email
  <2>1. UNCHANGED <<store, storeTTL, tokenTTL, daily, world>>
    BY DEF DeleteIndex
  <2>2. NoTTL \in 1..NoTTL
    BY ExpiryAssumption DEF NoTTL
  <2>3. PICK ids, ttl :
           \/ index' = [index EXCEPT ![e] = ids] /\ indexTTL' = [indexTTL EXCEPT ![e] = ttl]
              /\ ids = index[e] \ {req[r].cur} /\ (ttl = NoTTL \/ ttl = indexTTL[e])
           \/ UNCHANGED <<index, indexTTL>>
    BY DEF DeleteIndex
  <2>4. index' \in [Emails -> SUBSET Links] /\ indexTTL' \in [Emails -> 1..NoTTL]
    <3>1. CASE e \in Emails
      <4>1. index[e] \ {req[r].cur} \in SUBSET Links /\ indexTTL[e] \in 1..NoTTL
        BY <1>1, <3>1 DEF TypeOK
      <4>2. QED
        BY <1>1, <2>2, <2>3, <4>1 DEF TypeOK
    <3>2. CASE e \notin Emails
      BY <1>1, <2>3, <3>2 DEF TypeOK
    <3>3. QED
      BY <3>1, <3>2
  <2>5. QED
    BY <1>1, <2>1, <2>4 DEF world, WorldOK, TypeOK
<1>4. \A id \in delivered' : info[id].email # None
  BY <1>2 DEF IInv, FreshLinks
<1>5. QED
  BY <1>2, <1>3, <1>4, DeleteIndexMoves, MovedKeeps DEF IInv

LEMMA ProcessKeeps ==
    ASSUME IInv, History, NEW r \in Requests, Process(r)
    PROVE  IInv'
<1>1. req[r] \in Request /\ Control(req[r]) /\ TypeOK
  BY Running DEF IInv
<1>2. UNCHANGED <<store, storeTTL, left, info, issued, delivered>>
  BY DEF Process, Throw, redis, world
<1>3. WorldOK'
  <2>1. accounts' \in [Emails -> BOOLEAN]
    BY <1>1 DEF Process, TypeOK
  <2>2. UNCHANGED <<redis, left, info, issued, delivered, counted>>
    BY DEF Process
  <2>3. QED
    BY <1>1, <2>1, <2>2 DEF redis, WorldOK, TypeOK
<1>4. \A id \in delivered' : info[id].email # None
  BY <1>2 DEF IInv, FreshLinks
<1>5. QED
  BY <1>2, <1>3, <1>4, ProcessMoves, MovedKeeps DEF IInv

LEMMA MailKeeps ==
    ASSUME IInv, History, NEW r \in Requests, Mail(r)
    PROVE  IInv'
<1>1. req[r] \in Request /\ Control(req[r]) /\ TypeOK /\ req[r].pc = "mail"
  BY Running DEF IInv, Mail
<1>2. UNCHANGED <<store, storeTTL, left, info, issued>> /\ WorldOK'
  <2>1. req[r].link \in Links
    BY <1>1 DEF Control
  <2>2. delivered' \subseteq Links
    BY <1>1, <2>1 DEF Mail, TypeOK
  <2>3. UNCHANGED <<redis, left, info, issued, accounts, counted>>
    BY DEF Mail
  <2>4. QED
    BY <1>1, <2>2, <2>3 DEF redis, WorldOK, TypeOK
<1>3. info[req[r].link].email # None
  BY <1>1 DEF IInv, FreshLinks, Control, Unstored
<1>4. \A id \in delivered' : info[id].email # None
  BY <1>3 DEF Mail, IInv, FreshLinks
<1>5. QED
  BY <1>2, <1>4, MailMoves, MovedKeeps DEF IInv

LEMMA MailWriteKeeps ==
    ASSUME IInv, History, NEW r \in Requests, MailWrite(r)
    PROVE  IInv'
<1>1. req[r] \in Request /\ Control(req[r]) /\ TypeOK /\ req[r].pc = "mailWrite"
  BY Running DEF IInv, MailWrite
<1>2. req[r].link \in Links /\ Sender(r, req[r].link) /\ req[r].copy = "pending"
  BY <1>1 DEF Control, Sender, IInv, ExpiryOK
<1>3. \/ /\ store' = [store EXCEPT ![req[r].link] = "pending"]
         /\ storeTTL' = [storeTTL EXCEPT ![req[r].link] = Expiry]
      \/ UNCHANGED <<store, storeTTL>>
  BY <1>2 DEF MailWrite, redis
<1>4. UNCHANGED <<tokenTTL, index, indexTTL, daily, world>>
  BY DEF MailWrite, redis
<1>5. WorldOK'
  <2>1. Expiry \in 0..Expiry /\ Expiry # 0 /\ "pending" \in Stored /\ "pending" # "absent"
    BY ExpiryAssumption DEF Stored, Statuses
  <2>2. store' \in [Links -> Stored] /\ storeTTL' \in [Links -> 0..Expiry]
    BY <1>1, <1>3, <2>1 DEF TypeOK
  <2>3. \A id \in Links : store'[id] = "absent" <=> storeTTL'[id] = 0
    BY <1>1, <1>2, <1>3, <2>1 DEF TypeOK
  <2>4. QED
    BY <1>1, <1>4, <2>2, <2>3 DEF WorldOK, TypeOK, world
<1>6. /\ UNCHANGED <<left, info, issued>>
      /\ \A id \in delivered' : info[id].email # None
  BY <1>4 DEF world, IInv, FreshLinks
<1>7. \A id \in Links : \/ store'[id] \in {store[id], "absent"}
                        \/ store'[id] = "pending" /\ Sender(r, id)
  BY <1>1, <1>2, <1>3 DEF TypeOK
<1>8. QED
  BY <1>5, <1>6, <1>7, MailWriteMoves, MovedKeeps DEF IInv

LEMMA StampWriteKeeps ==
    ASSUME IInv, History, NEW r \in Requests, StampWrite(r)
    PROVE  IInv'
<1>1. req[r] \in Request /\ Control(req[r]) /\ TypeOK /\ req[r].pc = "stampWrite"
  BY Running DEF IInv, StampWrite
<1>2. req[r].link \in Links /\ Sender(r, req[r].link) /\ req[r].copy = "pending"
  BY <1>1 DEF Control, Sender, IInv, ExpiryOK
<1>3. \/ /\ store' = [store EXCEPT ![req[r].link] = "pending"]
         /\ storeTTL' = [storeTTL EXCEPT ![req[r].link] = Expiry]
      \/ UNCHANGED <<store, storeTTL>>
  BY <1>2 DEF StampWrite, redis, Throw
<1>4. UNCHANGED <<tokenTTL, index, indexTTL, daily, world>>
  BY DEF StampWrite, redis, Throw
<1>5. WorldOK'
  <2>1. Expiry \in 0..Expiry /\ Expiry # 0 /\ "pending" \in Stored /\ "pending" # "absent"
    BY ExpiryAssumption DEF Stored, Statuses
  <2>2. store' \in [Links -> Stored] /\ storeTTL' \in [Links -> 0..Expiry]
    BY <1>1, <1>3, <2>1 DEF TypeOK
  <2>3. \A id \in Links : store'[id] = "absent" <=> storeTTL'[id] = 0
    BY <1>1, <1>2, <1>3, <2>1 DEF TypeOK
  <2>4. QED
    BY <1>1, <1>4, <2>2, <2>3 DEF WorldOK, TypeOK, world
<1>6. /\ UNCHANGED <<left, info, issued>>
      /\ \A id \in delivered' : info[id].email # None
  BY <1>4 DEF world, IInv, FreshLinks
<1>7. \A id \in Links : \/ store'[id] \in {store[id], "absent"}
                        \/ store'[id] = "pending" /\ Sender(r, id)
  BY <1>1, <1>2, <1>3 DEF TypeOK
<1>8. QED
  BY <1>5, <1>6, <1>7, StampWriteMoves, MovedKeeps DEF IInv

LEMMA DeleteLinkKeeps ==
    ASSUME IInv, History, NEW r \in Requests, DeleteLink(r)
    PROVE  IInv'
<1>1. TypeOK /\ Control(req[r]) /\ req[r].pc = "deleteLink"
  BY Running DEF IInv, DeleteLink
<1>2. \/ /\ store' = [store EXCEPT ![req[r].cur] = "absent"]
         /\ storeTTL' = [storeTTL EXCEPT ![req[r].cur] = 0]
      \/ UNCHANGED <<store, storeTTL>>
  BY DEF DeleteLink, Throw, redis
<1>3. UNCHANGED <<tokenTTL, index, indexTTL, daily, world>>
  BY DEF DeleteLink, Throw, redis
<1>4. req[r].cur \in Links
  BY <1>1 DEF Control
<1>5. WorldOK'
  <2>1. 0 \in 0..Expiry /\ "absent" \in Stored
    BY ExpiryAssumption DEF Stored
  <2>2. store' \in [Links -> Stored] /\ storeTTL' \in [Links -> 0..Expiry]
    BY <1>1, <1>2, <2>1 DEF TypeOK
  <2>3. \A id \in Links : store'[id] = "absent" <=> storeTTL'[id] = 0
    BY <1>1, <1>2, <1>4 DEF TypeOK
  <2>4. QED
    BY <1>1, <1>3, <2>2, <2>3 DEF WorldOK, TypeOK, world
<1>6. /\ UNCHANGED <<left, info, issued>>
      /\ \A id \in delivered' : info[id].email # None
  BY <1>3 DEF world, IInv, FreshLinks
<1>7. \A id \in Links : store'[id] \in {store[id], "absent"}
  BY <1>1, <1>2 DEF TypeOK
<1>8. QED
  BY <1>5, <1>6, <1>7, DeleteLinkMoves, MovedKeeps DEF IInv

-----------------------------------------------------------------------------
(* Time.                                                                   *)

LEMMA TimeKeeps ==
    ASSUME IInv, History, WorldOK',
           req' \in [Requests -> Request],
           \A s \in Requests : Control(req'[s]) /\ Quiet(req[s], req'[s]),
           UNCHANGED <<info, issued, delivered>>,
           \A id \in Links : left[id] < 0 => left'[id] < 0,
           \A id \in Links : store'[id] \in {store[id], "absent"}
    PROVE  IInv'
<1>1. TypeOK' /\ OverlapNoted' /\ ControlOK'
  BY HistoryGrows DEF TypeOK, WorldOK, IInv, ControlOK
<1>2. Undisturbed
  BY DEF Undisturbed, IInv, FreshLinks
<1>3. FreshLinks' /\ ExpiryOK' /\ Exclusive'
  BY <1>2, QuietFresh, QuietExpiry, QuietExclusive DEF IInv
<1>4. QED
  BY <1>1, <1>3 DEF IInv

LEMMA TickKeeps ==
    ASSUME IInv, History, Tick
    PROVE  IInv'
<1>1. TypeOK /\ ControlOK
  BY DEF IInv
<1>2. \A n \in 0..Expiry : Less(n) \in 0..Expiry
  BY ExpiryAssumption DEF Less
<1>3. storeTTL' \in [Links -> 0..Expiry] /\ tokenTTL' \in [Links -> 0..Expiry]
  BY <1>1, <1>2 DEF Tick, TypeOK
<1>4. store' \in [Links -> Stored] /\ index' \in [Emails -> SUBSET Links]
  BY <1>1 DEF Tick, TypeOK, Stored
<1>5. indexTTL' \in [Emails -> 1..NoTTL]
  BY <1>1, ExpiryAssumption DEF Tick, TypeOK, NoTTL
<1>6. left' \in [Links -> -1..Expiry] /\ \A id \in Links : left[id] < 0 => left'[id] < 0
  BY <1>1, ExpiryAssumption DEF Tick, TypeOK
<1>7. \A id \in Links : store'[id] = "absent" <=> storeTTL'[id] = 0
  BY <1>1, ExpiryAssumption DEF Tick, TypeOK, Less
<1>8. UNCHANGED <<daily, info, issued, accounts, delivered, counted, req>>
  BY DEF Tick
<1>9. WorldOK'
  BY <1>1, <1>3, <1>4, <1>5, <1>6, <1>7, <1>8 DEF WorldOK, TypeOK
<1>10. \A id \in Links : store'[id] \in {store[id], "absent"}
  BY DEF Tick
<1>11. req' \in [Requests -> Request]
       /\ \A s \in Requests : Control(req'[s]) /\ Quiet(req[s], req'[s])
  BY <1>1, <1>8, QuietReflexive DEF TypeOK, ControlOK
<1>12. QED
  BY <1>6, <1>8, <1>9, <1>10, <1>11, TimeKeeps

LEMMA MidnightKeeps ==
    ASSUME IInv, History, Midnight
    PROVE  IInv'
<1>1. TypeOK /\ ControlOK
  BY DEF IInv
<1>2. UNCHANGED <<store, storeTTL, tokenTTL, index, indexTTL,
                  left, info, issued, accounts, delivered>>
  BY DEF Midnight
<1>3. WorldOK'
  BY <1>1, <1>2 DEF Midnight, WorldOK, TypeOK
<1>4. ASSUME NEW s \in Requests
      PROVE  req'[s] \in Request /\ Control(req'[s]) /\ Quiet(req[s], req'[s])
  <2> DEFINE p == req[s]
             q == [p EXCEPT !.today = FALSE]
  <2>1. p \in Request /\ Control(p)
    BY <1>1, Running
  <2>2. req'[s] = q \/ req'[s] = p
    BY DEF Midnight
  <2>3. /\ q \in Request /\ Like(p, q) /\ q.pc = p.pc /\ q.goal = p.goal
        /\ q.cur = p.cur /\ q.reply = p.reply
    BY <2>1 DEF Request, Like
  <2>4. Control(q) /\ Quiet(p, q)
    BY <2>1, <2>3 DEF Control, Quiet, Like, Settled
  <2>5. QED
    BY <2>1, <2>2, <2>3, <2>4, QuietReflexive
<1>5. req' \in [Requests -> Request]
  BY <1>4 DEF Midnight
<1>6. QED
  BY <1>2, <1>3, <1>4, <1>5, TimeKeeps

-----------------------------------------------------------------------------
(* The start of a call.                                                    *)

LEMMA Others ==
    ASSUME TypeOK, NEW r \in Requests, NEW q \in Request, Become(r, q)
    PROVE  /\ req' \in [Requests -> Request] /\ req'[r] = q
           /\ \A s \in Requests : s # r =>
                 /\ req'[s] = req[s] /\ (Unstored(s)' <=> Unstored(s))
                 /\ \A id \in Links : /\ Sender(s, id)' <=> Sender(s, id)
                                      /\ Permit(s, id)' <=> Permit(s, id)
                                      /\ Consumer(s, id)' <=> Consumer(s, id)
<1>1. req' \in [Requests -> Request] /\ req'[r] = q
      /\ \A s \in Requests : s # r => req'[s] = req[s]
  BY DEF TypeOK, Become
<1>2. QED
  BY <1>1 DEF Unstored, Sender, Permit, Consumer

LEMMA OthersControl ==
    ASSUME TypeOK, ControlOK, NEW r \in Requests, NEW q \in Request, Become(r, q), Control(q)
    PROVE  ControlOK'
  BY Others DEF ControlOK

LEMMA StartKeeps ==
    ASSUME IInv, History, NEW r \in Requests, NEW q \in Request, Control(q), Become(r, q),
           UNCHANGED <<redis, world>>,
           q.op \in {"verify", "resend", "revoke", "cleanup"},
           q.pc \in {"token", "resendRead", "statusRead", "keys"},
           ~q.acted, q.goal \notin {"used", "expired"},
           q.op # "cleanup" => info[q.link].email # None
    PROVE  IInv'
<1>1. TypeOK /\ ControlOK
  BY DEF IInv
<1>2. UNCHANGED <<store, left, info, issued, delivered>> /\ WorldOK'
  BY <1>1 DEF redis, world, TypeOK, WorldOK
<1>3. TypeOK' /\ ControlOK' /\ OverlapNoted'
  BY <1>1, <1>2, Others, OthersControl, HistoryGrows DEF TypeOK, WorldOK
<1>4. \A id \in Links : ~Sender(r, id)' /\ ~Permit(r, id)' /\ ~Consumer(r, id)'
  BY <1>1, Others DEF Sender, Permit, Consumer, Control
<1>5. FreshLinks'
  BY <1>1, <1>2, Others DEF FreshLinks, Unstored, IInv
<1>6. ExpiryOK'
  BY <1>1, <1>2, <1>4, Others DEF ExpiryOK, Unstored, IInv
<1>7. Exclusive'
  <2> SUFFICES ASSUME NEW id \in Links, ~conflict'[id]
      PROVE
        /\ \A x \in Requests : Consumer(x, id)' =>
              /\ Shut(id)'
              /\ \A s \in Requests : ~Sender(s, id)'
              /\ \A y \in Requests : y # x => ~Permit(y, id)' /\ ~Consumer(y, id)'
        /\ \A x \in Requests : Settled(req'[x]) /\ req'[x].link = id =>
              /\ store'[id] # "pending"
              /\ \A s \in Requests : ~Sender(s, id)'
        /\ \A s \in Requests : Sender(s, id)' => store'[id] \in {"pending", "absent"}
    BY DEF Exclusive
  <2>1. ~conflict[id]
    BY <1>1, HistoryGrows
  <2>2. ~Settled(req'[r])
    BY <1>1, Others DEF Settled
  <2>3. QED
    BY <1>1, <1>2, <1>4, <2>1, <2>2, Others DEF Exclusive, Shut, IInv
<1>8. QED
  BY <1>3, <1>5, <1>6, <1>7 DEF IInv

LEMMA StartVerifyKeeps ==
    ASSUME IInv, History, NEW r \in Requests, StartVerify(r)
    PROVE  IInv'
<1>1. TypeOK /\ ControlOK /\ UNCHANGED <<redis, world>>
  BY DEF IInv, StartVerify
<1>2. PICK id \in Links : /\ info[id].email # None
                          /\ Become(r, [IdleRequest EXCEPT !.pc = "token", !.op = "verify", !.link = id])
  BY DEF StartVerify, IInv, FreshLinks, TypeOK
<1> DEFINE q == [IdleRequest EXCEPT !.pc = "token", !.op = "verify", !.link = id]
<1>3. q \in Request
  BY <1>2 DEF IdleRequest, Request, PCs, Statuses, Stored, Ops
<1>4. q.op = "verify" /\ q.pc = "token" /\ q.link = id /\ ~q.acted /\ q.goal = "pending"
  BY <1>2 DEF IdleRequest
<1>5. Control(q)
  BY <1>2, <1>4 DEF Control
<1>6. QED
  BY <1>1, <1>2, <1>3, <1>4, <1>5, StartKeeps

LEMMA StartResendKeeps ==
    ASSUME IInv, History, NEW r \in Requests, StartResend(r)
    PROVE  IInv'
<1>1. TypeOK /\ ControlOK /\ UNCHANGED <<redis, world>>
  BY DEF IInv, StartResend
<1>2. PICK id \in Links : /\ info[id].email # None
                          /\ Become(r, [IdleRequest EXCEPT !.pc = "resendRead", !.op = "resend", !.link = id])
  BY DEF StartResend, IInv, FreshLinks, TypeOK
<1> DEFINE q == [IdleRequest EXCEPT !.pc = "resendRead", !.op = "resend", !.link = id]
<1>3. q \in Request
  BY <1>2 DEF IdleRequest, Request, PCs, Statuses, Stored, Ops
<1>4. q.op = "resend" /\ q.pc = "resendRead" /\ q.link = id /\ ~q.acted /\ q.goal = "pending"
  BY <1>2 DEF IdleRequest
<1>5. Control(q)
  BY <1>2, <1>4 DEF Control
<1>6. QED
  BY <1>1, <1>2, <1>3, <1>4, <1>5, StartKeeps

LEMMA StartRevokeKeeps ==
    ASSUME IInv, History, NEW r \in Requests, StartRevoke(r)
    PROVE  IInv'
<1>1. TypeOK /\ ControlOK /\ UNCHANGED <<redis, world>>
  BY DEF IInv, StartRevoke
<1>2. PICK id \in Links : /\ info[id].email # None
                          /\ Become(r, [IdleRequest EXCEPT !.pc = "statusRead", !.op = "revoke",
                               !.link = id, !.cur = id, !.goal = "revoked"])
  BY DEF StartRevoke, IInv, FreshLinks, TypeOK
<1> DEFINE q == [IdleRequest EXCEPT !.pc = "statusRead", !.op = "revoke",
                               !.link = id, !.cur = id, !.goal = "revoked"]
<1>3. q \in Request
  BY <1>2 DEF IdleRequest, Request, PCs, Statuses, Stored, Ops
<1>4. q.op = "revoke" /\ q.pc = "statusRead" /\ q.link = id /\ ~q.acted /\ q.goal = "revoked"
      /\ q.cur = id
  BY <1>2 DEF IdleRequest
<1>5. Control(q)
  BY <1>2, <1>4 DEF Control
<1>6. QED
  BY <1>1, <1>2, <1>3, <1>4, <1>5, StartKeeps

LEMMA StartCleanupKeeps ==
    ASSUME IInv, History, NEW r \in Requests, StartCleanup(r)
    PROVE  IInv'
<1> DEFINE q == [IdleRequest EXCEPT !.pc = "keys", !.op = "cleanup"]
<1>1. Become(r, q) /\ UNCHANGED <<redis, world>>
  BY DEF StartCleanup
<1>2. q \in Request
  BY DEF IdleRequest, Request, PCs, Statuses, Stored, Ops
<1>3. q.op = "cleanup" /\ q.pc = "keys" /\ ~q.acted /\ q.goal = "pending"
  BY DEF IdleRequest
<1>4. Control(q)
  BY <1>3 DEF Control
<1>5. QED
  BY <1>1, <1>2, <1>3, <1>4, StartKeeps

LEMMA StartGenerateKeeps ==
    ASSUME IInv, History, NEW r \in Requests, StartGenerate(r)
    PROVE  IInv'
<1>1. TypeOK /\ ControlOK
  BY DEF IInv
<1>2. PICK e \in Emails, a \in Actions, new \in Links \ issued :
         /\ Become(r, [IdleRequest EXCEPT !.pc = "checkLimit", !.op = "generate",
                                          !.email = e, !.action = a, !.link = new,
                                          !.copy = "pending"])
         /\ issued' = issued \cup {new}
  BY DEF StartGenerate
<1> DEFINE q == [IdleRequest EXCEPT !.pc = "checkLimit", !.op = "generate",
                                    !.email = e, !.action = a, !.link = new,
                                    !.copy = "pending"]
<1>3. q \in Request
  BY <1>2 DEF IdleRequest, Request, PCs, Statuses, Stored, Ops
<1>4. /\ q.pc = "checkLimit" /\ q.op = "generate" /\ q.email = e /\ q.link = new
      /\ q.copy = "pending" /\ ~q.acted /\ q.goal = "pending"
  BY DEF IdleRequest
<1>5. Control(q)
  BY <1>2, <1>4 DEF Control
<1>6. UNCHANGED <<redis, left, info, accounts, delivered, counted>>
  BY DEF StartGenerate
<1>7. WorldOK' /\ UNCHANGED <<store, left, info, delivered>>
  BY <1>1, <1>2, <1>6 DEF redis, TypeOK, WorldOK
<1>8. TypeOK' /\ ControlOK' /\ OverlapNoted'
  BY <1>1, <1>2, <1>3, <1>5, <1>7, Others, OthersControl, HistoryGrows DEF TypeOK, WorldOK
<1> HIDE DEF q
<1>9. Become(r, q)
  BY <1>2 DEF q
<1>10. \A id \in Links : ~Sender(r, id)' /\ ~Permit(r, id)' /\ ~Consumer(r, id)'
  BY <1>1, <1>3, <1>4, <1>9, Others DEF Sender, Permit, Consumer
<1>11. FreshLinks'
  <2>1. new \notin issued /\ info[new].email = None
    BY <1>2 DEF IInv, FreshLinks
  <2>2. /\ \A g \in Requests : req'[g].op = "generate" => req'[g].link \in issued'
        /\ \A id \in Links : info'[id].email # None => id \in issued'
    BY <1>1, <1>2, <1>3, <1>4, <1>7, <1>9, Others DEF IInv, FreshLinks
  <2>3. \A g, h \in Requests :
          req'[g].op = "generate" /\ req'[h].op = "generate" /\ req'[g].link = req'[h].link
          => g = h
    BY <1>1, <1>3, <1>4, <1>9, <2>1, Others DEF IInv, FreshLinks
  <2>4. /\ \A g \in Requests : Unstored(g)' => info'[req'[g].link].email = None
        /\ \A g \in Requests :
              req'[g].op = "generate" /\ ~Unstored(g)' /\ req'[g].pc # "done"
              => info'[req'[g].link].email # None
    <3>1. Unstored(r)'
      BY <1>1, <1>3, <1>4, <1>9, Others DEF Unstored
    <3>2. QED
      BY <1>1, <1>3, <1>4, <1>7, <1>9, <2>1, <3>1, Others DEF IInv, FreshLinks
  <2>5. /\ \A x \in Requests :
              req'[x].op \in {"verify", "resend", "revoke"} => info'[req'[x].link].email # None
        /\ \A id \in delivered' : info'[id].email # None
    BY <1>1, <1>3, <1>4, <1>7, <1>9, Others DEF IInv, FreshLinks
  <2>6. QED
    BY <2>2, <2>3, <2>4, <2>5 DEF FreshLinks
<1>12. ExpiryOK'
  BY <1>1, <1>3, <1>4, <1>7, <1>9, <1>10, Others DEF ExpiryOK, IInv
<1>13. Exclusive'
  <2> SUFFICES ASSUME NEW id \in Links, ~conflict'[id]
      PROVE
        /\ \A x \in Requests : Consumer(x, id)' =>
              /\ Shut(id)'
              /\ \A s \in Requests : ~Sender(s, id)'
              /\ \A y \in Requests : y # x => ~Permit(y, id)' /\ ~Consumer(y, id)'
        /\ \A x \in Requests : Settled(req'[x]) /\ req'[x].link = id =>
              /\ store'[id] # "pending"
              /\ \A s \in Requests : ~Sender(s, id)'
        /\ \A s \in Requests : Sender(s, id)' => store'[id] \in {"pending", "absent"}
    BY DEF Exclusive
  <2>1. ~conflict[id]
    BY <1>1, HistoryGrows
  <2>2. ~Settled(req'[r])
    BY <1>1, <1>3, <1>4, <1>9, Others DEF Settled
  <2>3. QED
    BY <1>1, <1>3, <1>7, <1>9, <1>10, <2>1, <2>2, Others DEF Exclusive, Shut, IInv
<1>14. QED
  BY <1>8, <1>11, <1>12, <1>13 DEF IInv

-----------------------------------------------------------------------------
(* The steps that take up a new part.                                      *)

\* The generation stores its link and becomes its mailer.
LEMMA StoreLinkKeeps ==
    ASSUME IInv, History, NEW r \in Requests, StoreLink(r)
    PROVE  IInv'
<1> DEFINE p == req[r]
           new == p.link
           q == [p EXCEPT !.pc = "storeToken"]
<1>1. TypeOK /\ ControlOK
  BY DEF IInv
<1>2. p \in Request /\ Control(p) /\ p.pc = "storeLink" /\ p.op = "generate"
      /\ new \in Links /\ p.email \in Emails /\ p.email # None
  BY <1>1, Running, NoneAssumption DEF StoreLink, Control
<1>3. CASE Throw(r)
  BY <1>2, <1>3, ThrowKeeps
<1>4. ASSUME /\ store' = [store EXCEPT ![new] = "pending"]
             /\ storeTTL' = [storeTTL EXCEPT ![new] = Expiry]
             /\ left' = [left EXCEPT ![new] = Expiry]
             /\ info' = [info EXCEPT ![new] = [email |-> p.email, action |-> p.action,
                                               hasUser |-> p.hasUser]]
             /\ Become(r, q)
             /\ UNCHANGED <<tokenTTL, index, indexTTL, daily,
                            issued, accounts, delivered, counted>>
      PROVE  IInv'
  <2>1. "storeToken" \in PCs
    BY DEF PCs
  <2>2. q \in Request /\ q.pc = "storeToken" /\ Like(p, q)
    BY <1>2, <2>1 DEF Request, Like
  <2>3. Control(q)
    BY <1>2, <2>2 DEF Like, Control
  <2> HIDE DEF q
  <2>4. TypeOK' /\ ControlOK' /\ OverlapNoted'
    <3>1. Expiry \in 0..Expiry /\ Expiry \in -1..Expiry /\ Expiry # 0 /\ "pending" \in Stored
      BY ExpiryAssumption DEF Stored, Statuses
    <3>2. [email |-> p.email, action |-> p.action, hasUser |-> p.hasUser] \in LinkInfo
      BY <1>2 DEF LinkInfo, Request
    <3>3. store' \in [Links -> Stored] /\ storeTTL' \in [Links -> 0..Expiry]
          /\ left' \in [Links -> -1..Expiry]
      BY <1>1, <1>4, <3>1 DEF TypeOK
    <3>4. info' \in [Links -> LinkInfo]
      BY <1>1, <1>4, <3>2 DEF TypeOK
    <3>5. \A id \in Links : store'[id] = "absent" <=> storeTTL'[id] = 0
      BY <1>1, <1>4, <3>1 DEF TypeOK
    <3>6. req' \in [Requests -> Request] /\ ControlOK'
      BY <1>1, <1>4, <2>2, <2>3, Others, OthersControl
    <3>7. QED
      BY <1>1, <1>4, <3>3, <3>4, <3>5, <3>6, HistoryGrows DEF TypeOK
  <2>5. info[new].email = None /\ new \in issued
    BY <1>2 DEF IInv, FreshLinks, Unstored
  <2>6. info'[new].email # None /\ store'[new] = "pending" /\ left'[new] = Expiry
    BY <1>1, <1>2, <1>4 DEF TypeOK
  <2>7. \A id \in Links : id # new =>
           info'[id] = info[id] /\ store'[id] = store[id] /\ left'[id] = left[id]
    BY <1>1, <1>4 DEF TypeOK
  <2>8. /\ ~Unstored(r)'
        /\ \A id \in Links : /\ Sender(r, id)' => id = new
                             /\ ~Permit(r, id)' /\ ~Consumer(r, id)'
    BY <1>1, <1>2, <1>4, <2>2, Others DEF Unstored, Sender, Permit, Consumer, Like
  <2>9. \A s \in Requests : s # r /\ req[s].op = "generate" => req[s].link # new
    BY <1>2 DEF IInv, FreshLinks
  <2>10. \A s \in Requests : req[s].op \in {"verify", "resend", "revoke"} => req[s].link # new
    BY <2>5 DEF IInv, FreshLinks
  <2>11. \A s \in Requests : req[s].op \in Ops => req[s].link \in Links \/ req[s].op = "cleanup"
    BY <1>1 DEF ControlOK, Control, Ops
  <2>12. FreshLinks'
    <3>1. /\ \A g \in Requests : req'[g].op = "generate" => req'[g].link \in issued'
          /\ \A g, h \in Requests :
                req'[g].op = "generate" /\ req'[h].op = "generate" /\ req'[g].link = req'[h].link
                => g = h
      BY <1>1, <1>2, <1>4, <2>2, Others DEF IInv, FreshLinks, Like
    <3>2. \A g \in Requests : Unstored(g)' => info'[req'[g].link].email = None
      BY <1>1, <1>4, <2>2, <2>7, <2>8, <2>9, <2>11, Others DEF IInv, FreshLinks, Unstored, Ops
    <3>3. \A g \in Requests :
              req'[g].op = "generate" /\ ~Unstored(g)' /\ req'[g].pc # "done"
              => info'[req'[g].link].email # None
      BY <1>1, <1>4, <2>2, <2>6, <2>7, <2>11, Others DEF IInv, FreshLinks, Like, Ops
    <3>4. \A x \in Requests :
              req'[x].op \in {"verify", "resend", "revoke"} => info'[req'[x].link].email # None
      BY <1>1, <1>2, <1>4, <2>2, <2>7, <2>10, <2>11, Others DEF IInv, FreshLinks, Like, Ops
    <3>5. \A id \in delivered' : info'[id].email # None
      BY <1>1, <1>4, <2>6, <2>7 DEF IInv, FreshLinks, TypeOK
    <3>6. \A id \in Links : info'[id].email # None => id \in issued'
      BY <1>4, <2>5, <2>7 DEF IInv, FreshLinks
    <3>7. QED
      BY <3>1, <3>2, <3>3, <3>4, <3>5, <3>6 DEF FreshLinks
  <2>13. ExpiryOK'
    <3>1. \A id \in Links : store'[id] = "expired" => left'[id] < 0
      BY <2>6, <2>7 DEF IInv, ExpiryOK
    <3>2. ASSUME NEW x \in Requests, req'[x].pc \in {"statusRead", "statusWrite"},
                 req'[x].goal = "expired"
          PROVE  left'[req'[x].cur] < 0
      <4>1. x # r /\ req'[x] = req[x]
        BY <1>1, <1>4, <2>2, <3>2, Others
      <4>2. req[x].cur \in Links /\ req[x].cur # new
        BY <1>1, <2>10, <3>2, <4>1 DEF ControlOK, Control
      <4>3. QED
        BY <2>7, <3>2, <4>1, <4>2 DEF IInv, ExpiryOK
    <3>3. \A s \in Requests : Unstored(s)' => req'[s].copy = "pending"
      BY <1>1, <1>4, <2>2, <2>8, Others DEF IInv, ExpiryOK
    <3>4. p.copy = "pending"
      BY <1>2 DEF IInv, ExpiryOK, Unstored
    <3>5. \A s \in Requests, id \in Links : Sender(s, id)' => req'[s].copy = "pending"
      BY <1>1, <1>4, <2>2, <3>4, Others DEF IInv, ExpiryOK, Like
    <3>6. QED
      BY <3>1, <3>2, <3>3, <3>5 DEF ExpiryOK
  <2>14. Exclusive'
    <3> SUFFICES ASSUME NEW id \in Links, ~conflict'[id]
        PROVE
          /\ \A x \in Requests : Consumer(x, id)' =>
                /\ Shut(id)'
                /\ \A s \in Requests : ~Sender(s, id)'
                /\ \A y \in Requests : y # x => ~Permit(y, id)' /\ ~Consumer(y, id)'
          /\ \A x \in Requests : Settled(req'[x]) /\ req'[x].link = id =>
                /\ store'[id] # "pending"
                /\ \A s \in Requests : ~Sender(s, id)'
          /\ \A s \in Requests : Sender(s, id)' => store'[id] \in {"pending", "absent"}
      BY DEF Exclusive
    <3>1. ~conflict[id]
      BY <1>1, HistoryGrows
    <3>2. ~Settled(req'[r])
      BY <1>1, <1>4, <2>2, Others DEF Settled
    <3>3. CASE id # new
      BY <1>1, <1>4, <2>2, <2>7, <2>8, <3>1, <3>2, <3>3, Others DEF Exclusive, Shut, IInv
    <3>4. CASE id = new
      <4>1. \A x \in Requests : ~Consumer(x, id)' /\ ~(Settled(req'[x]) /\ req'[x].link = id)
        BY <1>1, <1>4, <2>2, <2>8, <2>10, <3>2, <3>4, Others DEF Consumer, Settled
      <4>2. QED
        BY <2>6, <3>4, <4>1
    <3>5. QED
      BY <3>3, <3>4
  <2>15. QED
    BY <2>4, <2>12, <2>13, <2>14 DEF IInv
<1>5. QED
  BY <1>3, <1>4 DEF StoreLink

\* A step of a call other than a generation.
LEMMA PartKeeps ==
    ASSUME IInv, History, NEW r \in Requests, NEW q \in Request, Control(q), Become(r, q),
           req[r].op # "generate", q.op = req[r].op, q.link = req[r].link,
           WorldOK', UNCHANGED <<left, info, issued, delivered>>,
           ExpiryOK', Exclusive'
    PROVE  IInv'
<1>1. TypeOK /\ ControlOK
  BY DEF IInv
<1>2. TypeOK' /\ ControlOK' /\ OverlapNoted'
  BY <1>1, Others, OthersControl, HistoryGrows DEF TypeOK, WorldOK
<1>3. FreshLinks'
  BY <1>1, Others DEF IInv, FreshLinks, Unstored
<1>4. QED
  BY <1>2, <1>3 DEF IInv

\* A verification that finds the link open is alone: whoever was let in
\* before has shut it.
LEMMA LoadKeeps ==
    ASSUME IInv, History, NEW r \in Requests, Load(r)
    PROVE  IInv'
<1> DEFINE p == req[r]
           goal == IF left[p.link] < 0 THEN "expired" ELSE "used"
           q == [p EXCEPT !.pc = "statusRead", !.cur = p.link, !.goal = goal]
<1>1. TypeOK /\ ControlOK
  BY DEF IInv
<1>2. p \in Request /\ Control(p) /\ p.pc = "load" /\ p.op = "verify" /\ p.link \in Links
  BY <1>1, Running DEF Load, Control
<1>3. UNCHANGED <<redis, world>>
  BY DEF Load
<1>4. CASE Become(r, Answer(p, "failure"))
  <2>1. Moved(r)
    BY <1>2, <1>4, AnswerQuiet DEF Moved
  <2>2. QED
    BY <1>3, <2>1, UnmovedKeeps
<1>5. ASSUME Become(r, q), store[p.link] \notin {"absent", "used", "revoked"}
      PROVE  IInv'
  <2>1. "statusRead" \in PCs /\ goal \in Statuses /\ goal \in {"used", "expired"}
        /\ (goal = "expired" <=> left[p.link] < 0)
    BY DEF PCs, Statuses
  <2> HIDE DEF goal
  <2>2. /\ q \in Request /\ q.pc = "statusRead" /\ q.cur = p.link /\ q.goal = goal
        /\ Like(p, q)
    BY <1>2, <2>1 DEF Request, Like
  <2> HIDE DEF q
  <2>3. Control(q)
    BY <1>2, <2>1, <2>2 DEF Like, Control
  <2>4. WorldOK' /\ UNCHANGED <<store, left, info, issued, delivered>>
    BY <1>1, <1>3 DEF redis, world, TypeOK, WorldOK
  <2>5. /\ ~Unstored(r)' /\ ~Settled(req'[r])
        /\ \A id \in Links : /\ ~Sender(r, id)' /\ ~Consumer(r, id)'
                             /\ Permit(r, id)' => id = p.link /\ left[id] >= 0
    <3>1. left[p.link] \in -1..Expiry
      BY <1>1, <1>2 DEF TypeOK
    <3>2. ~p.acted
      BY <1>2 DEF Control
    <3>3. QED
      BY <1>1, <1>2, <1>5, <2>1, <2>2, <3>1, <3>2, ExpiryAssumption, Others
      DEF Unstored, Settled, Sender, Consumer, Permit, Like
  <2>6. ExpiryOK'
    BY <1>1, <1>5, <2>1, <2>2, <2>4, <2>5, Others DEF IInv, ExpiryOK
  <2>7. Exclusive'
    <3> SUFFICES ASSUME NEW id \in Links, ~conflict'[id]
        PROVE
          /\ \A x \in Requests : Consumer(x, id)' =>
                /\ Shut(id)'
                /\ \A s \in Requests : ~Sender(s, id)'
                /\ \A y \in Requests : y # x => ~Permit(y, id)' /\ ~Consumer(y, id)'
          /\ \A x \in Requests : Settled(req'[x]) /\ req'[x].link = id =>
                /\ store'[id] # "pending"
                /\ \A s \in Requests : ~Sender(s, id)'
          /\ \A s \in Requests : Sender(s, id)' => store'[id] \in {"pending", "absent"}
      BY DEF Exclusive
    <3>1. ~conflict[id]
      BY <1>1, HistoryGrows
    <3>2. store[p.link] \in {"pending", "expired"}
      BY <1>1, <1>2, <1>5 DEF TypeOK, Stored, Statuses
    <3>3. store[p.link] = "expired" => left[p.link] < 0
      BY <1>2 DEF IInv, ExpiryOK
    <3>4. \A x \in Requests : Consumer(x, id)' => Consumer(x, id) /\ ~Permit(r, id)'
      <4>1. ASSUME NEW x \in Requests, Consumer(x, id)', Permit(r, id)'
            PROVE  FALSE
        <5>1. x # r /\ Consumer(x, id) /\ id = p.link /\ left[id] >= 0
          BY <1>1, <1>5, <2>2, <2>5, <4>1, Others
        <5>2. left[id] \in -1..Expiry
          BY <1>1 DEF TypeOK
        <5>3. store[id] = "pending" => left[id] < 0
          BY <3>1, <5>1 DEF IInv, Exclusive, Shut
        <5>4. QED
          BY <3>2, <3>3, <5>1, <5>2, <5>3, ExpiryAssumption
      <4>2. QED
        BY <1>1, <1>5, <2>2, <2>5, <4>1, Others
    <3>5. QED
      BY <1>1, <1>5, <2>2, <2>4, <2>5, <3>1, <3>4, Others DEF Exclusive, Shut, IInv
  <2>8. QED
    BY <1>2, <1>5, <2>2, <2>3, <2>4, <2>6, <2>7, PartKeeps DEF Like
<1>6. QED
  BY <1>4, <1>5 DEF Load, Seen

\* A resend that goes on to the mailer has found an open link, which nobody
\* has been let in by.
LEMMA ResendReadKeeps ==
    ASSUME IInv, History, NEW r \in Requests, ResendRead(r)
    PROVE  IInv'
<1> DEFINE p == req[r]
           mailer == [p EXCEPT !.pc = "mail", !.copy = "pending"]
           closer == [p EXCEPT !.pc = "statusRead", !.cur = p.link, !.goal = "expired"]
<1>1. TypeOK /\ ControlOK
  BY DEF IInv
<1>2. p \in Request /\ Control(p) /\ p.pc = "resendRead" /\ p.op = "resend"
      /\ p.link \in Links /\ ~p.acted
  BY <1>1, Running DEF ResendRead, Control, Request
<1>3. UNCHANGED <<redis, world>>
  BY DEF ResendRead
<1>4. WorldOK' /\ UNCHANGED <<store, left, info, issued, delivered>>
  BY <1>1, <1>3 DEF redis, world, TypeOK, WorldOK
<1>5. CASE Become(r, Answer(p, "failure"))
  <2>1. Moved(r)
    BY <1>2, <1>5, AnswerQuiet DEF Moved
  <2>2. QED
    BY <1>3, <2>1, UnmovedKeeps
<1>6. ASSUME Become(r, closer), left[p.link] < 0
      PROVE  IInv'
  <2>1. "statusRead" \in PCs /\ "expired" \in Statuses
    BY DEF PCs, Statuses
  <2>2. /\ closer \in Request /\ closer.pc = "statusRead" /\ closer.cur = p.link
        /\ closer.goal = "expired" /\ Like(p, closer)
    BY <1>2, <2>1 DEF Request, Like
  <2> HIDE DEF closer
  <2>3. Control(closer)
    BY <1>2, <2>2 DEF Like, Control
  <2>4. /\ ~Unstored(r)' /\ ~Settled(req'[r])
        /\ \A id \in Links : ~Sender(r, id)' /\ ~Consumer(r, id)' /\ ~Permit(r, id)'
    BY <1>1, <1>2, <1>6, <2>2, Others DEF Unstored, Settled, Sender, Consumer, Permit, Like
  <2>5. ExpiryOK'
    BY <1>1, <1>4, <1>6, <2>2, <2>4, Others DEF IInv, ExpiryOK
  <2>6. Exclusive'
    <3> SUFFICES ASSUME NEW id \in Links, ~conflict'[id]
        PROVE
          /\ \A x \in Requests : Consumer(x, id)' =>
                /\ Shut(id)'
                /\ \A s \in Requests : ~Sender(s, id)'
                /\ \A y \in Requests : y # x => ~Permit(y, id)' /\ ~Consumer(y, id)'
          /\ \A x \in Requests : Settled(req'[x]) /\ req'[x].link = id =>
                /\ store'[id] # "pending"
                /\ \A s \in Requests : ~Sender(s, id)'
          /\ \A s \in Requests : Sender(s, id)' => store'[id] \in {"pending", "absent"}
      BY DEF Exclusive
    <3>1. ~conflict[id]
      BY <1>1, HistoryGrows
    <3>2. QED
      BY <1>1, <1>4, <1>6, <2>2, <2>4, <3>1, Others DEF Exclusive, Shut, IInv
  <2>7. QED
    BY <1>2, <1>4, <1>6, <2>2, <2>3, <2>5, <2>6, PartKeeps DEF Like
<1>7. ASSUME Become(r, mailer), store[p.link] = "pending", left[p.link] >= 0
      PROVE  IInv'
  <2>1. "mail" \in PCs /\ "pending" \in Stored
    BY DEF PCs, Stored, Statuses
  <2>2. /\ mailer \in Request /\ mailer.pc = "mail" /\ mailer.copy = "pending"
        /\ mailer.op = p.op /\ mailer.link = p.link /\ mailer.acted = p.acted
    BY <1>2, <2>1 DEF Request
  <2> HIDE DEF mailer
  <2>3. Control(mailer)
    BY <1>2, <2>2 DEF Control
  <2>4. /\ ~Unstored(r)' /\ ~Settled(req'[r])
        /\ \A id \in Links : /\ Sender(r, id)' => id = p.link
                             /\ ~Consumer(r, id)' /\ ~Permit(r, id)'
    BY <1>1, <1>2, <1>7, <2>2, Others DEF Unstored, Settled, Sender, Consumer, Permit
  <2>5. ExpiryOK'
    BY <1>1, <1>4, <1>7, <2>2, <2>4, Others DEF IInv, ExpiryOK
  <2>6. Exclusive'
    <3> SUFFICES ASSUME NEW id \in Links, ~conflict'[id]
        PROVE
          /\ \A x \in Requests : Consumer(x, id)' =>
                /\ Shut(id)'
                /\ \A s \in Requests : ~Sender(s, id)'
                /\ \A y \in Requests : y # x => ~Permit(y, id)' /\ ~Consumer(y, id)'
          /\ \A x \in Requests : Settled(req'[x]) /\ req'[x].link = id =>
                /\ store'[id] # "pending"
                /\ \A s \in Requests : ~Sender(s, id)'
          /\ \A s \in Requests : Sender(s, id)' => store'[id] \in {"pending", "absent"}
      BY DEF Exclusive
    <3>1. ~conflict[id]
      BY <1>1, HistoryGrows
    <3>2. left[p.link] \in -1..Expiry
      BY <1>1, <1>2 DEF TypeOK
    <3>3. ASSUME id = p.link
          PROVE  \A x \in Requests : /\ ~Consumer(x, id)
                                     /\ ~(Settled(req[x]) /\ req[x].link = id)
      BY <1>7, <3>1, <3>2, <3>3, ExpiryAssumption DEF IInv, Exclusive, Shut
    <3>4. QED
      BY <1>1, <1>4, <1>7, <2>2, <2>4, <3>1, <3>3, Others DEF Exclusive, Shut, IInv
  <2>7. QED
    BY <1>2, <1>4, <1>7, <2>2, <2>3, <2>5, <2>6, PartKeeps
<1>8. QED
  <2>1. left[p.link] \in -1..Expiry
    BY <1>1, <1>2 DEF TypeOK
  <2>2. PICK seen \in Seen(p.link) :
          Become(r, CASE seen = "absent" -> Answer(p, "failure")
                      [] seen # "absent" /\ left[p.link] < 0 -> closer
                      [] left[p.link] >= 0 /\ seen \in {"used", "revoked"} ->
                            Answer(p, "failure")
                      [] OTHER -> [p EXCEPT !.pc = "mail", !.copy = seen])
    BY DEF ResendRead
  <2>3. CASE seen = "absent"
    BY <1>5, <2>2, <2>3
  <2>4. CASE seen # "absent" /\ left[p.link] < 0
    <3>1. ~(left[p.link] >= 0)
      BY <2>1, <2>4, ExpiryAssumption
    <3>2. QED
      BY <1>6, <2>2, <2>4, <3>1
  <2>5. CASE seen # "absent" /\ ~(left[p.link] < 0) /\ seen \in {"used", "revoked"}
    <3>1. left[p.link] >= 0
      BY <2>1, <2>5, ExpiryAssumption
    <3>2. QED
      BY <1>5, <2>2, <2>5, <3>1
  <2>6. CASE seen # "absent" /\ ~(left[p.link] < 0) /\ seen \notin {"used", "revoked"}
    <3>1. seen = store[p.link] /\ left[p.link] >= 0
      BY <2>1, <2>6, ExpiryAssumption DEF Seen
    <3>2. seen = "pending"
      BY <1>1, <1>2, <2>6, <3>1 DEF TypeOK, Stored, Statuses, IInv, ExpiryOK
    <3>3. QED
      BY <1>7, <2>2, <2>6, <3>1, <3>2
  <2>7. QED
    BY <2>3, <2>4, <2>5, <2>6

\* Going on from a status that was written, or that no link was found for.
LEMMA FinishKeeps ==
    ASSUME IInv, History, NEW r \in Requests, NEW q \in Request, Control(q), Become(r, q),
           req[r].pc \in AtStatus,
           \/ req[r].op = "verify" /\ req[r].goal = "used" /\ q.pc = "process"
           \/ req[r].op = "revoke" /\ q.pc = "done",
           q.op = req[r].op, q.link = req[r].link, ~q.acted,
           WorldOK', UNCHANGED <<left, info, issued, delivered>>,
           \A id \in Links \ {req[r].link} : store'[id] = store[id],
           \/ store'[req[r].link] \in {"absent", "used", "revoked"}
           \/ store' = store /\ q.swallowed
    PROVE  IInv'
<1>1. TypeOK /\ ControlOK
  BY DEF IInv
<1>a. PICK l \in Links : req[r].link = l /\ req[r].cur = l
  BY <1>1, Running DEF Control, AtStatus
<1>2. /\ req[r].link = l /\ req[r].cur = l /\ req[r].op \in {"verify", "revoke"}
      /\ Control(req[r]) /\ ~req[r].acted
  BY <1>1, <1>a, Running DEF Control, AtStatus, Request
<1>3. /\ ~Unstored(r)'
      /\ \A id \in Links : /\ ~Sender(r, id)' /\ ~Permit(r, id)'
                           /\ Consumer(r, id)' => id = l /\ Permit(r, id)
      /\ Settled(req'[r]) => req[r].op = "revoke"
  BY <1>1, <1>2, Others DEF Unstored, Sender, Permit, Consumer, Settled, AtStatus
<1>4. Closer(r, l)
  BY <1>2 DEF Closer, AtStatus
<1>5. conflict[l] \/ \A s \in Requests : ~Sender(s, l)
  BY <1>2, <1>4 DEF IInv, OverlapNoted, Overlap
<1>6. conflict[l] \/ Permit(r, l) => conflict[l] \/ \A s \in Requests : s # r => ~Permit(s, l)
  BY <1>2 DEF IInv, OverlapNoted, Overlap
<1>7. ~conflict'[l] => store'[l] \in {"absent", "used", "revoked"}
  <2>1. q.swallowed => Overlap(l)'
    BY <1>1, <1>2, Others DEF Overlap
  <2>2. Overlap(l)' => conflict'[l]
    BY <1>1, <1>2, HistoryGrows DEF OverlapNoted
  <2>3. QED
    BY <1>a, <2>1, <2>2
<1>8. ExpiryOK'
  <2>1. \A id \in Links : store'[id] = "expired" => left'[id] < 0
    BY <1>2 DEF IInv, ExpiryOK
  <2>2. QED
    BY <1>1, <1>2, <1>3, <2>1, Others DEF IInv, ExpiryOK, AtStatus
<1>9. Exclusive'
  <2> SUFFICES ASSUME NEW id \in Links, ~conflict'[id]
      PROVE
        /\ \A x \in Requests : Consumer(x, id)' =>
              /\ Shut(id)'
              /\ \A s \in Requests : ~Sender(s, id)'
              /\ \A y \in Requests : y # x => ~Permit(y, id)' /\ ~Consumer(y, id)'
        /\ \A x \in Requests : Settled(req'[x]) /\ req'[x].link = id =>
              /\ store'[id] # "pending"
              /\ \A s \in Requests : ~Sender(s, id)'
        /\ \A s \in Requests : Sender(s, id)' => store'[id] \in {"pending", "absent"}
    BY DEF Exclusive
  <2>1. ~conflict[id]
    BY <1>1, HistoryGrows
  <2>2. CASE id # l
    <3>1. ~(Settled(req'[r]) /\ req'[r].link = id)
      BY <1>2, <1>1, <2>2, Others
    <3>2. store'[id] = store[id]
      BY <1>2, <2>2
    <3>3. QED
      BY <1>1, <1>3, <2>1, <2>2, <3>1, <3>2, Others DEF Exclusive, Shut, IInv
  <2>3. CASE id = l
    <3>1. store'[id] # "pending" /\ \A s \in Requests : ~Sender(s, id)'
      BY <1>1, <1>3, <1>5, <1>7, <2>1, <2>3, Others
    <3>2. ASSUME NEW x \in Requests, Consumer(x, id)', NEW y \in Requests, y # x
          PROVE  ~Permit(y, id)' /\ ~Consumer(y, id)'
      <4>1. CASE x = r
        BY <1>1, <1>3, <1>6, <2>1, <2>3, <3>2, <4>1, Others DEF IInv, Exclusive
      <4>2. CASE x # r
        BY <1>1, <1>3, <2>1, <2>3, <3>2, <4>2, Others DEF IInv, Exclusive
      <4>3. QED
        BY <4>1, <4>2
    <3>3. QED
      BY <3>1, <3>2 DEF Shut
  <2>4. QED
    BY <2>2, <2>3
<1>10. QED
  BY <1>2, <1>8, <1>9, PartKeeps

LEMMA ReadForStatusKeeps ==
    ASSUME IInv, History, NEW r \in Requests, ReadForStatus(r)
    PROVE  IInv'
<1> DEFINE p == req[r]
<1>1. TypeOK /\ ControlOK
  BY DEF IInv
<1>2. p \in Request /\ Control(p) /\ p.pc = "statusRead" /\ p.cur \in Links
  BY <1>1, Running DEF ReadForStatus, Control
<1>3. UNCHANGED <<redis, world>>
  BY DEF ReadForStatus
<1>4. CASE Become(r, [p EXCEPT !.pc = "statusWrite"])
  <2> DEFINE q == [p EXCEPT !.pc = "statusWrite"]
  <2>1. "statusWrite" \in PCs
    BY DEF PCs
  <2>2. /\ q \in Request /\ q.pc = "statusWrite" /\ Like(p, q)
        /\ q.goal = p.goal /\ q.cur = p.cur
    BY <1>2, <2>1 DEF Request, Like
  <2>3. Control(q) /\ Quiet(p, q)
    BY <1>2, <2>2 DEF Like, Control, Quiet, Early, Late, AtStatus, Settled
  <2>4. QED
    BY <1>3, <1>4, <2>2, <2>3, UnmovedKeeps DEF Moved
<1>5. ASSUME NEW swallowed \in BOOLEAN, store[p.cur] = "absent" \/ swallowed,
             NEW q \in AfterStatus([p EXCEPT !.swallowed = swallowed]), Become(r, q)
      PROVE  IInv'
  <2> DEFINE x == [p EXCEPT !.swallowed = swallowed]
  <2>1. /\ x \in Request /\ Like(p, x) /\ x.pc = p.pc /\ x.goal = p.goal /\ x.cur = p.cur
        /\ x.reply = p.reply /\ x.swallowed = swallowed
    BY <1>2 DEF Request, Like
  <2> HIDE DEF x
  <2>2. Control(x) /\ Quiet(p, x) /\ x.pc \in AtStatus /\ x.pc # "done"
    BY <1>2, <2>1 DEF Like, Control, Quiet, AtStatus, Settled
  <2>3. q \in AfterStatus(x)
    BY <1>5 DEF x
  <2>4. /\ q \in Request /\ Control(q)
        /\ \/ Quiet(x, q)
           \/ /\ x.op = "verify" /\ x.goal = "used" /\ q.pc = "process"
              /\ Like(x, q) /\ q.swallowed = x.swallowed
           \/ /\ x.op = "revoke" /\ q.pc = "done" /\ q.op = "revoke" /\ q.link = x.link
              /\ ~q.acted /\ q.swallowed = x.swallowed
    BY <2>1, <2>2, <2>3, AfterStatusMoves
  <2>5. CASE Quiet(x, q)
    <3>1. Quiet(p, q)
      BY <1>2, <2>1, <2>2, <2>4, <2>5, QuietTransitive
    <3>2. QED
      BY <1>3, <1>5, <2>4, <3>1, UnmovedKeeps DEF Moved
  <2>6. CASE ~Quiet(x, q)
    <3>1. /\ \/ p.op = "verify" /\ p.goal = "used" /\ q.pc = "process"
             \/ p.op = "revoke" /\ q.pc = "done"
          /\ q.op = p.op /\ q.link = p.link /\ ~q.acted /\ q.swallowed = swallowed
      BY <1>2, <2>1, <2>4, <2>6 DEF Like, Control, Request
    <3>2. p.cur = p.link
      BY <1>2, <3>1 DEF Control
    <3>3. WorldOK' /\ UNCHANGED <<store, left, info, issued, delivered>>
      BY <1>1, <1>3 DEF redis, world, TypeOK, WorldOK
    <3>4. p.pc \in AtStatus
      BY <1>2 DEF AtStatus
    <3>5. QED
      BY <1>5, <2>4, <3>1, <3>2, <3>3, <3>4, FinishKeeps
  <2>7. QED
    BY <2>5, <2>6
<1>6. QED
  <2>1. PICK seen \in Seen(p.cur) :
           IF seen = "absent"
           THEN \E q \in AfterStatus([p EXCEPT !.swallowed =
                                        p.swallowed \/ seen # store[p.cur]]) : Become(r, q)
           ELSE Become(r, [p EXCEPT !.pc = "statusWrite"])
    BY DEF ReadForStatus
  <2>2. CASE seen = "absent"
    <3>1. (p.swallowed \/ seen # store[p.cur]) \in BOOLEAN
      OBVIOUS
    <3>2. store[p.cur] = "absent" \/ (p.swallowed \/ seen # store[p.cur])
      BY <2>2
    <3>3. PICK q \in AfterStatus([p EXCEPT !.swallowed = (p.swallowed \/ seen # store[p.cur])]) :
            Become(r, q)
      BY <2>1, <2>2
    <3>4. QED
      BY <1>5, <3>1, <3>2, <3>3
  <2>3. CASE seen # "absent"
    BY <1>4, <2>1, <2>3
  <2>4. QED
    BY <2>2, <2>3

LEMMA WriteStatusKeeps ==
    ASSUME IInv, History, NEW r \in Requests, WriteStatus(r)
    PROVE  IInv'
<1> DEFINE p == req[r]
<1>1. TypeOK /\ ControlOK
  BY DEF IInv
<1>2. /\ p \in Request /\ Control(p) /\ p.pc = "statusWrite" /\ p.pc \in AtStatus
      /\ p.cur \in Links /\ p.goal \in {"used", "revoked", "expired"}
  BY <1>1, Running DEF WriteStatus, Control, AtStatus
<1>3. CASE Throw(r)
  BY <1>2, <1>3, ThrowKeeps
<1>4. ASSUME store' = [store EXCEPT ![p.cur] = p.goal],
             storeTTL' = [storeTTL EXCEPT ![p.cur] = Expiry],
             NEW q \in AfterStatus(p), Become(r, q),
             UNCHANGED <<tokenTTL, index, indexTTL, daily, world>>
      PROVE  IInv'
  <2>1. WorldOK'
    <3>1. Expiry \in 0..Expiry /\ Expiry # 0 /\ p.goal \in Stored /\ p.goal # "absent"
      BY <1>2, ExpiryAssumption DEF Stored, Statuses
    <3>2. store' \in [Links -> Stored] /\ storeTTL' \in [Links -> 0..Expiry]
      BY <1>1, <1>4, <3>1 DEF TypeOK
    <3>3. \A id \in Links : store'[id] = "absent" <=> storeTTL'[id] = 0
      BY <1>1, <1>4, <3>1 DEF TypeOK
    <3>4. QED
      BY <1>1, <1>4, <3>2, <3>3 DEF WorldOK, TypeOK, world
  <2>2. /\ UNCHANGED <<left, info, issued, delivered>>
        /\ \A id \in delivered' : info[id].email # None
    BY <1>4 DEF world, IInv, FreshLinks
  <2>3. /\ store'[p.cur] = p.goal
        /\ \A id \in Links \ {p.cur} : store'[id] = store[id]
    BY <1>1, <1>2, <1>4 DEF TypeOK
  <2>4. /\ q \in Request /\ Control(q)
        /\ \/ Quiet(p, q)
           \/ /\ p.op = "verify" /\ p.goal = "used" /\ q.pc = "process"
              /\ Like(p, q) /\ q.swallowed = p.swallowed
           \/ /\ p.op = "revoke" /\ q.pc = "done" /\ q.op = "revoke" /\ q.link = p.link
              /\ ~q.acted /\ q.swallowed = p.swallowed
    BY <1>2, <1>4, AfterStatusMoves
  <2>5. CASE Quiet(p, q)
    <3>1. Moved(r)
      BY <1>4, <2>4, <2>5 DEF Moved
    <3>2. Closer(r, p.cur) /\ (p.goal = "expired" => left[p.cur] < 0)
      BY <1>2 DEF Closer, IInv, ExpiryOK
    <3>3. \A id \in Links : \/ store'[id] \in {store[id], "absent"}
                            \/ /\ store'[id] \in {"used", "revoked", "expired"}
                               /\ store'[id] = "expired" => left[id] < 0
                               /\ Closer(r, id)
      BY <1>2, <2>3, <3>2
    <3>4. QED
      BY <2>1, <2>2, <3>1, <3>3, MovedKeeps
  <2>6. CASE ~Quiet(p, q)
    <3>1. /\ \/ p.op = "verify" /\ p.goal = "used" /\ q.pc = "process"
             \/ p.op = "revoke" /\ q.pc = "done"
          /\ q.op = p.op /\ q.link = p.link /\ ~q.acted
      BY <1>2, <2>4, <2>6 DEF Like, Control, Request
    <3>2. p.cur = p.link /\ p.goal \in {"used", "revoked"}
      BY <1>2, <3>1 DEF Control
    <3>3. QED
      BY <1>2, <1>4, <2>1, <2>2, <2>3, <2>4, <3>1, <3>2, FinishKeeps
  <2>7. QED
    BY <2>5, <2>6
<1>5. QED
  BY <1>3, <1>4 DEF WriteStatus

-----------------------------------------------------------------------------
(* The invariant and what follows from it.                                 *)

LEMMA InitIInv == Init => IInv
<1> SUFFICES ASSUME Init
             PROVE  IInv
  OBVIOUS
<1>1. TypeOK
  <2>1. [email |-> None, action |-> None, hasUser |-> FALSE] \in LinkInfo
    BY DEF LinkInfo
  <2>2. 0 \in 0..Expiry /\ -1 \in -1..Expiry /\ NoTTL \in 1..NoTTL /\ "absent" \in Stored
    BY ExpiryAssumption DEF NoTTL, Stored
  <2>3. QED
    BY <2>1, <2>2, IdleType DEF Init, TypeOK
<1>2. \A r \in Requests : /\ req[r].pc = "idle" /\ req[r].op = None /\ ~req[r].acted
                          /\ req[r].goal = "pending"
  BY DEF Init, IdleRequest
<1>3. None \notin Ops
  BY NoneAssumption
<1>4. ControlOK
  BY <1>2, <1>3 DEF ControlOK, Control, Ops
<1>5. FreshLinks
  BY <1>2, <1>3 DEF Init, FreshLinks, Unstored, Ops
<1>6. OverlapNoted
  BY <1>2, <1>3 DEF OverlapNoted, Overlap, Sender, Closer, Permit, Ops
<1>7. ExpiryOK
  BY <1>2, <1>3 DEF Init, ExpiryOK, Unstored, Sender, Ops
<1>8. Exclusive
  BY <1>2, <1>3 DEF Exclusive, Consumer, Settled, Sender, Ops
<1>9. QED
  BY <1>1, <1>4, <1>5, <1>6, <1>7, <1>8 DEF IInv

LEMMA NextIInv == IInv /\ [Next]_vars => IInv'
<1> SUFFICES ASSUME IInv, [Next]_vars
             PROVE  IInv'
  OBVIOUS
<1>1. ASSUME NEW r \in Requests, Start(r), History
      PROVE  IInv'
  BY <1>1, StartGenerateKeeps, StartVerifyKeeps, StartResendKeeps, StartRevokeKeeps,
     StartCleanupKeeps
     DEF Start, LinkRoutes, AdministrationRoutes, LinkMutations, AdministrationMutations
<1>2. ASSUME NEW r \in Requests, Work(r)
      PROVE  IInv'
  BY <1>2, CheckLimitKeeps, LookupKeeps, MembersKeeps, ScanKeeps,
     StoreLinkKeeps, StoreTokenKeeps, StoreIndexKeeps, ExpireIndexKeeps,
     CountReadKeeps, CountWriteKeeps, MailKeeps, MailWriteKeeps,
     EmitKeeps, ReadTokenKeeps, LoadKeeps, ProcessKeeps,
     ReadForStatusKeeps, WriteStatusKeeps, ResendReadKeeps,
     StampWriteKeeps, KeysKeeps, CleanScanKeeps, DeleteReadKeeps,
     DeleteLinkKeeps, DeleteTokenKeeps, DeleteIndexKeeps
  DEF Work, Advance
<1>3. CASE Tick /\ History
  BY <1>3, TickKeeps
<1>4. CASE Midnight /\ History
  BY <1>4, MidnightKeeps
<1>5. CASE UNCHANGED vars
  <2>1. UNCHANGED <<store, storeTTL, tokenTTL, index, indexTTL, daily, left, info, issued,
                    accounts, delivered, counted, req, conflict, unsettled>>
    BY <1>5 DEF vars, redis, world
  <2>2. TypeOK' /\ ControlOK'
    BY <2>1 DEF IInv, TypeOK, ControlOK
  <2>3. FreshLinks' /\ ExpiryOK'
    BY <2>1 DEF IInv, FreshLinks, ExpiryOK, Unstored, Sender
  <2>4. OverlapNoted' /\ Exclusive'
    BY <2>1 DEF IInv, OverlapNoted, Overlap, Exclusive, Shut, Sender, Permit, Closer, Consumer
  <2>5. QED
    BY <2>2, <2>3, <2>4 DEF IInv
<1>6. QED
  BY <1>1, <1>2, <1>3, <1>4, <1>5 DEF Next

\* The inductive invariant holds throughout.
THEOREM Invariance == Spec => []IInv
  BY InitIInv, NextIInv, PTL DEF Spec

\* Every variable keeps its type, and a key of Redis is absent exactly when
\* it has no time to live: magic-link.service.ts, all of its writes.
THEOREM TypeCorrect == Spec => []TypeOK
<1>1. IInv => TypeOK
  BY DEF IInv
<1>2. QED
  BY <1>1, Invariance, PTL

\* verifyMagicLink lets at most one caller in per link, whatever the number
\* of calls and processes, as long as no overlap named by Overlap occurred.
THEOREM SingleUseHolds == Spec => []SingleUse
<1>1. IInv => SingleUse
  BY DEF IInv, Exclusive, SingleUse, Won, Consumer
<1>2. QED
  BY <1>1, Invariance, PTL

\* Once revokeMagicLink has reported success the link lets nobody in, under
\* the same proviso.
THEOREM RevocationIsFinal == Spec => []RevocationHolds
<1>1. ASSUME IInv
      PROVE  RevocationHolds
  <2> SUFFICES ASSUME NEW r \in Requests, Settled(req[r]), ~conflict[req[r].link]
               PROVE  ~Usable(req[r].link)
    BY DEF RevocationHolds, Settled
  <2>1. req[r].link \in Links
    BY <1>1 DEF IInv, ControlOK, Control, Settled
  <2>2. QED
    BY <1>1, <2>1 DEF IInv, Exclusive, Usable
<1>2. QED
  BY <1>1, Invariance, PTL

\* Only a mailer writes "pending" over a closed link, and a link that is
\* stored for the first time has not been mailed yet.
LEMMA Reopening ==
    ASSUME IInv, Next, NEW id \in Links,
           store[id] \in {"used", "revoked", "expired"}, store'[id] = "pending"
    PROVE  id \notin delivered' \/ \E s \in Requests : Sender(s, id)
<1>1. TypeOK /\ ControlOK
  BY DEF IInv
<1>2. store'[id] # store[id]
  OBVIOUS
<1>3. ASSUME NEW r \in Requests, StoreLink(r)
      PROVE  id \notin delivered'
  <2>1. req[r].pc = "storeLink" /\ store' = [store EXCEPT ![req[r].link] = "pending"]
        /\ UNCHANGED delivered
    BY <1>2, <1>3 DEF StoreLink, Throw, redis
  <2>2. id = req[r].link /\ Unstored(r)
    BY <1>1, <1>2, <2>1 DEF TypeOK, Unstored, ControlOK, Control
  <2>3. QED
    BY <2>1, <2>2 DEF IInv, FreshLinks
<1>4. ASSUME NEW r \in Requests, MailWrite(r) \/ StampWrite(r)
      PROVE  Sender(r, id)
  <2>1. req[r].pc \in {"mailWrite", "stampWrite"}
        /\ store' = [store EXCEPT ![req[r].link] = req[r].copy]
    BY <1>2, <1>4 DEF MailWrite, StampWrite, Throw, redis
  <2>2. id = req[r].link
    BY <1>1, <1>2, <2>1 DEF TypeOK
  <2>3. QED
    BY <1>1, <2>1, <2>2 DEF Sender, ControlOK, Control
<1>5. ASSUME NEW r \in Requests, WriteStatus(r)
      PROVE  FALSE
  <2>1. req[r].pc = "statusWrite" /\ store' = [store EXCEPT ![req[r].cur] = req[r].goal]
    BY <1>2, <1>5 DEF WriteStatus, Throw, redis
  <2>2. req[r].goal # "pending"
    BY <1>1, <2>1 DEF ControlOK, Control
  <2>3. QED
    BY <1>1, <2>1, <2>2 DEF TypeOK
<1>6. ASSUME NEW r \in Requests, DeleteLink(r)
      PROVE  FALSE
  BY <1>1, <1>2, <1>6 DEF DeleteLink, Throw, redis, TypeOK
<1>7. ASSUME NEW r \in Requests, Start(r)
      PROVE  FALSE
  BY <1>2, <1>7 DEF Start, LinkRoutes, AdministrationRoutes, LinkMutations, AdministrationMutations,
                  StartGenerate, StartVerify, StartResend, StartRevoke, StartCleanup, redis
<1>8. ASSUME NEW r \in Requests,
             \/ CheckLimit(r) \/ Lookup(r) \/ Members(r) \/ Scan(r) \/ StoreToken(r)
             \/ StoreIndex(r) \/ ExpireIndex(r) \/ CountRead(r) \/ CountWrite(r)
             \/ Mail(r) \/ Emit(r)
      PROVE  FALSE
  BY <1>2, <1>8 DEF CheckLimit, Lookup, Members, Scan, StoreToken, StoreIndex, ExpireIndex,
                    CountRead, CountWrite, Mail, Emit, Throw, redis
<1>9. ASSUME NEW r \in Requests,
             \/ ReadToken(r) \/ Load(r) \/ Process(r) \/ ReadForStatus(r) \/ ResendRead(r)
             \/ Keys(r) \/ CleanScan(r) \/ DeleteRead(r) \/ DeleteToken(r) \/ DeleteIndex(r)
      PROVE  FALSE
  BY <1>2, <1>9 DEF ReadToken, Load, Process, ReadForStatus, ResendRead, Keys, CleanScan,
                    DeleteRead, DeleteToken, DeleteIndex, Throw, redis
<1>10. CASE Tick
  BY <1>2, <1>10 DEF Tick
<1>11. CASE Midnight
  BY <1>2, <1>11 DEF Midnight
<1>12. QED
  BY <1>3, <1>4, <1>5, <1>6, <1>7, <1>8, <1>9, <1>10, <1>11 DEF Next, Work, Advance

\* A link that is used, revoked or expired stays out of use: no later write
\* of magic-link.service.ts makes it usable again, under the same proviso.
THEOREM ClosedLinksStayClosed == Spec => ClosedStaysClosed
<1>1. ASSUME IInv, [Next]_vars, NEW id \in Links,
             store[id] \in {"used", "revoked", "expired"}, ~conflict'[id]
      PROVE  ~Usable(id)'
  <2>1. CASE store'[id] # "pending"
    BY <2>1 DEF Usable
  <2>2. CASE store'[id] = "pending"
    <3>1. Next
      BY <1>1, <2>2 DEF vars, redis
    <3>2. TypeOK /\ History
      BY <1>1, <3>1 DEF IInv, Next, Work
    <3>3. ~conflict[id]
      BY <1>1, <3>2, HistoryGrows
    <3>4. \A s \in Requests : ~Sender(s, id)
      BY <1>1, <3>3 DEF IInv, Exclusive
    <3>5. id \notin delivered'
      BY <1>1, <2>2, <3>1, <3>4, Reopening
    <3>6. QED
      BY <3>5 DEF Usable
  <2>3. QED
    BY <2>1, <2>2
<1>2. IInv /\ [Next]_vars =>
         \A id \in Links : store[id] \in {"used", "revoked", "expired"} /\ ~conflict'[id]
                           => ~Usable(id)'
  BY <1>1
<1>3. QED
  BY <1>2, Invariance, PTL DEF Spec, ClosedStaysClosed

-----------------------------------------------------------------------------
(* What each step does to its request and to the links, field by field:    *)
(* for the invariants behind CounterNeverOvercharges, CleanupSparesLive    *)
(* and OneUsableLink.                                                      *)

\* r takes a step; every other request waits.
Turn(r) ==
    /\ req' \in [Requests -> Request]
    /\ \A s \in Requests : s # r => req'[s] = req[s]

Keeps(p, q) ==
    /\ q.op = p.op /\ q.email = p.email /\ q.link = p.link /\ q.pend = p.pend

\* r goes from one step to another, to be at link id or still at the same one,
\* or has answered.
Picks(r, from, to, id) ==
    /\ Turn(r) /\ Keeps(req[r], req'[r])
    /\ req[r].pc = from /\ req'[r].pc = to /\ req'[r].cur = id

Goes(r, from, to) == Picks(r, from, to, req[r].cur)

Answered(r) ==
    /\ Turn(r)
    /\ req'[r].pc = "done" /\ req'[r].email = None /\ req'[r].pend = {}
    /\ req'[r].op = req[r].op /\ req'[r].link = req[r].link

LEMMA BecomeTurns ==
    ASSUME TypeOK, NEW r \in Requests, NEW q \in Request, Become(r, q)
    PROVE  Turn(r) /\ req'[r] = q
  BY DEF TypeOK, Become, Turn

LEMMA AnswerAnswers ==
    ASSUME TypeOK, NEW r \in Requests, NEW reply \in {None, "success", "failure"},
           Become(r, Answer(req[r], reply))
    PROVE  Answered(r)
<1> DEFINE q == Answer(req[r], reply)
<1>1. req[r] \in Request
  BY DEF TypeOK
<1>2. q \in Request /\ q.pc = "done" /\ q.op = req[r].op /\ q.link = req[r].link
  BY <1>1, AnswerFields
<1>3. q.email = None /\ q.pend = {}
  BY DEF Answer, IdleRequest
<1>4. Turn(r) /\ req'[r] = q
  BY <1>2, BecomeTurns
<1>5. QED
  BY <1>2, <1>3, <1>4 DEF Answered

LEMMA NextPCKeeps ==
    ASSUME NEW p \in Request, NEW pc \in PCs, NEW q, q = [p EXCEPT !.pc = pc]
    PROVE  q \in Request /\ q.pc = pc /\ q.cur = p.cur /\ Keeps(p, q)
  BY DEF Request, Keeps

LEMMA NextPCGoes ==
    ASSUME TypeOK, NEW r \in Requests, NEW pc \in PCs, Become(r, [req[r] EXCEPT !.pc = pc])
    PROVE  Goes(r, req[r].pc, pc)
<1> DEFINE q == [req[r] EXCEPT !.pc = pc]
<1>1. req[r] \in Request
  BY DEF TypeOK
<1>2. q \in Request /\ q.pc = pc /\ q.cur = req[r].cur /\ Keeps(req[r], q)
  BY <1>1, NextPCKeeps
<1>3. Turn(r) /\ req'[r] = q
  BY <1>2, BecomeTurns
<1>4. QED
  BY <1>2, <1>3 DEF Goes, Picks

LEMMA ThrowAnswers ==
    ASSUME TypeOK, NEW r \in Requests, Throw(r)
    PROVE  Answered(r)
  BY AnswerAnswers DEF Throw

LEMMA CheckLimitDoes ==
    ASSUME TypeOK, NEW r \in Requests, CheckLimit(r)
    PROVE  /\ Goes(r, "checkLimit", "lookup") \/ Answered(r)
           /\ req[r].pc = "checkLimit" /\ UNCHANGED <<redis, world>>
<1> DEFINE p == req[r]
<1>1. p \in Request /\ p.pc = "checkLimit"
  BY DEF TypeOK, CheckLimit
<1>4. UNCHANGED <<redis, world>>
  BY DEF CheckLimit, Throw
<1>2. CASE Become(r, [p EXCEPT !.pc = "lookup"])
  BY <1>1, <1>2, <1>4, NextPCGoes DEF PCs
<1>3. CASE Become(r, Answer(p, "failure"))
  BY <1>1, <1>3, <1>4, AnswerAnswers
<1>5. QED
  BY <1>1, <1>2, <1>3, <1>4 DEF CheckLimit, Throw

LEMMA LookupDoes ==
    ASSUME TypeOK, ControlOK, NEW r \in Requests, Lookup(r)
    PROVE  /\ Goes(r, "lookup", "members") \/ Answered(r)
           /\ req[r].pc = "lookup" /\ UNCHANGED <<redis, world>>
<1> DEFINE p == req[r]
           q == [p EXCEPT !.pc = "members", !.hasUser = accounts[p.email]]
<1>1. p \in Request /\ Control(p) /\ p.pc = "lookup"
  BY Running DEF Lookup
<1>2. CASE Become(r, q)
  <2>1. "members" \in PCs /\ accounts[p.email] \in BOOLEAN
    BY <1>1 DEF PCs, TypeOK, Control
  <2>2. q \in Request /\ q.pc = "members" /\ q.cur = p.cur /\ Keeps(p, q)
    BY <1>1, <2>1 DEF Request, Keeps
  <2>3. Turn(r) /\ req'[r] = q
    BY <1>2, <2>2, BecomeTurns
  <2>4. QED
    BY <1>1, <2>2, <2>3 DEF Goes, Picks, Lookup
<1>3. CASE Become(r, Answer(p, "failure"))
  BY <1>1, <1>3, AnswerAnswers DEF Lookup
<1>4. QED
  BY <1>2, <1>3 DEF Lookup

\* Between two links a generation has the ones in rest still to do.
Resumes(p, q, rest) ==
    /\ q.op = p.op /\ q.email = p.email /\ q.link = p.link /\ q.swallowed = p.swallowed
    /\ q.pend \subseteq p.pend
    /\ \/ q.pc = "storeLink" /\ rest = {}
       \/ q.pc = "scan" /\ ToRevoke(q) = rest
       \/ q.pc = "statusRead" /\ ToRevoke(q) = rest /\ q.cur \in p.pend

LEMMA RevokeOrStoreDoes ==
    ASSUME NEW p \in Request, NEW q \in RevokeOrStore(p)
    PROVE  q \in Request /\ Resumes(p, q, p.pend)
<1>1. CASE p.pend = {}
  <2>1. "storeLink" \in PCs
    BY DEF PCs
  <2>2. q = [p EXCEPT !.pc = "storeLink"]
    BY <1>1 DEF RevokeOrStore
  <2>3. /\ q \in Request /\ q.pc = "storeLink" /\ q.pend = p.pend /\ q.op = p.op
        /\ q.email = p.email /\ q.link = p.link /\ q.swallowed = p.swallowed
    BY <2>1, <2>2 DEF Request
  <2>4. QED
    BY <1>1, <2>3 DEF Resumes
<1>2. CASE p.pend # {}
  <2>1. PICK id \in p.pend : q = [p EXCEPT !.pc = "statusRead", !.cur = id, !.goal = "revoked",
                                           !.pend = p.pend \ {id}]
    BY <1>2 DEF RevokeOrStore
  <2>2. id \in Links /\ p.pend \ {id} \in SUBSET Links
        /\ "statusRead" \in PCs /\ "revoked" \in Statuses
    BY DEF Request, PCs, Statuses
  <2>3. /\ q \in Request /\ q.pc = "statusRead" /\ q.cur = id /\ q.pend = p.pend \ {id}
        /\ q.op = p.op /\ q.email = p.email /\ q.link = p.link /\ q.swallowed = p.swallowed
    BY <2>1, <2>2 DEF Request
  <2>4. ToRevoke(q) = p.pend
    BY <2>3 DEF ToRevoke
  <2>5. QED
    BY <2>3, <2>4 DEF Resumes
<1>3. QED
  BY <1>1, <1>2

LEMMA ScanOrRevokeDoes ==
    ASSUME NEW p \in Request, NEW q \in ScanOrRevoke(p)
    PROVE  q \in Request /\ Resumes(p, q, p.todo \cup p.pend)
<1>1. CASE p.todo = {}
  <2>1. q \in Request /\ Resumes(p, q, p.pend)
    BY <1>1, RevokeOrStoreDoes DEF ScanOrRevoke
  <2>2. p.todo \cup p.pend = p.pend
    BY <1>1
  <2>3. QED
    BY <2>1, <2>2
<1>2. CASE p.todo # {}
  <2>1. "scan" \in PCs
    BY DEF PCs
  <2>2. q = [p EXCEPT !.pc = "scan"]
    BY <1>2 DEF ScanOrRevoke
  <2>3. /\ q \in Request /\ q.pc = "scan" /\ q.pend = p.pend /\ q.todo = p.todo /\ q.op = p.op
        /\ q.email = p.email /\ q.link = p.link /\ q.swallowed = p.swallowed
    BY <2>1, <2>2 DEF Request
  <2>4. ToRevoke(q) = p.todo \cup p.pend
    BY <2>3 DEF ToRevoke
  <2>5. QED
    BY <2>3, <2>4 DEF Resumes
<1>3. QED
  BY <1>1, <1>2

LEMMA MembersDoes ==
    ASSUME TypeOK, ControlOK, NEW r \in Requests, Members(r)
    PROVE  /\ req[r].pc = "members" /\ UNCHANGED <<redis, world>> /\ Turn(r)
           /\ \E x \in Request :
                 /\ x.op = req[r].op /\ x.email = req[r].email /\ x.link = req[r].link
                 /\ x.pend = req[r].pend
                 /\ x.todo = index[req[r].email] \/ x.swallowed
                 /\ Resumes(x, req'[r], x.todo \cup x.pend)
<1> DEFINE p == req[r]
<1>1. p \in Request /\ Control(p) /\ p.pc = "members" /\ p.op = "generate" /\ p.email \in Emails
  BY Running DEF Members, Control
<1>2. PICK found \in {index[p.email]} \cup (IF RedisMayFail THEN {{}} ELSE {}) :
         \E q \in ScanOrRevoke([p EXCEPT !.todo = found, !.swallowed = (found # index[p.email])]) :
            Become(r, q)
  BY DEF Members
<1>3. found \in SUBSET Links
  BY <1>1, <1>2 DEF TypeOK
<1> DEFINE lost == found # index[p.email]
           x == [p EXCEPT !.todo = found, !.swallowed = lost]
<1>4. lost \in BOOLEAN /\ (lost \/ found = index[p.email])
  OBVIOUS
<1>5. PICK q \in ScanOrRevoke(x) : Become(r, q)
  BY <1>2
<1> HIDE DEF lost
<1>6. /\ x \in Request /\ x.op = p.op /\ x.email = p.email /\ x.link = p.link /\ x.pend = p.pend
      /\ x.todo = found /\ x.swallowed = lost
  BY <1>1, <1>3, <1>4 DEF Request
<1> HIDE DEF x
<1>7. q \in Request /\ Resumes(x, q, x.todo \cup x.pend)
  BY <1>5, <1>6, ScanOrRevokeDoes
<1>8. Turn(r) /\ req'[r] = q
  BY <1>5, <1>7, BecomeTurns
<1>9. x.todo = index[p.email] \/ x.swallowed
  BY <1>4, <1>6
<1>10. UNCHANGED <<redis, world>>
  BY DEF Members
<1>11. QED
  BY <1>1, <1>6, <1>7, <1>8, <1>9, <1>10

LEMMA ScanDoes ==
    ASSUME TypeOK, ControlOK, NEW r \in Requests, Scan(r)
    PROVE  /\ req[r].pc = "scan" /\ UNCHANGED <<redis, world>> /\ Turn(r)
           /\ \E id \in req[r].todo : \E seen \in Seen(id) : \E x \in Request :
                 /\ x.op = req[r].op /\ x.email = req[r].email /\ x.link = req[r].link
                 /\ x.todo = req[r].todo \ {id}
                 /\ x.pend = IF seen = "pending" THEN req[r].pend \cup {id} ELSE req[r].pend
                 /\ seen = store[id] \/ x.swallowed
                 /\ Resumes(x, req'[r], x.todo \cup x.pend)
<1> DEFINE p == req[r]
<1>1. p \in Request /\ Control(p) /\ p.pc = "scan" /\ p.op = "generate"
  BY Running DEF Scan, Control
<1>2. PICK id \in p.todo : \E seen \in Seen(id) :
         \E q \in ScanOrRevoke(
                [p EXCEPT !.todo = p.todo \ {id},
                          !.pend = IF seen = "pending" THEN p.pend \cup {id} ELSE p.pend,
                          !.swallowed = p.swallowed \/ seen # store[id]]) :
            Become(r, q)
  BY DEF Scan
<1>2a. PICK seen \in Seen(id) :
         \E q \in ScanOrRevoke(
                [p EXCEPT !.todo = p.todo \ {id},
                          !.pend = IF seen = "pending" THEN p.pend \cup {id} ELSE p.pend,
                          !.swallowed = p.swallowed \/ seen # store[id]]) :
            Become(r, q)
  BY <1>2
<1> DEFINE todo == p.todo \ {id}
           pend == IF seen = "pending" THEN p.pend \cup {id} ELSE p.pend
           swallowed == p.swallowed \/ seen # store[id]
           x == [p EXCEPT !.todo = todo, !.pend = pend, !.swallowed = swallowed]
<1>3. p.todo \in SUBSET Links /\ p.pend \in SUBSET Links
  BY <1>1 DEF Request
<1>4. todo \in SUBSET Links /\ pend \in SUBSET Links
  BY <1>2, <1>3
<1>4a. swallowed \in BOOLEAN /\ (seen = store[id] \/ swallowed)
  BY <1>1 DEF Request
<1>5. PICK q \in ScanOrRevoke(x) : Become(r, q)
  BY <1>2a
<1> HIDE DEF todo, pend, swallowed
<1>6. /\ x \in Request /\ x.op = p.op /\ x.email = p.email /\ x.link = p.link
      /\ x.todo = todo /\ x.pend = pend /\ x.swallowed = swallowed
  BY <1>1, <1>4, <1>4a DEF Request
<1> HIDE DEF x
<1>7. q \in Request /\ Resumes(x, q, x.todo \cup x.pend)
  BY <1>5, <1>6, ScanOrRevokeDoes
<1>8. Turn(r) /\ req'[r] = q
  BY <1>5, <1>7, BecomeTurns
<1>9. /\ x.todo = p.todo \ {id}
      /\ seen = store[id] \/ x.swallowed
      /\ x.pend = IF seen = "pending" THEN p.pend \cup {id} ELSE p.pend
  BY <1>4a, <1>6 DEF todo, pend
<1>10. UNCHANGED <<redis, world>>
  BY DEF Scan
<1>11. x.op = p.op /\ x.email = p.email /\ x.link = p.link /\ Resumes(x, req'[r], x.todo \cup x.pend)
  BY <1>6, <1>7, <1>8
<1>12. x \in Request
  BY <1>6
<1> HIDE DEF p
<1>13. \E y \in Request :
                 /\ y.op = p.op /\ y.email = p.email /\ y.link = p.link
                 /\ y.todo = p.todo \ {id}
                 /\ y.pend = IF seen = "pending" THEN p.pend \cup {id} ELSE p.pend
                 /\ seen = store[id] \/ y.swallowed
                 /\ Resumes(y, req'[r], y.todo \cup y.pend)
  <2> WITNESS x \in Request
  <2> QED
    BY <1>9, <1>11
<1> USE DEF p
<1>14. QED
  BY <1>1, <1>2, <1>2a, <1>8, <1>10, <1>13
LEMMA StoreLinkDoes ==
    ASSUME TypeOK, NEW r \in Requests, StoreLink(r)
    PROVE  /\ req[r].pc = "storeLink"
           /\ \/ /\ Goes(r, "storeLink", "storeToken")
                 /\ store' = [store EXCEPT ![req[r].link] = "pending"]
                 /\ left' = [left EXCEPT ![req[r].link] = Expiry]
                 /\ info' = [info EXCEPT ![req[r].link] =
                              [email |-> req[r].email, action |-> req[r].action,
                               hasUser |-> req[r].hasUser]]
                 /\ UNCHANGED <<tokenTTL, index, indexTTL, daily, issued, accounts, delivered, counted>>
              \/ Answered(r) /\ UNCHANGED <<redis, world>>
<1>1. CASE Throw(r)
  BY <1>1, ThrowAnswers DEF StoreLink, Throw
<1>2. CASE ~Throw(r)
  <2>1. Become(r, [req[r] EXCEPT !.pc = "storeToken"]) /\ req[r].pc = "storeLink"
    BY <1>2 DEF StoreLink
  <2>2. Goes(r, "storeLink", "storeToken")
    BY <2>1, NextPCGoes DEF PCs
  <2>5. QED
    BY <1>2, <2>1, <2>2 DEF StoreLink
<1>3. QED
  BY <1>1, <1>2

LEMMA StoreTokenDoes ==
    ASSUME TypeOK, NEW r \in Requests, StoreToken(r)
    PROVE  /\ req[r].pc = "storeToken"
           /\ \/ /\ Goes(r, "storeToken", "storeIndex")
                 /\ tokenTTL' = [tokenTTL EXCEPT ![req[r].link] = Expiry]
                 /\ UNCHANGED <<store, storeTTL, index, indexTTL, daily, world>>
              \/ Answered(r) /\ UNCHANGED <<redis, world>>
<1>1. CASE Throw(r)
  BY <1>1, ThrowAnswers DEF StoreToken, Throw
<1>2. CASE ~Throw(r)
  <2>1. Become(r, [req[r] EXCEPT !.pc = "storeIndex"]) /\ req[r].pc = "storeToken"
    BY <1>2 DEF StoreToken
  <2>2. Goes(r, "storeToken", "storeIndex")
    BY <2>1, NextPCGoes DEF PCs
  <2>5. QED
    BY <1>2, <2>1, <2>2 DEF StoreToken
<1>3. QED
  BY <1>1, <1>2

LEMMA DeleteLinkDoes ==
    ASSUME TypeOK, NEW r \in Requests, DeleteLink(r)
    PROVE  /\ req[r].pc = "deleteLink"
           /\ \/ /\ Goes(r, "deleteLink", "deleteToken")
                 /\ store' = [store EXCEPT ![req[r].cur] = "absent"]
                 /\ UNCHANGED <<tokenTTL, index, indexTTL, daily, world>>
              \/ Answered(r) /\ UNCHANGED <<redis, world>>
<1>1. CASE Throw(r)
  BY <1>1, ThrowAnswers DEF DeleteLink, Throw
<1>2. CASE ~Throw(r)
  <2>1. Become(r, [req[r] EXCEPT !.pc = "deleteToken"]) /\ req[r].pc = "deleteLink"
    BY <1>2 DEF DeleteLink
  <2>2. Goes(r, "deleteLink", "deleteToken")
    BY <2>1, NextPCGoes DEF PCs
  <2>5. QED
    BY <1>2, <2>1, <2>2 DEF DeleteLink
<1>3. QED
  BY <1>1, <1>2

LEMMA DeleteTokenDoes ==
    ASSUME TypeOK, NEW r \in Requests, DeleteToken(r)
    PROVE  /\ req[r].pc = "deleteToken"
           /\ \/ /\ Goes(r, "deleteToken", "deleteIndex")
                 /\ tokenTTL' = [tokenTTL EXCEPT ![req[r].cur] = 0]
                 /\ UNCHANGED <<store, storeTTL, index, indexTTL, daily, world>>
              \/ Answered(r) /\ UNCHANGED <<redis, world>>
<1>1. CASE Throw(r)
  BY <1>1, ThrowAnswers DEF DeleteToken, Throw
<1>2. CASE ~Throw(r)
  <2>1. Become(r, [req[r] EXCEPT !.pc = "deleteIndex"]) /\ req[r].pc = "deleteToken"
    BY <1>2 DEF DeleteToken
  <2>2. Goes(r, "deleteToken", "deleteIndex")
    BY <2>1, NextPCGoes DEF PCs
  <2>5. QED
    BY <1>2, <2>1, <2>2 DEF DeleteToken
<1>3. QED
  BY <1>1, <1>2

LEMMA ReadTokenDoes ==
    ASSUME TypeOK, NEW r \in Requests, ReadToken(r)
    PROVE  /\ Goes(r, "token", "load") \/ Answered(r)
           /\ req[r].pc = "token" /\ UNCHANGED <<redis, world>>
<1>1. req[r].pc = "token" /\ UNCHANGED <<redis, world>>
  BY DEF ReadToken, Throw
<1>2. Goes(r, "token", "load") \/ Answered(r)
  BY <1>1, NextPCGoes, AnswerAnswers DEF ReadToken, Throw, PCs
<1>3. QED
  BY <1>1, <1>2

LEMMA StoreIndexDoes ==
    ASSUME TypeOK, NEW r \in Requests, StoreIndex(r)
    PROVE  /\ Goes(r, "storeIndex", "expireIndex")
           /\ UNCHANGED <<store, storeTTL, tokenTTL, indexTTL, daily, world>>
           /\ \/ index' = [index EXCEPT ![req[r].email] = @ \cup {req[r].link}]
              \/ index' = index /\ req'[r].swallowed
<1> DEFINE p == req[r]
           q == [p EXCEPT !.pc = "expireIndex", !.swallowed = TRUE]
<1>1. p \in Request /\ p.pc = "storeIndex" /\ "expireIndex" \in PCs
  BY DEF TypeOK, StoreIndex, PCs
<1>2. UNCHANGED <<store, storeTTL, tokenTTL, indexTTL, daily, world>>
  BY DEF StoreIndex
<1>3. CASE /\ index' = [index EXCEPT ![p.email] = @ \cup {p.link}]
           /\ Become(r, [p EXCEPT !.pc = "expireIndex"])
  BY <1>1, <1>2, <1>3, NextPCGoes
<1>4. CASE Become(r, q) /\ UNCHANGED index
  <2>1. q \in Request /\ q.pc = "expireIndex" /\ q.cur = p.cur /\ Keeps(p, q) /\ q.swallowed
    BY <1>1 DEF Request, Keeps
  <2>2. Turn(r) /\ req'[r] = q
    BY <1>4, <2>1, BecomeTurns
  <2>3. QED
    BY <1>1, <1>2, <1>4, <2>1, <2>2 DEF Goes, Picks
<1>5. QED
  BY <1>3, <1>4 DEF StoreIndex

LEMMA ExpireIndexDoes ==
    ASSUME TypeOK, NEW r \in Requests, ExpireIndex(r)
    PROVE  /\ Goes(r, "expireIndex", "countRead")
           /\ UNCHANGED <<store, storeTTL, tokenTTL, index, daily, world>>
           /\ \/ indexTTL' = [indexTTL EXCEPT ![req[r].email] =
                                 IF index[req[r].email] = {} THEN NoTTL ELSE Expiry]
              \/ indexTTL' = indexTTL /\ req'[r].swallowed
<1> DEFINE p == req[r]
           q == [p EXCEPT !.pc = "countRead", !.swallowed = TRUE]
<1>1. p \in Request /\ p.pc = "expireIndex" /\ "countRead" \in PCs
  BY DEF TypeOK, ExpireIndex, PCs
<1>2. UNCHANGED <<store, storeTTL, tokenTTL, index, daily, world>>
  BY DEF ExpireIndex
<1>3. CASE /\ indexTTL' = [indexTTL EXCEPT ![p.email] =
                              IF index[p.email] = {} THEN NoTTL ELSE Expiry]
           /\ Become(r, [p EXCEPT !.pc = "countRead"])
  BY <1>1, <1>2, <1>3, NextPCGoes
<1>4. CASE Become(r, q) /\ UNCHANGED indexTTL
  <2>1. q \in Request /\ q.pc = "countRead" /\ q.cur = p.cur /\ Keeps(p, q) /\ q.swallowed
    BY <1>1 DEF Request, Keeps
  <2>2. Turn(r) /\ req'[r] = q
    BY <1>4, <2>1, BecomeTurns
  <2>3. QED
    BY <1>1, <1>2, <1>4, <2>1, <2>2 DEF Goes, Picks
<1>5. QED
  BY <1>3, <1>4 DEF ExpireIndex

LEMMA CountReadDoes ==
    ASSUME TypeOK, ControlOK, NEW r \in Requests, CountRead(r)
    PROVE  /\ req[r].pc = "countRead" /\ UNCHANGED <<redis, world>>
           /\ \/ /\ Goes(r, "countRead", "countWrite")
                 /\ req'[r].count = daily[req[r].email]
              \/ Answered(r)
<1> DEFINE p == req[r]
           q == [p EXCEPT !.pc = "countWrite", !.count = daily[p.email], !.today = TRUE]
<1>1. p \in Request /\ Control(p) /\ p.pc = "countRead" /\ UNCHANGED <<redis, world>>
  BY Running DEF CountRead, Throw
<1>2. CASE Throw(r)
  BY <1>1, <1>2, ThrowAnswers
<1>3. CASE Become(r, q)
  <2>1. "countWrite" \in PCs /\ daily[p.email] \in Nat
    BY <1>1 DEF PCs, TypeOK, Control
  <2>2. /\ q \in Request /\ q.pc = "countWrite" /\ q.cur = p.cur /\ Keeps(p, q)
        /\ q.count = daily[p.email]
    BY <1>1, <2>1 DEF Request, Keeps
  <2>3. Turn(r) /\ req'[r] = q
    BY <1>3, <2>2, BecomeTurns
  <2>4. QED
    BY <1>1, <2>2, <2>3 DEF Goes, Picks
<1>4. QED
  BY <1>1, <1>2, <1>3 DEF CountRead

LEMMA CountWriteDoes ==
    ASSUME TypeOK, ControlOK, NEW r \in Requests, CountWrite(r)
    PROVE  /\ req[r].pc = "countWrite"
           /\ \/ /\ Goes(r, "countWrite", "mail")
                 /\ daily' = IF req[r].today THEN [daily EXCEPT ![req[r].email] = req[r].count + 1]
                                             ELSE daily
                 /\ counted' = IF req[r].today THEN [counted EXCEPT ![req[r].email] = @ + 1]
                                               ELSE counted
                 /\ UNCHANGED <<store, storeTTL, tokenTTL, index, indexTTL,
                                left, info, issued, accounts, delivered>>
              \/ Answered(r) /\ UNCHANGED <<redis, world>>
<1> DEFINE p == req[r]
           q == [p EXCEPT !.pc = "mail", !.count = 0]
<1>1. p \in Request /\ p.pc = "countWrite"
  BY DEF CountWrite, TypeOK
<1>2. CASE Throw(r)
  BY <1>1, <1>2, ThrowAnswers DEF Throw
<1>3. CASE ~Throw(r)
  <2>1. "mail" \in PCs
    BY DEF PCs
  <2>2. q \in Request /\ q.pc = "mail" /\ q.cur = p.cur /\ Keeps(p, q)
    BY <1>1, <2>1 DEF Request, Keeps
  <2>3. Become(r, q)
    BY <1>3 DEF CountWrite
  <2>4. Turn(r) /\ req'[r] = q
    BY <2>2, <2>3, BecomeTurns
  <2>5. Goes(r, "countWrite", "mail")
    BY <1>1, <2>2, <2>4 DEF Goes, Picks
  <2>6. QED
    BY <1>1, <1>3, <2>5 DEF CountWrite
<1>4. QED
  BY <1>2, <1>3

LEMMA EmitGoes ==
    ASSUME TypeOK, NEW r \in Requests,
           Become(r, [req[r] EXCEPT !.pc = "emit", !.reply = "success"])
    PROVE  Goes(r, req[r].pc, "emit")
<1> DEFINE p == req[r]
           q == [p EXCEPT !.pc = "emit", !.reply = "success"]
<1>1. p \in Request /\ "emit" \in PCs
  BY DEF TypeOK, PCs
<1>2. q \in Request /\ q.pc = "emit" /\ q.cur = p.cur /\ Keeps(p, q)
  BY <1>1 DEF Request, Keeps
<1>3. Turn(r) /\ req'[r] = q
  BY <1>2, BecomeTurns
<1>4. QED
  BY <1>2, <1>3 DEF Goes, Picks

LEMMA MailDoes ==
    ASSUME TypeOK, NEW r \in Requests, Mail(r)
    PROVE  /\ req[r].pc = "mail" /\ UNCHANGED <<redis, left, info, issued, accounts, counted>>
           /\ Goes(r, "mail", "mailWrite") \/ Goes(r, "mail", "emit") \/ Answered(r)
<1>1. req[r].pc = "mail" /\ UNCHANGED <<redis, left, info, issued, accounts, counted>>
  BY DEF Mail
<1>2. CASE Become(r, [req[r] EXCEPT !.pc = "mailWrite"])
  BY <1>1, <1>2, NextPCGoes DEF PCs
<1>3. CASE Become(r, [req[r] EXCEPT !.pc = "emit", !.reply = "success"])
  BY <1>1, <1>3, EmitGoes
<1>4. CASE Become(r, Answer(req[r], "failure"))
  BY <1>1, <1>4, AnswerAnswers
<1>5. QED
  BY <1>2, <1>3, <1>4 DEF Mail

LEMMA MailWriteDoes ==
    ASSUME TypeOK, NEW r \in Requests, MailWrite(r)
    PROVE  /\ req[r].pc = "mailWrite" /\ UNCHANGED <<tokenTTL, index, indexTTL, daily, world>>
           /\ store' = [store EXCEPT ![req[r].link] = req[r].copy] \/ store' = store
           /\ \/ Goes(r, "mailWrite", "emit") \/ Goes(r, "mailWrite", "stampWrite")
              \/ Answered(r)
<1>1. /\ req[r].pc = "mailWrite" /\ UNCHANGED <<tokenTTL, index, indexTTL, daily, world>>
      /\ store' = [store EXCEPT ![req[r].link] = req[r].copy] \/ store' = store
  BY DEF MailWrite
<1>2. CASE Become(r, [req[r] EXCEPT !.pc = "stampWrite"])
  BY <1>1, <1>2, NextPCGoes DEF PCs
<1>3. CASE Become(r, [req[r] EXCEPT !.pc = "emit", !.reply = "success"])
  BY <1>1, <1>3, EmitGoes
<1>4. CASE Become(r, Answer(req[r], "failure"))
  BY <1>1, <1>4, AnswerAnswers
<1>5. QED
  BY <1>2, <1>3, <1>4 DEF MailWrite

LEMMA EmitDoes ==
    ASSUME TypeOK, NEW r \in Requests, Emit(r)
    PROVE  req[r].pc = "emit" /\ Answered(r) /\ UNCHANGED <<redis, world>>
<1>1. req[r].reply \in {None, "success", "failure"}
  BY DEF TypeOK, Request
<1>2. QED
  BY <1>1, AnswerAnswers DEF Emit, Throw

LEMMA StampWriteDoes ==
    ASSUME TypeOK, NEW r \in Requests, StampWrite(r)
    PROVE  /\ req[r].pc = "stampWrite" /\ Answered(r)
           /\ store' = [store EXCEPT ![req[r].link] = req[r].copy] \/ store' = store
           /\ UNCHANGED <<tokenTTL, index, indexTTL, daily, world>>
  BY AnswerAnswers DEF StampWrite, Throw, redis

LEMMA ProcessDoes ==
    ASSUME TypeOK, NEW r \in Requests, Process(r)
    PROVE  /\ Goes(r, "process", "emit")
           /\ UNCHANGED <<redis, left, info, issued, delivered, counted>>
<1> DEFINE p == req[r]
           yes == [p EXCEPT !.pc = "emit", !.reply = "success", !.acted = TRUE]
           no == [p EXCEPT !.pc = "emit", !.reply = "failure"]
<1>1. /\ p \in Request /\ p.pc = "process" /\ "emit" \in PCs
      /\ UNCHANGED <<redis, left, info, issued, delivered, counted>>
  BY DEF TypeOK, Process, PCs
<1>2. CASE Become(r, yes)
  <2>1. yes \in Request /\ yes.pc = "emit" /\ yes.cur = p.cur /\ Keeps(p, yes)
    BY <1>1 DEF Request, Keeps
  <2>2. Turn(r) /\ req'[r] = yes
    BY <1>2, <2>1, BecomeTurns
  <2>3. QED
    BY <1>1, <2>1, <2>2 DEF Goes, Picks
<1>3. CASE Become(r, no)
  <2>1. no \in Request /\ no.pc = "emit" /\ no.cur = p.cur /\ Keeps(p, no)
    BY <1>1 DEF Request, Keeps
  <2>2. Turn(r) /\ req'[r] = no
    BY <1>3, <2>1, BecomeTurns
  <2>3. QED
    BY <1>1, <2>1, <2>2 DEF Goes, Picks
<1>4. QED
  BY <1>2, <1>3 DEF Process

LEMMA LoadDoes ==
    ASSUME TypeOK, ControlOK, NEW r \in Requests, Load(r)
    PROVE  /\ req[r].pc = "load" /\ UNCHANGED <<redis, world>>
           /\ Picks(r, "load", "statusRead", req[r].link) \/ Answered(r)
<1> DEFINE p == req[r]
           goal == IF left[p.link] < 0 THEN "expired" ELSE "used"
           q == [p EXCEPT !.pc = "statusRead", !.cur = p.link, !.goal = goal]
<1>1. p \in Request /\ Control(p) /\ p.pc = "load" /\ UNCHANGED <<redis, world>>
  BY Running DEF Load
<1>2. CASE Become(r, Answer(p, "failure"))
  BY <1>1, <1>2, AnswerAnswers
<1>3. CASE Become(r, q)
  <2>1. "statusRead" \in PCs /\ goal \in Statuses /\ p.link \in Links
    BY <1>1 DEF PCs, Statuses, Control
  <2> HIDE DEF goal
  <2>2. q \in Request /\ q.pc = "statusRead" /\ q.cur = p.link /\ Keeps(p, q)
    BY <1>1, <2>1 DEF Request, Keeps
  <2>3. Turn(r) /\ req'[r] = q
    BY <1>3, <2>2, BecomeTurns DEF goal
  <2>4. QED
    BY <1>1, <2>2, <2>3 DEF Picks
<1>4. QED
  BY <1>2, <1>3 DEF Load

LEMMA ResendReadDoes ==
    ASSUME TypeOK, ControlOK, NEW r \in Requests, ResendRead(r)
    PROVE  /\ req[r].pc = "resendRead" /\ UNCHANGED <<redis, world>>
           /\ \/ Picks(r, "resendRead", "statusRead", req[r].link)
              \/ Goes(r, "resendRead", "mail") \/ Answered(r)
<1> DEFINE p == req[r]
           closer == [p EXCEPT !.pc = "statusRead", !.cur = p.link, !.goal = "expired"]
<1>1. /\ p \in Request /\ Control(p) /\ p.pc = "resendRead" /\ UNCHANGED <<redis, world>>
      /\ p.link \in Links
  BY Running DEF ResendRead, Control
<1>2. CASE Become(r, Answer(p, "failure"))
  BY <1>1, <1>2, AnswerAnswers
<1>3. CASE Become(r, closer)
  <2>1. "statusRead" \in PCs /\ "expired" \in Statuses
    BY DEF PCs, Statuses
  <2>2. closer \in Request /\ closer.pc = "statusRead" /\ closer.cur = p.link /\ Keeps(p, closer)
    BY <1>1, <2>1 DEF Request, Keeps
  <2>3. Turn(r) /\ req'[r] = closer
    BY <1>3, <2>2, BecomeTurns
  <2>4. QED
    BY <1>1, <2>2, <2>3 DEF Picks
<1>4. ASSUME NEW seen \in Seen(p.link), Become(r, [p EXCEPT !.pc = "mail", !.copy = seen])
      PROVE  Goes(r, "resendRead", "mail")
  <2> DEFINE q == [p EXCEPT !.pc = "mail", !.copy = seen]
  <2>1. "mail" \in PCs /\ seen \in Stored
    BY <1>1 DEF PCs, Seen, TypeOK, Stored
  <2>2. q \in Request /\ q.pc = "mail" /\ q.cur = p.cur /\ Keeps(p, q)
    BY <1>1, <2>1 DEF Request, Keeps
  <2>3. Turn(r) /\ req'[r] = q
    BY <1>4, <2>2, BecomeTurns
  <2>4. QED
    BY <1>1, <2>2, <2>3 DEF Goes, Picks
<1>5. PICK seen \in Seen(p.link) :
        Become(r, CASE seen = "absent" -> Answer(p, "failure")
                    [] seen # "absent" /\ left[p.link] < 0 -> closer
                    [] left[p.link] >= 0 /\ seen \in {"used", "revoked"} -> Answer(p, "failure")
                    [] OTHER -> [p EXCEPT !.pc = "mail", !.copy = seen])
  BY DEF ResendRead
<1>6. \/ Become(r, Answer(p, "failure")) \/ Become(r, closer)
      \/ Become(r, [p EXCEPT !.pc = "mail", !.copy = seen])
  BY <1>5
<1>7. QED
  BY <1>1, <1>2, <1>3, <1>4, <1>6

LEMMA AfterStatusDoes ==
    ASSUME TypeOK, NEW r \in Requests, NEW x \in Request, Keeps(req[r], x), x.pc = req[r].pc,
           x.cur = req[r].cur, NEW q \in AfterStatus(x), Become(r, q)
    PROVE  \/ req[r].op = "generate" /\ Turn(r) /\ Resumes(x, req'[r], x.pend)
           \/ req[r].op # "generate" /\ Answered(r)
           \/ req[r].op = "verify" /\ Goes(r, req[r].pc, "process")
<1>1. x.op = req[r].op /\ x.link = req[r].link
  BY DEF Keeps
<1>2. CASE x.op = "generate"
  <2>1. q \in RevokeOrStore(x)
    BY <1>2 DEF AfterStatus
  <2>2. q \in Request /\ Resumes(x, q, x.pend)
    BY <2>1, RevokeOrStoreDoes
  <2>3. Turn(r) /\ req'[r] = q
    BY <2>2, BecomeTurns
  <2>4. QED
    BY <1>1, <1>2, <2>2, <2>3
<1>3. ASSUME NEW reply \in {"success", "failure"}, q = Answer(x, reply)
      PROVE  Answered(r)
  <2>1. q \in Request /\ q.pc = "done" /\ q.op = x.op /\ q.link = x.link
    BY <1>3, AnswerFields
  <2>2. q.email = None /\ q.pend = {}
    BY <1>3 DEF Answer, IdleRequest
  <2>3. Turn(r) /\ req'[r] = q
    BY <2>1, BecomeTurns
  <2>4. QED
    BY <1>1, <2>1, <2>2, <2>3 DEF Answered
<1>4. CASE x.op = "verify" /\ x.goal = "used"
  <2>1. q = [x EXCEPT !.pc = "process"]
    BY <1>4 DEF AfterStatus
  <2>2. q \in Request /\ q.pc = "process" /\ q.cur = x.cur /\ Keeps(x, q)
    BY <2>1, NextPCKeeps DEF PCs
  <2>3. Turn(r) /\ req'[r] = q
    BY <2>2, BecomeTurns
  <2>4. Keeps(req[r], q)
    BY <2>2 DEF Keeps
  <2>5. QED
    BY <1>1, <1>4, <2>2, <2>3, <2>4 DEF Goes, Picks
<1>5. CASE x.op = "revoke"
  <2>1. q = Answer(x, "success")
    BY <1>5 DEF AfterStatus
  <2>2. QED
    BY <1>1, <1>3, <1>5, <2>1
<1>6. CASE x.op \notin {"generate", "revoke"} /\ ~(x.op = "verify" /\ x.goal = "used")
  <2>1. q = Answer(x, "failure")
    BY <1>6 DEF AfterStatus
  <2>2. QED
    BY <1>1, <1>3, <1>6, <2>1
<1>7. QED
  BY <1>2, <1>4, <1>5, <1>6

LEMMA ReadForStatusDoes ==
    ASSUME TypeOK, ControlOK, NEW r \in Requests, ReadForStatus(r)
    PROVE  /\ req[r].pc = "statusRead" /\ UNCHANGED <<redis, world>>
           /\ \/ Goes(r, "statusRead", "statusWrite")
              \/ /\ req[r].op = "generate" /\ Turn(r)
                 /\ \E x \in Request : /\ Keeps(req[r], x)
                                       /\ store[req[r].cur] = "absent" \/ x.swallowed
                                       /\ Resumes(x, req'[r], x.pend)
              \/ req[r].op # "generate" /\ Answered(r)
              \/ req[r].op = "verify" /\ Goes(r, "statusRead", "process")
<1> DEFINE p == req[r]
<1>1. p \in Request /\ p.pc = "statusRead" /\ UNCHANGED <<redis, world>>
  BY DEF TypeOK, ReadForStatus
<1>2. PICK seen \in Seen(p.cur) :
          IF seen = "absent"
          THEN \E q \in AfterStatus([p EXCEPT !.swallowed = @ \/ seen # store[p.cur]]) :
                  Become(r, q)
          ELSE Become(r, [p EXCEPT !.pc = "statusWrite"])
  BY DEF ReadForStatus
<1>3. CASE seen # "absent"
  BY <1>1, <1>2, <1>3, NextPCGoes DEF PCs
<1>4. CASE seen = "absent"
  <2> DEFINE swallowed == p.swallowed \/ seen # store[p.cur]
             x == [p EXCEPT !.swallowed = swallowed]
  <2>1. PICK q \in AfterStatus(x) : Become(r, q)
    BY <1>2, <1>4
  <2>2. swallowed \in BOOLEAN /\ (store[p.cur] = "absent" \/ swallowed)
    BY <1>1, <1>4 DEF Request
  <2> HIDE DEF swallowed
  <2>3. /\ x \in Request /\ Keeps(p, x) /\ x.pc = p.pc /\ x.cur = p.cur
        /\ x.swallowed = swallowed
    BY <1>1, <2>2 DEF Request, Keeps
  <2> HIDE DEF x
  <2>4. \/ p.op = "generate" /\ Turn(r) /\ Resumes(x, req'[r], x.pend)
        \/ p.op # "generate" /\ Answered(r)
        \/ p.op = "verify" /\ Goes(r, p.pc, "process")
    BY <2>1, <2>3, AfterStatusDoes
  <2>5. QED
    BY <1>1, <2>2, <2>3, <2>4
<1>5. QED
  BY <1>3, <1>4

LEMMA WriteStatusDoes ==
    ASSUME TypeOK, ControlOK, NEW r \in Requests, WriteStatus(r)
    PROVE  /\ req[r].pc = "statusWrite"
           /\ \/ /\ store' = [store EXCEPT ![req[r].cur] = req[r].goal]
                 /\ UNCHANGED <<tokenTTL, index, indexTTL, daily, world>>
                 /\ \/ req[r].op = "generate" /\ Turn(r) /\ Resumes(req[r], req'[r], req[r].pend)
                    \/ req[r].op # "generate" /\ Answered(r)
                    \/ req[r].op = "verify" /\ Goes(r, "statusWrite", "process")
              \/ Answered(r) /\ UNCHANGED <<redis, world>>
<1>1. req[r] \in Request /\ req[r].pc = "statusWrite"
  BY DEF TypeOK, WriteStatus
<1>2. CASE Throw(r)
  BY <1>1, <1>2, ThrowAnswers DEF Throw
<1>3. CASE ~Throw(r)
  <2>1. PICK q \in AfterStatus(req[r]) : Become(r, q)
    BY <1>3 DEF WriteStatus
  <2>2. Keeps(req[r], req[r])
    BY DEF Keeps
  <2>3. \/ req[r].op = "generate" /\ Turn(r) /\ Resumes(req[r], req'[r], req[r].pend)
        \/ req[r].op # "generate" /\ Answered(r)
        \/ req[r].op = "verify" /\ Goes(r, "statusWrite", "process")
    BY <1>1, <2>1, <2>2, AfterStatusDoes
  <2>4. QED
    BY <1>1, <1>3, <2>3 DEF WriteStatus
<1>4. QED
  BY <1>2, <1>3

LEMMA KeysDoes ==
    ASSUME TypeOK, NEW r \in Requests, Keys(r)
    PROVE  Goes(r, "keys", "cleanScan") /\ UNCHANGED <<redis, world>>
<1> DEFINE p == req[r]
<1>1. p \in Request /\ p.pc = "keys" /\ "cleanScan" \in PCs /\ UNCHANGED <<redis, world>>
  BY DEF TypeOK, Keys, PCs
<1>2. PICK found \in SUBSET Links : Become(r, [p EXCEPT !.pc = "cleanScan", !.todo = found])
  BY DEF Keys
<1> DEFINE q == [p EXCEPT !.pc = "cleanScan", !.todo = found]
<1>3. q \in Request /\ q.pc = "cleanScan" /\ q.cur = p.cur /\ Keeps(p, q)
  BY <1>1, <1>2 DEF Request, Keeps
<1>4. Turn(r) /\ req'[r] = q
  BY <1>2, <1>3, BecomeTurns
<1>5. QED
  BY <1>1, <1>3, <1>4 DEF Goes, Picks

LEMMA CleanScanDoes ==
    ASSUME TypeOK, NEW r \in Requests, CleanScan(r)
    PROVE  /\ req[r].pc = "cleanScan" /\ UNCHANGED <<redis, world>>
           /\ \/ Answered(r)
              \/ \E id \in Links :
                    \/ Picks(r, "cleanScan", "cleanScan", id)
                    \/ /\ Picks(r, "cleanScan", "deleteRead", id)
                       /\ store[id] # "absent" /\ left[id] < 0
<1> DEFINE p == req[r]
<1>1. p \in Request /\ p.pc = "cleanScan" /\ UNCHANGED <<redis, world>>
  BY DEF TypeOK, CleanScan
<1>2. CASE Become(r, Answer(p, "success"))
  BY <1>1, <1>2, AnswerAnswers
<1>3. ASSUME NEW id \in p.todo, NEW c \in {"cleanScan", "deleteRead"},
             Become(r, [p EXCEPT !.todo = p.todo \ {id}, !.cur = id, !.pc = c])
      PROVE  id \in Links /\ Picks(r, "cleanScan", c, id)
  <2> DEFINE todo == p.todo \ {id}
             q == [p EXCEPT !.todo = todo, !.cur = id, !.pc = c]
  <2>1. c \in PCs /\ id \in Links /\ todo \in SUBSET Links
    BY <1>1 DEF PCs, Request
  <2> HIDE DEF todo
  <2>2. q \in Request /\ q.pc = c /\ q.cur = id /\ Keeps(p, q)
    BY <1>1, <2>1 DEF Request, Keeps
  <2>3. Become(r, q)
    BY <1>3 DEF todo
  <2>4. Turn(r) /\ req'[r] = q
    BY <2>2, <2>3, BecomeTurns
  <2>5. QED
    BY <1>1, <2>1, <2>2, <2>4 DEF Picks
<1>4. CASE ~Become(r, Answer(p, "success"))
  <2>1. PICK id \in p.todo : \E seen \in Seen(id) :
             Become(r, [p EXCEPT !.todo = p.todo \ {id}, !.cur = id,
                           !.pc = IF seen # "absent" /\ left[id] < 0 THEN "deleteRead"
                                                                     ELSE "cleanScan"])
    BY <1>4 DEF CleanScan
  <2>2. PICK seen \in Seen(id) :
             Become(r, [p EXCEPT !.todo = p.todo \ {id}, !.cur = id,
                           !.pc = IF seen # "absent" /\ left[id] < 0 THEN "deleteRead"
                                                                     ELSE "cleanScan"])
    BY <2>1
  <2>3. CASE seen # "absent" /\ left[id] < 0
    <3>1. Become(r, [p EXCEPT !.todo = p.todo \ {id}, !.cur = id, !.pc = "deleteRead"])
      BY <2>2, <2>3
    <3>2. store[id] # "absent"
      BY <2>3 DEF Seen
    <3>3. QED
      BY <1>1, <1>3, <2>3, <3>1, <3>2
  <2>4. CASE ~(seen # "absent" /\ left[id] < 0)
    <3>1. Become(r, [p EXCEPT !.todo = p.todo \ {id}, !.cur = id, !.pc = "cleanScan"])
      BY <2>2, <2>4
    <3>2. QED
      BY <1>1, <1>3, <3>1
  <2>5. QED
    BY <2>3, <2>4
<1>5. QED
  BY <1>2, <1>4

LEMMA DeleteReadDoes ==
    ASSUME TypeOK, NEW r \in Requests, DeleteRead(r)
    PROVE  /\ Goes(r, "deleteRead", "cleanScan") \/ Goes(r, "deleteRead", "deleteLink")
           /\ UNCHANGED <<redis, world>>
<1>1. req[r].pc = "deleteRead" /\ UNCHANGED <<redis, world>>
  BY DEF DeleteRead
<1>2. PICK c \in {"cleanScan", "deleteLink"} : Become(r, [req[r] EXCEPT !.pc = c])
  BY DEF DeleteRead
<1>3. c \in PCs
  BY DEF PCs
<1>4. Goes(r, "deleteRead", c)
  BY <1>1, <1>2, <1>3, NextPCGoes
<1>5. QED
  BY <1>1, <1>4

LEMMA DeleteIndexDoes ==
    ASSUME TypeOK, NEW r \in Requests, DeleteIndex(r)
    PROVE  /\ Goes(r, "deleteIndex", "cleanScan")
           /\ UNCHANGED <<store, storeTTL, tokenTTL, daily, world>>
           /\ LET e == info[req[r].cur].email
                  rest == index[e] \ {req[r].cur} IN
              \/ /\ index' = [index EXCEPT ![e] = rest]
                 /\ indexTTL' = [indexTTL EXCEPT ![e] = IF rest = {} THEN NoTTL ELSE @]
              \/ UNCHANGED <<index, indexTTL>>
<1>1. Goes(r, "deleteIndex", "cleanScan")
  BY NextPCGoes DEF DeleteIndex, PCs
<1>2. QED
  BY <1>1 DEF DeleteIndex

\* A call begins; links are drawn by generations alone.
Begins(r, op, pc, id) ==
    /\ Turn(r) /\ req[r].pc = "idle" /\ req'[r].op = op /\ req'[r].pc = pc
    /\ req'[r].link = id /\ req'[r].pend = {}

LEMMA StartGenerateDoes ==
    ASSUME TypeOK, NEW r \in Requests, StartGenerate(r)
    PROVE  /\ UNCHANGED <<redis, left, info, accounts, delivered, counted>>
           /\ \E id \in Links \ issued : Begins(r, "generate", "checkLimit", id)
                                         /\ issued' = issued \cup {id}
<1>1. PICK e \in Emails, a \in Actions, new \in Links \ issued :
         /\ Become(r, [IdleRequest EXCEPT !.pc = "checkLimit", !.op = "generate",
                                          !.email = e, !.action = a, !.link = new,
                                          !.copy = "pending"])
         /\ issued' = issued \cup {new}
  BY DEF StartGenerate
<1> DEFINE q == [IdleRequest EXCEPT !.pc = "checkLimit", !.op = "generate",
                                    !.email = e, !.action = a, !.link = new,
                                    !.copy = "pending"]
<1>2. q \in Request
  BY <1>1 DEF IdleRequest, Request, PCs, Statuses, Stored, Ops
<1>3. q.pc = "checkLimit" /\ q.op = "generate" /\ q.link = new /\ q.pend = {}
  BY DEF IdleRequest
<1> HIDE DEF q
<1>4. Turn(r) /\ req'[r] = q
  BY <1>1, <1>2, BecomeTurns DEF q
<1>5. QED
  BY <1>1, <1>3, <1>4 DEF StartGenerate, Begins

LEMMA StartsDoes ==
    ASSUME TypeOK, NEW r \in Requests,
           StartVerify(r) \/ StartResend(r) \/ StartRevoke(r) \/ StartCleanup(r)
    PROVE  /\ UNCHANGED <<redis, world>>
           /\ \/ \E id \in Links : Begins(r, "verify", "token", id)
              \/ \E id \in Links : Begins(r, "resend", "resendRead", id)
              \/ \E id \in Links : /\ Begins(r, "revoke", "statusRead", id)
                                   /\ req'[r].cur = id /\ info[id].email # None
              \/ Begins(r, "cleanup", "keys", None)
<1>1. UNCHANGED <<redis, world>> /\ req[r].pc = "idle"
  BY DEF StartVerify, StartResend, StartRevoke, StartCleanup
<1>2. ASSUME NEW q \in Request, Become(r, q), q.pend = {}
      PROVE  Begins(r, q.op, q.pc, q.link) /\ req'[r].cur = q.cur
  <2>1. Turn(r) /\ req'[r] = q
    BY <1>2, BecomeTurns
  <2>2. QED
    BY <1>1, <1>2, <2>1 DEF Begins
<1>3. CASE StartVerify(r)
  <2>1. PICK id \in Links :
          Become(r, [IdleRequest EXCEPT !.pc = "token", !.op = "verify", !.link = id])
    BY <1>3 DEF StartVerify, TypeOK
  <2> DEFINE q == [IdleRequest EXCEPT !.pc = "token", !.op = "verify", !.link = id]
  <2>2. q \in Request
    BY DEF IdleRequest, Request, PCs, Statuses, Stored, Ops
  <2>3. q.pc = "token" /\ q.op = "verify" /\ q.link = id /\ q.pend = {}
    BY DEF IdleRequest
  <2> HIDE DEF q
  <2>4. Begins(r, "verify", "token", id)
    BY <1>2, <2>1, <2>2, <2>3 DEF q
  <2>5. QED
    BY <1>1, <2>1, <2>4
<1>4. CASE StartResend(r)
  <2>1. PICK id \in Links :
          Become(r, [IdleRequest EXCEPT !.pc = "resendRead", !.op = "resend", !.link = id])
    BY <1>4 DEF StartResend, TypeOK
  <2> DEFINE q == [IdleRequest EXCEPT !.pc = "resendRead", !.op = "resend", !.link = id]
  <2>2. q \in Request
    BY DEF IdleRequest, Request, PCs, Statuses, Stored, Ops
  <2>3. q.pc = "resendRead" /\ q.op = "resend" /\ q.link = id /\ q.pend = {}
    BY DEF IdleRequest
  <2> HIDE DEF q
  <2>4. Begins(r, "resend", "resendRead", id)
    BY <1>2, <2>1, <2>2, <2>3 DEF q
  <2>5. QED
    BY <1>1, <2>1, <2>4
<1>5. CASE StartRevoke(r)
  <2>1. PICK id \in Links :
          /\ info[id].email # None
          /\ Become(r, [IdleRequest EXCEPT !.pc = "statusRead", !.op = "revoke",
             !.link = id, !.cur = id, !.goal = "revoked"])
    BY <1>5 DEF StartRevoke, TypeOK
  <2> DEFINE q == [IdleRequest EXCEPT !.pc = "statusRead", !.op = "revoke",
             !.link = id, !.cur = id, !.goal = "revoked"]
  <2>2. q \in Request
    BY DEF IdleRequest, Request, PCs, Statuses, Stored, Ops
  <2>3. q.pc = "statusRead" /\ q.op = "revoke" /\ q.link = id /\ q.pend = {} /\ q.cur = id
    BY DEF IdleRequest
  <2> HIDE DEF q
  <2>4. Begins(r, "revoke", "statusRead", id) /\ req'[r].cur = id
    BY <1>2, <2>1, <2>2, <2>3 DEF q
  <2>5. QED
    BY <1>1, <2>1, <2>4
<1>6. CASE StartCleanup(r)
  <2>1. Become(r, [IdleRequest EXCEPT !.pc = "keys", !.op = "cleanup"])
    BY <1>6 DEF StartCleanup
  <2> DEFINE q == [IdleRequest EXCEPT !.pc = "keys", !.op = "cleanup"]
  <2>2. q \in Request
    BY DEF IdleRequest, Request, PCs, Statuses, Stored, Ops
  <2>3. q.pc = "keys" /\ q.op = "cleanup" /\ q.link = None /\ q.pend = {}
    BY DEF IdleRequest
  <2> HIDE DEF q
  <2>4. Begins(r, "cleanup", "keys", None)
    BY <1>2, <2>1, <2>2, <2>3 DEF q
  <2>5. QED
    BY <1>1, <2>1, <2>4
<1>7. QED
  BY <1>3, <1>4, <1>5, <1>6

-----------------------------------------------------------------------------
(* The counter of the day.                                                 *)

LEMMA CountsStep ==
    ASSUME CountsBehind, NEW r \in Requests, Turn(r), req'[r].pc # "countWrite",
           UNCHANGED <<daily, counted>>
    PROVE  CountsBehind'
  BY DEF CountsBehind, Turn

\* Every step but the two of incrementDailyCounter.
LEMMA CountsElsewhere ==
    ASSUME TypeOK, ControlOK, NEW r \in Requests,
           Start(r) \/ (Advance(r) /\ ~CountRead(r) /\ ~CountWrite(r))
    PROVE  Turn(r) /\ req'[r].pc # "countWrite" /\ UNCHANGED <<daily, counted>>
<1>1. ASSUME Start(r)
      PROVE  Turn(r) /\ req'[r].pc # "countWrite" /\ UNCHANGED <<daily, counted>>
  BY <1>1, StartGenerateDoes, StartsDoes
  DEF Start, LinkRoutes, AdministrationRoutes, LinkMutations, AdministrationMutations,
      Begins, redis, world
<1>2. ASSUME CheckLimit(r) \/ Lookup(r) \/ Members(r) \/ Scan(r)
      PROVE  Turn(r) /\ req'[r].pc # "countWrite" /\ UNCHANGED <<daily, counted>>
  BY <1>2, CheckLimitDoes, LookupDoes, MembersDoes, ScanDoes
  DEF Goes, Picks, Answered, Resumes, redis, world
<1>3. ASSUME StoreLink(r) \/ StoreToken(r) \/ StoreIndex(r) \/ ExpireIndex(r)
      PROVE  Turn(r) /\ req'[r].pc # "countWrite" /\ UNCHANGED <<daily, counted>>
  BY <1>3, StoreLinkDoes, StoreTokenDoes, StoreIndexDoes, ExpireIndexDoes
  DEF Goes, Picks, Answered, redis, world
<1>4. ASSUME Mail(r) \/ MailWrite(r) \/ Emit(r) \/ StampWrite(r) \/ Process(r) \/ ResendRead(r)
      PROVE  Turn(r) /\ req'[r].pc # "countWrite" /\ UNCHANGED <<daily, counted>>
  BY <1>4, MailDoes, MailWriteDoes, EmitDoes, StampWriteDoes, ProcessDoes, ResendReadDoes
  DEF Goes, Picks, Answered, redis, world
<1>5. ASSUME ReadToken(r) \/ Load(r) \/ ReadForStatus(r) \/ WriteStatus(r)
      PROVE  Turn(r) /\ req'[r].pc # "countWrite" /\ UNCHANGED <<daily, counted>>
  BY <1>5, ReadTokenDoes, LoadDoes, ReadForStatusDoes, WriteStatusDoes
  DEF Goes, Picks, Answered, Resumes, redis, world
<1>6. ASSUME Keys(r) \/ CleanScan(r) \/ DeleteRead(r) \/ DeleteLink(r) \/ DeleteToken(r)
             \/ DeleteIndex(r)
      PROVE  Turn(r) /\ req'[r].pc # "countWrite" /\ UNCHANGED <<daily, counted>>
  BY <1>6, KeysDoes, CleanScanDoes, DeleteReadDoes, DeleteLinkDoes, DeleteTokenDoes,
     DeleteIndexDoes
  DEF Goes, Picks, Answered, redis, world
<1>7. QED
  BY <1>1, <1>2, <1>3, <1>4, <1>5, <1>6 DEF Advance

LEMMA CountReadCounts ==
    ASSUME TypeOK, ControlOK, CountsBehind, NEW r \in Requests, CountRead(r)
    PROVE  CountsBehind'
<1>1. CASE Answered(r)
  BY <1>1, CountReadDoes, CountsStep DEF Answered, redis, world
<1>2. CASE Goes(r, "countRead", "countWrite") /\ req'[r].count = daily[req[r].email]
  <2>1. UNCHANGED <<daily, counted>> /\ req[r].email \in Emails /\ Turn(r)
    BY <1>2, CountReadDoes, Running DEF Goes, Picks, Control, redis, world
  <2>2. req'[r].email = req[r].email
    BY <1>2 DEF Goes, Picks, Keeps
  <2>3. QED
    BY <1>2, <2>1, <2>2 DEF CountsBehind, Turn
<1>3. QED
  BY <1>1, <1>2, CountReadDoes

LEMMA CountWriteCounts ==
    ASSUME TypeOK, ControlOK, CountsBehind, NEW r \in Requests, CountWrite(r)
    PROVE  CountsBehind'
<1>1. CASE UNCHANGED <<daily, counted>>
  BY <1>1, CountWriteDoes, CountsStep DEF Answered, Goes, Picks
<1>2. CASE req[r].today /\ Turn(r) /\ req'[r].pc = "mail"
           /\ daily' = [daily EXCEPT ![req[r].email] = req[r].count + 1]
           /\ counted' = [counted EXCEPT ![req[r].email] = @ + 1]
  <2> DEFINE e == req[r].email
  <2>1. /\ e \in Emails /\ req[r].count \in Nat /\ req[r].pc = "countWrite"
        /\ daily \in [Emails -> Nat] /\ counted \in [Emails -> Nat]
    BY <1>2, CountWriteDoes, Running DEF Control, Request, TypeOK
  <2>2. req[r].count <= counted[e]
    BY <1>2, <2>1 DEF CountsBehind
  <2>3. /\ daily'[e] = req[r].count + 1 /\ counted'[e] = counted[e] + 1
        /\ \A f \in Emails : f # e => daily'[f] = daily[f] /\ counted'[f] = counted[f]
    BY <1>2, <2>1
  <2> HIDE DEF e
  <2>4. \A f \in Emails : daily'[f] <= counted'[f] /\ counted[f] <= counted'[f]
    BY <2>1, <2>2, <2>3 DEF CountsBehind
  <2>5. ASSUME NEW s \in Requests, req'[s].pc = "countWrite", req'[s].today
        PROVE  req'[s].count <= counted'[req'[s].email]
    <3>1. s # r /\ req'[s] = req[s]
      BY <1>2, <2>5 DEF Turn
    <3>2. /\ req[s].count \in Nat /\ req[s].email \in Emails
          /\ req[s].count <= counted[req[s].email]
      BY <2>5, <3>1, Running DEF CountsBehind, Control, Request
    <3>3. counted[req[s].email] <= counted'[req[s].email] /\ counted[req[s].email] \in Nat
          /\ counted'[req[s].email] \in Nat
      BY <2>1, <2>3, <2>4, <3>2
    <3>4. QED
      BY <3>1, <3>2, <3>3
  <2>6. QED
    BY <2>4, <2>5 DEF CountsBehind
<1>3. QED
  BY <1>1, <1>2, CountWriteDoes DEF Goes, Picks, Answered, redis, world

LEMMA CountsKept == TypeOK /\ ControlOK /\ CountsBehind /\ [Next]_vars => CountsBehind'
<1> SUFFICES ASSUME TypeOK, ControlOK, CountsBehind, [Next]_vars
             PROVE  CountsBehind'
  OBVIOUS
<1>1. ASSUME NEW r \in Requests, Start(r) \/ Advance(r)
      PROVE  CountsBehind'
  BY <1>1, CountReadCounts, CountWriteCounts, CountsElsewhere, CountsStep
<1>2. CASE Tick
  BY <1>2 DEF Tick, CountsBehind
<1>3. CASE Midnight
  <2>1. \A e \in Emails : daily'[e] = 0 /\ counted'[e] = 0
    BY <1>3 DEF Midnight
  <2>2. \A r \in Requests : ~(req'[r].pc = "countWrite" /\ req'[r].today)
    <3>1. ASSUME NEW r \in Requests
          PROVE  ~(req'[r].pc = "countWrite" /\ req'[r].today)
      <4>1. req[r] \in Request
        BY DEF TypeOK
      <4>2. CASE req[r].pc = "countWrite"
        <5>1. req'[r] = [req[r] EXCEPT !.today = FALSE]
          BY <1>3, <4>2 DEF Midnight
        <5>2. QED
          BY <4>1, <5>1 DEF Request
      <4>3. CASE req[r].pc # "countWrite"
        BY <1>3, <4>3 DEF Midnight
      <4>4. QED
        BY <4>2, <4>3
    <3>2. QED
      BY <3>1
  <2>3. QED
    BY <2>1, <2>2 DEF CountsBehind
<1>4. CASE UNCHANGED vars
  BY <1>4 DEF vars, redis, world, CountsBehind
<1>5. QED
  BY <1>1, <1>2, <1>3, <1>4 DEF Next, Work

\* Lost updates of incrementDailyCounter only ever undercount: what
\* checkDailyLimit compares is never more than the writes of the day.
THEOREM CounterIsFair == Spec => []CounterNeverOvercharges
<1>1. Init => CountsBehind
  <2> SUFFICES ASSUME Init
               PROVE  CountsBehind
    OBVIOUS
  <2>1. \A r \in Requests : req[r].pc = "idle"
    BY DEF Init, IdleRequest
  <2>2. \A e \in Emails : daily[e] = 0 /\ counted[e] = 0
    BY DEF Init
  <2>3. QED
    BY <2>1, <2>2 DEF CountsBehind
<1>2. TypeOK /\ ControlOK /\ CountsBehind /\ [Next]_vars => CountsBehind'
  BY CountsKept
<1>3. IInv => TypeOK /\ ControlOK
  BY DEF IInv
<1>4. CountsBehind => CounterNeverOvercharges
  BY DEF CountsBehind, CounterNeverOvercharges
<1>5. QED
  BY <1>1, <1>2, <1>3, <1>4, Invariance, PTL DEF Spec

-----------------------------------------------------------------------------
(* What status writes and the clean-up work on was stored once.            *)

Stands(id) == info[id].email # None

LEMMA KnownStep ==
    ASSUME TypeOK, ControlOK, KnownLinks, NEW r \in Requests, Turn(r), UNCHANGED <<info, left>>,
           \A id \in Links : store'[id] \in {store[id], "absent"} \/ Stands(id),
           \A id \in req'[r].pend : Stands(id),
           req'[r].pc \in AtStatus => Stands(req'[r].cur),
           req'[r].pc \in Deleting => Stands(req'[r].cur) /\ left[req'[r].cur] < 0
    PROVE  KnownLinks'
<1>1. \A id \in Links : store'[id] # "absent" => info'[id].email # None
  BY DEF KnownLinks, Stands
<1>2. \A s \in Requests : \A id \in req'[s].pend : info'[id].email # None
  BY DEF KnownLinks, Stands, Turn
<1>3. \A s \in Requests : req'[s].pc \in AtStatus => info'[req'[s].cur].email # None
  BY DEF KnownLinks, Stands, Turn, AtStatus
<1>4. \A s \in Requests :
        req'[s].pc \in Deleting => info'[req'[s].cur].email # None /\ left'[req'[s].cur] < 0
  BY DEF KnownLinks, Stands, Turn
<1>5. QED
  BY <1>1, <1>2, <1>3, <1>4 DEF KnownLinks, AtStatus

\* The steps that keep to what they are at.
LEMMA KnownCalm ==
    ASSUME TypeOK, ControlOK, KnownLinks, NEW r \in Requests, Turn(r),
           UNCHANGED <<info, left>>,
           \A id \in Links : store'[id] \in {store[id], "absent"} \/ Stands(id),
           req'[r].pend \subseteq req[r].pend,
           req'[r].pc \notin AtStatus \cup Deleting
    PROVE  KnownLinks'
<1>1. \A id \in req'[r].pend : Stands(id)
  BY DEF KnownLinks, Stands
<1>2. QED
  BY <1>1, KnownStep

Outside(r) == Turn(r) /\ req'[r].pend \subseteq req[r].pend /\ req'[r].pc \notin AtStatus \cup Deleting

LEMMA KnownCalmSteps ==
    ASSUME TypeOK, ControlOK, KnownLinks, NEW r \in Requests,
           \/ StartGenerate(r) \/ CheckLimit(r) \/ Lookup(r) \/ StoreToken(r) \/ StoreIndex(r)
           \/ ExpireIndex(r) \/ CountRead(r) \/ CountWrite(r) \/ Mail(r) \/ Emit(r)
           \/ ReadToken(r) \/ Process(r) \/ Keys(r) \/ DeleteIndex(r)
    PROVE  KnownLinks'
<1>1. ASSUME Outside(r), UNCHANGED <<store, info, left>>
      PROVE  KnownLinks'
  BY <1>1, KnownCalm DEF Outside
<1>2. ASSUME StartGenerate(r)
      PROVE  Outside(r) /\ UNCHANGED <<store, info, left>>
  BY <1>2, StartGenerateDoes DEF Outside, Begins, AtStatus, Deleting, redis
<1>3. ASSUME CheckLimit(r) \/ Lookup(r) \/ StoreToken(r) \/ StoreIndex(r) \/ ExpireIndex(r)
      PROVE  Outside(r) /\ UNCHANGED <<store, info, left>>
  BY <1>3, CheckLimitDoes, LookupDoes, StoreTokenDoes, StoreIndexDoes, ExpireIndexDoes
  DEF Outside, Goes, Picks, Answered, Keeps, AtStatus, Deleting, redis, world
<1>4. ASSUME CountRead(r) \/ CountWrite(r) \/ Mail(r) \/ Emit(r)
      PROVE  Outside(r) /\ UNCHANGED <<store, info, left>>
  BY <1>4, CountReadDoes, CountWriteDoes, MailDoes, EmitDoes
  DEF Outside, Goes, Picks, Answered, Keeps, AtStatus, Deleting, redis, world
<1>5. ASSUME ReadToken(r) \/ Process(r) \/ Keys(r) \/ DeleteIndex(r)
      PROVE  Outside(r) /\ UNCHANGED <<store, info, left>>
  BY <1>5, ReadTokenDoes, ProcessDoes, KeysDoes, DeleteIndexDoes
  DEF Outside, Goes, Picks, Answered, Keeps, AtStatus, Deleting, redis, world
<1>6. QED
  BY <1>1, <1>2, <1>3, <1>4, <1>5

LEMMA StartsKnown ==
    ASSUME TypeOK, ControlOK, KnownLinks, NEW r \in Requests,
           StartVerify(r) \/ StartResend(r) \/ StartRevoke(r) \/ StartCleanup(r)
    PROVE  KnownLinks'
<1>1. /\ UNCHANGED <<store, info, left>> /\ Turn(r) /\ req'[r].pend = {}
      /\ req'[r].pc \notin Deleting
      /\ req'[r].pc \in AtStatus => Stands(req'[r].cur)
  BY StartsDoes DEF Begins, AtStatus, Deleting, Stands, redis, world
<1>2. QED
  BY <1>1, KnownStep

LEMMA ResumesKnown ==
    ASSUME TypeOK, ControlOK, KnownLinks, NEW r \in Requests, Turn(r), UNCHANGED <<info, left>>,
           \A id \in Links : store'[id] \in {store[id], "absent"} \/ Stands(id),
           NEW x, NEW rest, Resumes(x, req'[r], rest), \A id \in x.pend : Stands(id)
    PROVE  KnownLinks'
<1>1. /\ \A id \in req'[r].pend : Stands(id)
      /\ req'[r].pc \in AtStatus => Stands(req'[r].cur)
      /\ req'[r].pc \notin Deleting
  BY DEF Resumes, AtStatus, Deleting
<1>2. QED
  BY <1>1, KnownStep

LEMMA LooksKnown ==
    ASSUME TypeOK, ControlOK, KnownLinks, NEW r \in Requests, Members(r) \/ Scan(r)
    PROVE  KnownLinks'
<1>1. CASE Members(r)
  <2>1. PICK x \in Request : x.pend = req[r].pend /\ Resumes(x, req'[r], x.todo \cup x.pend)
    BY <1>1, MembersDoes
  <2>2. \A id \in x.pend : Stands(id)
    BY <2>1 DEF KnownLinks, Stands
  <2>3. Turn(r) /\ UNCHANGED <<store, info, left>>
    BY <1>1, MembersDoes DEF redis, world
  <2>4. QED
    BY <2>1, <2>2, <2>3, ResumesKnown
<1>2. CASE Scan(r)
  <2>1. PICK id \in req[r].todo : \E seen \in Seen(id) : \E x \in Request :
                 /\ x.op = req[r].op /\ x.email = req[r].email /\ x.link = req[r].link
                 /\ x.todo = req[r].todo \ {id}
                 /\ x.pend = IF seen = "pending" THEN req[r].pend \cup {id} ELSE req[r].pend
                 /\ seen = store[id] \/ x.swallowed
                 /\ Resumes(x, req'[r], x.todo \cup x.pend)
    BY <1>2, ScanDoes
  <2>2. PICK seen \in Seen(id) : \E x \in Request :
                 /\ x.op = req[r].op /\ x.email = req[r].email /\ x.link = req[r].link
                 /\ x.todo = req[r].todo \ {id}
                 /\ x.pend = IF seen = "pending" THEN req[r].pend \cup {id} ELSE req[r].pend
                 /\ seen = store[id] \/ x.swallowed
                 /\ Resumes(x, req'[r], x.todo \cup x.pend)
    BY <2>1
  <2>3. PICK x \in Request :
                 /\ x.op = req[r].op /\ x.email = req[r].email /\ x.link = req[r].link
                 /\ x.todo = req[r].todo \ {id}
                 /\ x.pend = IF seen = "pending" THEN req[r].pend \cup {id} ELSE req[r].pend
                 /\ seen = store[id] \/ x.swallowed
                 /\ Resumes(x, req'[r], x.todo \cup x.pend)
    BY <2>2
  <2>4. id \in Links
    BY <2>1 DEF TypeOK, Request
  <2>5. seen = "pending" => Stands(id)
    BY <2>2, <2>4 DEF Seen, KnownLinks, Stands
  <2>6. \A i \in x.pend : Stands(i)
    BY <2>3, <2>5 DEF KnownLinks, Stands
  <2>7. Turn(r) /\ UNCHANGED <<store, info, left>>
    BY <1>2, ScanDoes DEF redis, world
  <2>8. QED
    BY <2>3, <2>6, <2>7, ResumesKnown
<1>3. QED
  BY <1>1, <1>2

LEMMA StoreLinkKnown ==
    ASSUME TypeOK, ControlOK, FreshLinks, KnownLinks, NEW r \in Requests, StoreLink(r)
    PROVE  KnownLinks'
<1>1. CASE Answered(r) /\ UNCHANGED <<redis, world>>
  BY <1>1, KnownCalm DEF Answered, AtStatus, Deleting, redis, world
<1> DEFINE new == req[r].link
<1>2. CASE /\ Goes(r, "storeLink", "storeToken")
           /\ store' = [store EXCEPT ![new] = "pending"]
           /\ left' = [left EXCEPT ![new] = Expiry]
           /\ info' = [info EXCEPT ![new] = [email |-> req[r].email, action |-> req[r].action,
                                             hasUser |-> req[r].hasUser]]
  <2>1. /\ new \in Links /\ req[r].op = "generate" /\ req[r].email \in Emails
        /\ req[r].email # None
    BY <1>2, Running, NoneAssumption DEF Goes, Picks, Control
  <2>2. ~Stands(new)
    BY <1>2, <2>1 DEF FreshLinks, Unstored, Goes, Picks, Stands
  <2>3. /\ info'[new].email # None
        /\ \A id \in Links : id # new =>
              store'[id] = store[id] /\ left'[id] = left[id] /\ info'[id] = info[id]
    BY <1>2, <2>1 DEF TypeOK
  <2>4. Turn(r) /\ req'[r].pend = req[r].pend /\ req'[r].pc = "storeToken"
    BY <1>2 DEF Goes, Picks, Keeps
  <2>5. \A id \in Links : store'[id] # "absent" => info'[id].email # None
    BY <2>3 DEF KnownLinks
  <2>6. \A id \in Links : Stands(id) => Stands(id)' /\ left'[id] = left[id]
    BY <2>2, <2>3 DEF Stands
  <2>7. \A s \in Requests : /\ req'[s].pend = req[s].pend
                            /\ req'[s].pc \in AtStatus \cup Deleting => req'[s] = req[s]
    BY <2>4 DEF Turn, AtStatus, Deleting
  <2>8. \A s \in Requests : /\ req[s].pend \subseteq Links
                            /\ req[s].pc \in AtStatus \cup Deleting => req[s].cur \in Links
    BY Running DEF Request, Control, AtStatus, Deleting
  <2>9. \A s \in Requests : \A id \in req'[s].pend : info'[id].email # None
    BY <2>6, <2>7, <2>8 DEF KnownLinks, Stands
  <2>10. \A s \in Requests : req'[s].pc \in AtStatus => info'[req'[s].cur].email # None
    BY <2>6, <2>7, <2>8 DEF KnownLinks, Stands, AtStatus
  <2>11. \A s \in Requests :
        req'[s].pc \in Deleting => info'[req'[s].cur].email # None /\ left'[req'[s].cur] < 0
    BY <2>6, <2>7, <2>8 DEF KnownLinks, Stands
  <2>12. QED
    BY <2>5, <2>9, <2>10, <2>11 DEF KnownLinks, AtStatus
<1>3. QED
  BY <1>1, <1>2, StoreLinkDoes

LEMMA WritesKnown ==
    ASSUME TypeOK, ControlOK, FreshLinks, KnownLinks, NEW r \in Requests,
           MailWrite(r) \/ StampWrite(r)
    PROVE  KnownLinks'
<1>1. /\ req[r].pc \in {"mailWrite", "stampWrite"} /\ Turn(r) /\ UNCHANGED <<info, left>>
      /\ store' = [store EXCEPT ![req[r].link] = req[r].copy] \/ store' = store
      /\ req'[r].pend \subseteq req[r].pend /\ req'[r].pc \notin AtStatus \cup Deleting
  BY MailWriteDoes, StampWriteDoes
  DEF Goes, Picks, Answered, Keeps, AtStatus, Deleting, redis, world
<1>2. req[r].link \in Links /\ req[r].op \in {"generate", "resend"}
  BY <1>1, Running DEF Control
<1>3. Stands(req[r].link)
  BY <1>1, <1>2 DEF FreshLinks, Stands, Unstored
<1>4. \A id \in Links : store'[id] = store[id] \/ Stands(id)
  BY <1>1, <1>2, <1>3 DEF TypeOK
<1>5. QED
  BY <1>1, <1>4, KnownCalm

LEMMA ReadsKnown ==
    ASSUME TypeOK, ControlOK, FreshLinks, KnownLinks, NEW r \in Requests,
           Load(r) \/ ResendRead(r)
    PROVE  KnownLinks'
<1>1. /\ req[r].pc \in {"load", "resendRead"} /\ Turn(r) /\ UNCHANGED <<store, info, left>>
      /\ req'[r].pend \subseteq req[r].pend /\ req'[r].pc \notin Deleting
      /\ req'[r].pc \in AtStatus => req'[r].cur = req[r].link
  BY LoadDoes, ResendReadDoes
  DEF Goes, Picks, Answered, Keeps, AtStatus, Deleting, redis, world
<1>2. Stands(req[r].link)
  BY <1>1, Running DEF Control, FreshLinks, Stands
<1>3. \A id \in req'[r].pend : Stands(id)
  BY <1>1 DEF KnownLinks, Stands
<1>4. QED
  BY <1>1, <1>2, <1>3, KnownStep

LEMMA StatusKnown ==
    ASSUME TypeOK, ControlOK, KnownLinks, NEW r \in Requests,
           ReadForStatus(r) \/ WriteStatus(r)
    PROVE  KnownLinks'
<1>1. req[r].pc \in AtStatus /\ UNCHANGED <<info, left>> /\ Turn(r)
  BY ReadForStatusDoes, WriteStatusDoes DEF AtStatus, Goes, Picks, Answered, redis, world
<1>2. store' = store \/ store' = [store EXCEPT ![req[r].cur] = req[r].goal]
  BY ReadForStatusDoes, WriteStatusDoes DEF redis
<1>3. req[r].cur \in Links /\ Stands(req[r].cur) /\ \A id \in req[r].pend : Stands(id)
  BY <1>1, Running DEF AtStatus, Control, KnownLinks, Stands
<1>4. \A id \in Links : store'[id] \in {store[id], "absent"} \/ Stands(id)
  BY <1>2, <1>3 DEF TypeOK
<1>5. CASE /\ req'[r].pend \subseteq req[r].pend /\ req'[r].pc \notin Deleting
           /\ req'[r].pc \in AtStatus => req'[r].cur = req[r].cur
  BY <1>1, <1>3, <1>4, <1>5, KnownStep
<1>6. ASSUME NEW x, x.pend = req[r].pend, Resumes(x, req'[r], x.pend)
      PROVE  KnownLinks'
  BY <1>1, <1>3, <1>4, <1>6, ResumesKnown
<1>7. CASE ReadForStatus(r)
  BY <1>5, <1>6, <1>7, ReadForStatusDoes DEF Goes, Picks, Answered, Keeps, AtStatus, Deleting
<1>8. CASE WriteStatus(r)
  BY <1>5, <1>6, <1>8, WriteStatusDoes DEF Goes, Picks, Answered, Keeps, AtStatus, Deleting
<1>9. QED
  BY <1>7, <1>8

LEMMA CleaningKnown ==
    ASSUME TypeOK, ControlOK, KnownLinks, NEW r \in Requests,
           CleanScan(r) \/ DeleteRead(r) \/ DeleteLink(r) \/ DeleteToken(r)
    PROVE  KnownLinks'
<1>1. Turn(r) /\ UNCHANGED <<info, left>> /\ req'[r].pend \subseteq req[r].pend
      /\ req'[r].pc \notin AtStatus
  BY CleanScanDoes, DeleteReadDoes, DeleteLinkDoes, DeleteTokenDoes
  DEF Goes, Picks, Answered, Keeps, AtStatus, redis, world
<1>2. \A id \in req'[r].pend : Stands(id)
  BY <1>1 DEF KnownLinks, Stands
<1>3. CASE CleanScan(r)
  <2>1. store' = store
    BY <1>3, CleanScanDoes DEF redis
  <2>2. req'[r].pc \in Deleting =>
          req'[r].cur \in Links /\ store[req'[r].cur] # "absent" /\ left[req'[r].cur] < 0
    BY <1>3, CleanScanDoes DEF Picks, Answered, Deleting
  <2>3. req'[r].pc \in Deleting => Stands(req'[r].cur) /\ left[req'[r].cur] < 0
    BY <2>2 DEF KnownLinks, Stands
  <2>4. QED
    BY <1>1, <1>2, <2>1, <2>3, KnownStep
<1>4. CASE ~CleanScan(r)
  <2>1. \/ req[r].pc \in Deleting /\ req'[r].cur = req[r].cur
        \/ req'[r].pc \notin Deleting
    BY <1>4, DeleteReadDoes, DeleteLinkDoes, DeleteTokenDoes
    DEF Goes, Picks, Answered, Deleting
  <2>2. req[r].pc = "deleteLink" => req[r].cur \in Links
    BY Running DEF Control
  <2>3. \A id \in Links : store'[id] \in {store[id], "absent"}
    <3>1. \/ store' = store
          \/ req[r].pc = "deleteLink" /\ store' = [store EXCEPT ![req[r].cur] = "absent"]
      BY <1>4, DeleteReadDoes, DeleteLinkDoes, DeleteTokenDoes DEF redis
    <3>2. QED
      BY <2>2, <3>1 DEF TypeOK
  <2>4. req'[r].pc \in Deleting => Stands(req'[r].cur) /\ left[req'[r].cur] < 0
    BY <2>1 DEF KnownLinks, Stands
  <2>5. QED
    BY <1>1, <1>2, <2>3, <2>4, KnownStep
<1>5. QED
  BY <1>3, <1>4

LEMMA KnownKept == IInv /\ KnownLinks /\ [Next]_vars => KnownLinks'
<1> SUFFICES ASSUME IInv, KnownLinks, [Next]_vars
             PROVE  KnownLinks'
  OBVIOUS
<1>0. TypeOK /\ ControlOK /\ FreshLinks
  BY DEF IInv
<1>1. ASSUME NEW r \in Requests, Start(r)
      PROVE  KnownLinks'
  BY <1>0, <1>1, KnownCalmSteps, StartsKnown
  DEF Start, LinkRoutes, AdministrationRoutes, LinkMutations, AdministrationMutations
<1>2. ASSUME NEW r \in Requests, Advance(r)
      PROVE  KnownLinks'
  BY <1>0, <1>2, KnownCalmSteps, LooksKnown, StoreLinkKnown, WritesKnown, ReadsKnown,
     StatusKnown, CleaningKnown DEF Advance
<1>3. CASE Tick
  <2>1. UNCHANGED <<info, req>>
    BY <1>3 DEF Tick
  <2>2. \A id \in Links : /\ store'[id] # "absent" => store[id] # "absent"
                          /\ left[id] < 0 => left'[id] < 0
    <3>1. \A id \in Links : left[id] \in -1..Expiry
      BY <1>0 DEF TypeOK
    <3>2. QED
      BY <1>3, <3>1, ExpiryAssumption DEF Tick
  <2>3. \A s \in Requests : req[s].pc \in Deleting => req[s].cur \in Links
    BY <1>0, Running DEF Control, Deleting
  <2>4. QED
    BY <2>1, <2>2, <2>3 DEF KnownLinks
<1>4. CASE Midnight
  <2>1. UNCHANGED <<store, info, left>>
    BY <1>4 DEF Midnight
  <2>2. \A s \in Requests : req'[s].pc = req[s].pc /\ req'[s].cur = req[s].cur
                            /\ req'[s].pend = req[s].pend
    <3>1. ASSUME NEW s \in Requests
          PROVE  req'[s].pc = req[s].pc /\ req'[s].cur = req[s].cur /\ req'[s].pend = req[s].pend
      <4>1. req[s] \in Request
        BY <1>0 DEF TypeOK
      <4>2. req'[s] = [req[s] EXCEPT !.today = FALSE] \/ req'[s] = req[s]
        BY <1>4 DEF Midnight
      <4>3. QED
        BY <4>1, <4>2 DEF Request
    <3>2. QED
      BY <3>1
  <2>3. QED
    BY <2>1, <2>2 DEF KnownLinks
<1>5. CASE UNCHANGED vars
  BY <1>5 DEF vars, redis, world, KnownLinks
<1>6. QED
  BY <1>1, <1>2, <1>3, <1>4, <1>5 DEF Next, Work

\* cleanupExpiredLinks deletes expired links only, whatever happened since
\* it read them.
THEOREM CleanupIsSafe == Spec => []CleanupSparesLive
<1>1. Init => KnownLinks
  <2> SUFFICES ASSUME Init
               PROVE  KnownLinks
    OBVIOUS
  <2>1. \A r \in Requests : req[r].pc = "idle" /\ req[r].pend = {}
    BY DEF Init, IdleRequest
  <2>2. \A id \in Links : store[id] = "absent"
    BY DEF Init
  <2>3. QED
    BY <2>1, <2>2 DEF KnownLinks, Deleting
<1>2. KnownLinks => CleanupSparesLive
  BY DEF KnownLinks, CleanupSparesLive, Deleting
<1>3. QED
  BY <1>1, <1>2, KnownKept, Invariance, PTL DEF Spec

-----------------------------------------------------------------------------
(* Generations, their links and their addresses.                           *)

\* A generation keeps its link and its address, and never goes back to where
\* its link is not stored or has no token.
Paced(p, q) ==
    /\ q.op = p.op /\ q.link = p.link
    /\ p.op = "generate" =>
          /\ q.pc # "done" => q.email = p.email /\ p.pc # "done"
          /\ q.pc \in Early \cup {"storeToken"} => p.pc \in Early
          /\ q.pc \notin Early \cup {"storeToken", "done"} => p.pc \notin Early

LEMMA AdvancePaced ==
    ASSUME TypeOK, ControlOK, NEW r \in Requests, Advance(r)
    PROVE  Turn(r) /\ Paced(req[r], req'[r])
<1>0. Control(req[r])
  BY Running
<1>1. ASSUME CheckLimit(r) \/ Lookup(r)
      PROVE  Turn(r) /\ Paced(req[r], req'[r])
  BY <1>1, CheckLimitDoes, LookupDoes DEF Goes, Picks, Answered, Keeps, Paced, Early
<1>2. CASE Members(r)
  <2>1. PICK x \in Request :
                 /\ x.op = req[r].op /\ x.email = req[r].email /\ x.link = req[r].link
                 /\ x.pend = req[r].pend
                 /\ x.todo = index[req[r].email] \/ x.swallowed
                 /\ Resumes(x, req'[r], x.todo \cup x.pend)
    BY <1>2, MembersDoes
  <2>2. Turn(r) /\ req[r].pc = "members"
    BY <1>2, MembersDoes
  <2>3. QED
    BY <2>1, <2>2 DEF Resumes, Paced, Early
<1>3. CASE Scan(r)
  <2>1. PICK x \in Request :
                 /\ x.op = req[r].op /\ x.email = req[r].email /\ x.link = req[r].link
                 /\ Resumes(x, req'[r], x.todo \cup x.pend)
    BY <1>3, ScanDoes
  <2>2. Turn(r) /\ req[r].pc = "scan"
    BY <1>3, ScanDoes
  <2>3. QED
    BY <2>1, <2>2 DEF Resumes, Paced, Early
<1>4. ASSUME StoreLink(r) \/ StoreToken(r) \/ StoreIndex(r) \/ ExpireIndex(r)
      PROVE  Turn(r) /\ Paced(req[r], req'[r])
  BY <1>4, StoreLinkDoes, StoreTokenDoes, StoreIndexDoes, ExpireIndexDoes
  DEF Goes, Picks, Answered, Keeps, Paced, Early
<1>5. ASSUME CountRead(r) \/ CountWrite(r) \/ Mail(r) \/ MailWrite(r) \/ Emit(r)
      PROVE  Turn(r) /\ Paced(req[r], req'[r])
  BY <1>5, CountReadDoes, CountWriteDoes, MailDoes, MailWriteDoes, EmitDoes
  DEF Goes, Picks, Answered, Keeps, Paced, Early
<1>6. ASSUME \/ ReadToken(r) \/ Load(r) \/ Process(r) \/ ResendRead(r) \/ StampWrite(r)
             \/ Keys(r) \/ CleanScan(r) \/ DeleteRead(r)
             \/ DeleteLink(r) \/ DeleteToken(r) \/ DeleteIndex(r)
      PROVE  Turn(r) /\ Paced(req[r], req'[r])
  <2>1. req[r].op # "generate"
    BY <1>0, <1>6 DEF Control, ReadToken, Load, Process, ResendRead, StampWrite, Keys, CleanScan,
                      DeleteRead, DeleteLink, DeleteToken, DeleteIndex
  <2>2. CASE ReadToken(r) \/ Load(r) \/ Process(r) \/ ResendRead(r) \/ StampWrite(r)
    BY <2>1, <2>2, ReadTokenDoes, LoadDoes, ProcessDoes, ResendReadDoes, StampWriteDoes
    DEF Goes, Picks, Answered, Keeps, Paced
  <2>3. CASE Keys(r) \/ CleanScan(r) \/ DeleteRead(r) \/ DeleteLink(r) \/ DeleteToken(r)
             \/ DeleteIndex(r)
    BY <2>1, <2>3, KeysDoes, CleanScanDoes, DeleteReadDoes, DeleteLinkDoes, DeleteTokenDoes,
       DeleteIndexDoes DEF Goes, Picks, Answered, Keeps, Paced
  <2>4. QED
    BY <1>6, <2>2, <2>3
<1>7. CASE ReadForStatus(r)
  <2>1. req[r].pc = "statusRead"
    BY <1>7, ReadForStatusDoes
  <2>2. ASSUME NEW x \in Request, Keeps(req[r], x), Resumes(x, req'[r], x.pend)
        PROVE  Paced(req[r], req'[r])
    BY <2>1, <2>2 DEF Keeps, Resumes, Paced, Early
  <2>3. CASE Goes(r, "statusRead", "statusWrite")
    BY <2>3 DEF Goes, Picks, Keeps, Paced, Early
  <2>4. CASE Answered(r)
    BY <2>1, <2>4 DEF Answered, Paced, Early
  <2>5. CASE req[r].op = "verify" /\ Goes(r, "statusRead", "process")
    BY <2>5 DEF Goes, Picks, Keeps, Paced
  <2>6. Turn(r)
    BY <1>7, ReadForStatusDoes DEF Goes, Picks, Answered
  <2>7. QED
    BY <1>7, <2>2, <2>3, <2>4, <2>5, <2>6, ReadForStatusDoes
<1>8. CASE WriteStatus(r)
  <2>1. req[r].pc = "statusWrite"
    BY <1>8, WriteStatusDoes
  <2>2. CASE Turn(r) /\ Resumes(req[r], req'[r], req[r].pend)
    BY <2>1, <2>2 DEF Resumes, Paced, Early
  <2>3. CASE Answered(r)
    BY <2>1, <2>3 DEF Answered, Paced, Early
  <2>4. CASE req[r].op = "verify" /\ Goes(r, "statusWrite", "process")
    BY <2>4 DEF Goes, Picks, Keeps, Paced
  <2>5. QED
    BY <1>8, <2>2, <2>3, <2>4, WriteStatusDoes
<1>9. QED
  BY <1>1, <1>2, <1>3, <1>4, <1>5, <1>6, <1>7, <1>8 DEF Advance

\* Only storeMagicLink stores links, tokens and fields.
LEMMA ElsewhereTokens ==
    ASSUME TypeOK, ControlOK, NEW r \in Requests, Advance(r)
    PROVE  /\ issued' = issued
           /\ ~StoreLink(r) => info' = info /\ left' = left
           /\ ~StoreToken(r) => \A id \in Links : tokenTTL'[id] \in {tokenTTL[id], 0}
<1>1. issued' = issued
  BY DEF Advance, CheckLimit, Lookup, Members, Scan, StoreLink, StoreToken, StoreIndex,
         ExpireIndex, CountRead, CountWrite, Mail, MailWrite, Emit, ReadToken, Load, Process,
         ReadForStatus, WriteStatus, ResendRead, StampWrite, Keys, CleanScan, DeleteRead,
         DeleteLink, DeleteToken, DeleteIndex, Throw, world
<1>2. ~StoreLink(r) => info' = info /\ left' = left
  BY DEF Advance, CheckLimit, Lookup, Members, Scan, StoreToken, StoreIndex,
         ExpireIndex, CountRead, CountWrite, Mail, MailWrite, Emit, ReadToken, Load, Process,
         ReadForStatus, WriteStatus, ResendRead, StampWrite, Keys, CleanScan, DeleteRead,
         DeleteLink, DeleteToken, DeleteIndex, Throw, world
<1>3. ~StoreToken(r) => \/ tokenTTL' = tokenTTL
                        \/ DeleteToken(r) /\ tokenTTL' = [tokenTTL EXCEPT ![req[r].cur] = 0]
  BY DEF Advance, CheckLimit, Lookup, Members, Scan, StoreLink, StoreIndex,
         ExpireIndex, CountRead, CountWrite, Mail, MailWrite, Emit, ReadToken, Load, Process,
         ReadForStatus, WriteStatus, ResendRead, StampWrite, Keys, CleanScan, DeleteRead,
         DeleteLink, DeleteToken, DeleteIndex, Throw, redis
<1>4. DeleteToken(r) => req[r].cur \in Links
  BY Running DEF DeleteToken, Control
<1>5. ~StoreToken(r) => \A id \in Links : tokenTTL'[id] \in {tokenTTL[id], 0}
  BY <1>3, <1>4 DEF TypeOK
<1>6. QED
  BY <1>1, <1>2, <1>5

LEMMA AdvanceTokens ==
    ASSUME TypeOK, ControlOK, FreshLinks, FreshTokens, NEW r \in Requests, Advance(r)
    PROVE  FreshTokens'
<1>1. Turn(r) /\ Paced(req[r], req'[r]) /\ issued' = issued
  BY AdvancePaced, ElsewhereTokens
<1>2. ASSUME NEW g \in Requests
      PROVE  /\ req'[g].op = req[g].op /\ req'[g].link = req[g].link
             /\ req[g].op = "generate" =>
                   /\ Unstored(g)' => Unstored(g)
                   /\ req'[g].pc = "storeToken" => Unstored(g) \/ req[g].pc = "storeToken"
  BY <1>1 DEF Turn, Paced, Unstored, Early
<1>3. CASE ~StoreToken(r)
  <2>1. \A id \in Links : tokenTTL'[id] > 0 => tokenTTL[id] > 0
    BY <1>3, ElsewhereTokens
  <2>2. QED
    BY <1>1, <1>2, <2>1 DEF FreshTokens
<1>4. CASE StoreToken(r)
  <2>1. CASE Answered(r) /\ UNCHANGED <<redis, world>>
    <3>1. tokenTTL' = tokenTTL
      BY <2>1 DEF redis
    <3>2. QED
      BY <1>1, <1>2, <3>1 DEF FreshTokens
  <2>2. CASE Goes(r, "storeToken", "storeIndex")
             /\ tokenTTL' = [tokenTTL EXCEPT ![req[r].link] = Expiry]
    <3>1. /\ req[r].op = "generate" /\ req[r].link \in Links /\ req[r].link \in issued
          /\ req'[r].pc = "storeIndex"
      BY <2>2, Running DEF Goes, Picks, Control, FreshLinks
    <3>2. \A g \in Requests : req[g].op = "generate" /\ req[g].link = req[r].link => g = r
      BY <3>1 DEF FreshLinks
    <3>3. \A id \in Links : id # req[r].link => tokenTTL'[id] = tokenTTL[id]
      BY <2>2 DEF TypeOK
    <3>4. ~Unstored(r)' /\ req'[r].pc # "storeToken"
      BY <3>1 DEF Unstored
    <3>5. ASSUME NEW id \in Links, tokenTTL'[id] > 0
          PROVE  /\ id \in issued
                 /\ \A g \in Requests : req'[g].op = "generate" /\ req'[g].link = id
                                        => ~Unstored(g)' /\ req'[g].pc # "storeToken"
      <4>1. CASE id = req[r].link
        BY <1>2, <3>1, <3>2, <3>4, <4>1
      <4>2. CASE id # req[r].link
        BY <1>2, <3>3, <3>5, <4>2 DEF FreshTokens
      <4>3. QED
        BY <4>1, <4>2
    <3>6. QED
      BY <1>1, <3>5 DEF FreshTokens
  <2>3. QED
    BY <1>4, <2>1, <2>2, StoreTokenDoes
<1>5. QED
  BY <1>3, <1>4

LEMMA AdvanceOwn ==
    ASSUME TypeOK, ControlOK, FreshLinks, OwnAddress, NEW r \in Requests, Advance(r)
    PROVE  OwnAddress'
<1>1. Turn(r) /\ Paced(req[r], req'[r])
  BY AdvancePaced
<1>2. ASSUME NEW g \in Requests, req'[g].op = "generate", ~Unstored(g)', req'[g].pc # "done",
             g # r \/ req'[g].pc # "storeToken"
      PROVE  /\ req[g].op = "generate" /\ ~Unstored(g) /\ req[g].pc # "done"
             /\ req'[g].link = req[g].link /\ req'[g].email = req[g].email
             /\ req[g].link \in Links
  BY <1>1, <1>2, Running DEF Turn, Paced, Unstored, Early, Control
<1>3. CASE ~StoreLink(r)
  <2>1. info' = info
    BY <1>3, ElsewhereTokens
  <2>2. req'[r].pc # "storeToken" \/ req'[r].op # "generate"
    <3>1. ASSUME req'[r].pc = "storeToken", req'[r].op = "generate"
          PROVE  FALSE
      <4>1. req[r].pc \in Early
        BY <1>1, <3>1 DEF Paced
      <4>2. CheckLimit(r) \/ Lookup(r) \/ Members(r) \/ Scan(r) \/ ReadForStatus(r) \/ WriteStatus(r)
        BY <1>3, <4>1 DEF Advance, Early, StoreToken, StoreIndex,
         ExpireIndex, CountRead, CountWrite, Mail, MailWrite, Emit, ReadToken, Load, Process,
         ResendRead, StampWrite, Keys, CleanScan, DeleteRead, DeleteLink, DeleteToken, DeleteIndex
      <4>3. CASE CheckLimit(r) \/ Lookup(r) \/ Members(r) \/ Scan(r)
        BY <3>1, <4>3, CheckLimitDoes, LookupDoes, MembersDoes, ScanDoes
        DEF Goes, Picks, Answered, Resumes
      <4>4. CASE ReadForStatus(r) \/ WriteStatus(r)
        BY <3>1, <4>4, ReadForStatusDoes, WriteStatusDoes DEF Goes, Picks, Answered, Resumes
      <4>5. QED
        BY <4>2, <4>3, <4>4
    <3>2. QED
      BY <3>1
  <2>3. QED
    BY <1>2, <2>1, <2>2 DEF OwnAddress
<1>4. CASE StoreLink(r)
  <2>1. CASE Answered(r) /\ UNCHANGED <<redis, world>>
    <3>1. info' = info /\ req'[r].pc = "done"
      BY <2>1 DEF world, Answered
    <3>2. QED
      BY <1>2, <3>1 DEF OwnAddress
  <2>2. CASE /\ Goes(r, "storeLink", "storeToken")
             /\ info' = [info EXCEPT ![req[r].link] =
                              [email |-> req[r].email, action |-> req[r].action,
                               hasUser |-> req[r].hasUser]]
    <3>1. /\ req[r].op = "generate" /\ req[r].link \in Links
          /\ req'[r].link = req[r].link /\ req'[r].email = req[r].email
          /\ req'[r].pc = "storeToken"
      BY <2>2, Running DEF Goes, Picks, Keeps, Control
    <3>2. /\ info'[req[r].link].email = req[r].email
          /\ \A id \in Links : id # req[r].link => info'[id] = info[id]
      BY <2>2, <3>1 DEF TypeOK
    <3>3. \A g \in Requests : g # r /\ req[g].op = "generate" => req[g].link # req[r].link
      BY <3>1 DEF FreshLinks
    <3>4. ASSUME NEW g \in Requests, req'[g].op = "generate", ~Unstored(g)', req'[g].pc # "done"
          PROVE  info'[req'[g].link].email = req'[g].email
      <4>1. CASE g = r
        BY <3>1, <3>2, <4>1
      <4>2. CASE g # r
        <5>1. /\ req[g].op = "generate" /\ ~Unstored(g) /\ req[g].pc # "done"
              /\ req'[g].link = req[g].link /\ req'[g].email = req[g].email
              /\ req[g].link \in Links
          BY <1>2, <3>4, <4>2
        <5>2. QED
          BY <3>2, <3>3, <4>2, <5>1 DEF OwnAddress
      <4>3. QED
        BY <4>1, <4>2
    <3>5. QED
      BY <3>4 DEF OwnAddress
  <2>3. QED
    BY <1>4, <2>1, <2>2, StoreLinkDoes
<1>5. QED
  BY <1>3, <1>4

\* The starts: a new link has no token yet.
LEMMA StartLinks ==
    ASSUME TypeOK, ControlOK, FreshTokens, OwnAddress, NEW r \in Requests, Start(r)
    PROVE  FreshTokens' /\ OwnAddress'
<1>1. CASE StartGenerate(r)
  <2>1. PICK new \in Links \ issued : Begins(r, "generate", "checkLimit", new)
                                      /\ issued' = issued \cup {new}
    BY <1>1, StartGenerateDoes
  <2>2. tokenTTL' = tokenTTL /\ info' = info
    BY <1>1, StartGenerateDoes DEF redis
  <2>3. Unstored(r)' /\ req'[r].link = new
    BY <2>1 DEF Begins, Unstored
  <2>4. \A g \in Requests : g # r => req'[g] = req[g] /\ (Unstored(g)' <=> Unstored(g))
    BY <2>1 DEF Begins, Turn, Unstored
  <2>5. FreshTokens'
    BY <2>1, <2>2, <2>3, <2>4 DEF FreshTokens
  <2>6. OwnAddress'
    BY <2>2, <2>3, <2>4 DEF OwnAddress
  <2>7. QED
    BY <2>5, <2>6
<1>2. CASE StartVerify(r) \/ StartResend(r) \/ StartRevoke(r) \/ StartCleanup(r)
  <2>1. UNCHANGED <<tokenTTL, info, issued>> /\ Turn(r) /\ req'[r].op # "generate"
    BY <1>2, StartsDoes DEF Begins, redis, world
  <2>2. \A g \in Requests : g # r => req'[g] = req[g] /\ (Unstored(g)' <=> Unstored(g))
    BY <2>1 DEF Turn, Unstored
  <2>3. QED
    BY <2>1, <2>2 DEF FreshTokens, OwnAddress
<1>3. QED
  BY <1>1, <1>2
  DEF Start, LinkRoutes, AdministrationRoutes, LinkMutations, AdministrationMutations

\* Midnight changes no field these parts speak of.
LEMMA MidnightRequests ==
    ASSUME TypeOK, Midnight, NEW s \in Requests
    PROVE  /\ req'[s].op = req[s].op /\ req'[s].pc = req[s].pc /\ req'[s].link = req[s].link
           /\ req'[s].email = req[s].email /\ req'[s].cur = req[s].cur
           /\ req'[s].todo = req[s].todo /\ req'[s].pend = req[s].pend
           /\ Unstored(s)' <=> Unstored(s)
<1>1. req[s] \in Request
  BY DEF TypeOK
<1>2. req'[s] = [req[s] EXCEPT !.today = FALSE] \/ req'[s] = req[s]
  BY DEF Midnight
<1>3. /\ req'[s].op = req[s].op /\ req'[s].pc = req[s].pc /\ req'[s].link = req[s].link
      /\ req'[s].email = req[s].email /\ req'[s].cur = req[s].cur
      /\ req'[s].todo = req[s].todo /\ req'[s].pend = req[s].pend
  BY <1>1, <1>2 DEF Request
<1>4. QED
  BY <1>3 DEF Unstored

LEMMA LinksKept ==
    IInv /\ FreshTokens /\ OwnAddress /\ [Next]_vars => FreshTokens' /\ OwnAddress'
<1> SUFFICES ASSUME IInv, FreshTokens, OwnAddress, [Next]_vars
             PROVE  FreshTokens' /\ OwnAddress'
  OBVIOUS
<1>0. TypeOK /\ ControlOK /\ FreshLinks
  BY DEF IInv
<1>1. ASSUME NEW r \in Requests, Start(r) \/ Advance(r)
      PROVE  FreshTokens' /\ OwnAddress'
  BY <1>0, <1>1, StartLinks, AdvanceTokens, AdvanceOwn
<1>2. CASE Tick
  <2>1. \A id \in Links : tokenTTL'[id] > 0 => tokenTTL[id] > 0
    <3>1. \A id \in Links : tokenTTL[id] \in 0..Expiry /\ tokenTTL'[id] = Less(tokenTTL[id])
      BY <1>0, <1>2 DEF TypeOK, Tick
    <3>2. QED
      BY <3>1, ExpiryAssumption DEF Less
  <2>2. UNCHANGED <<info, issued, req>>
    BY <1>2 DEF Tick
  <2>3. \A g \in Requests : Unstored(g)' <=> Unstored(g)
    BY <2>2 DEF Unstored
  <2>4. QED
    BY <2>1, <2>2, <2>3 DEF FreshTokens, OwnAddress
<1>3. CASE Midnight
  <2>1. UNCHANGED <<tokenTTL, info, issued>>
    BY <1>3 DEF Midnight
  <2>2. QED
    BY <1>0, <1>3, <2>1, MidnightRequests DEF FreshTokens, OwnAddress
<1>4. CASE UNCHANGED vars
  <2>1. UNCHANGED <<tokenTTL, info, issued, req>>
    BY <1>4 DEF vars, redis, world
  <2>2. \A g \in Requests : Unstored(g)' <=> Unstored(g)
    BY <2>1 DEF Unstored
  <2>3. QED
    BY <2>1, <2>2 DEF FreshTokens, OwnAddress
<1>5. QED
  BY <1>1, <1>2, <1>3, <1>4 DEF Next, Work

-----------------------------------------------------------------------------
(* One live link per address.                                              *)

LEMMA OneStep ==
    ASSUME NEW e \in Emails, OneLive(e), NEW r \in Requests, Turn(r),
           LiveOf(e)' \subseteq LiveOf(e),
           \A id \in LiveOf(e)' : Indexed(id, e)',
           req'[r].op = "generate" /\ req'[r].email = e /\ req'[r].pc \in AtStatus \cup {"scan"}
           => LiveOf(e)' \subseteq ToRevoke(req'[r]),
           req'[r].op = "generate" /\ req'[r].email = e /\ req'[r].pc \in {"storeLink", "storeToken"}
           => LiveOf(e)' = {}
    PROVE  OneLive(e)'
<1>1. \A id, other \in LiveOf(e)' : id = other
  BY DEF OneLive
<1>2. ASSUME NEW g \in Requests, req'[g].op = "generate", req'[g].email = e
      PROVE  /\ req'[g].pc \in AtStatus \cup {"scan"} => LiveOf(e)' \subseteq ToRevoke(req'[g])
             /\ req'[g].pc \in {"storeLink", "storeToken"} => LiveOf(e)' = {}
  <2>1. CASE g = r
    BY <1>2, <2>1
  <2>2. CASE g # r
    <3>1. req'[g] = req[g]
      BY <2>2 DEF Turn
    <3>2. /\ req[g].pc \in AtStatus \cup {"scan"} => LiveOf(e) \subseteq ToRevoke(req[g])
          /\ req[g].pc \in {"storeLink", "storeToken"} => LiveOf(e) = {}
      BY <1>2, <3>1 DEF OneLive, AtStatus
    <3>3. QED
      BY <3>1, <3>2
  <2>3. QED
    BY <2>1, <2>2
<1>3. QED
  BY <1>1, <1>2 DEF OneLive, AtStatus

LEMMA IndexedKept ==
    ASSUME NEW e \in Emails, NEW id \in Links, Indexed(id, e), NEW r \in Requests, Turn(r),
           id \in index[e] => id \in index'[e] /\ indexTTL'[e] = indexTTL[e],
           tokenTTL'[id] = tokenTTL[id],
           ~Generates(r, id, "storeIndex"), ~Generates(r, id, "expireIndex")
    PROVE  Indexed(id, e)'
<1>1. \A h \in Requests : /\ Generates(h, id, "storeIndex") => Generates(h, id, "storeIndex")'
                          /\ Generates(h, id, "expireIndex") => Generates(h, id, "expireIndex")'
  BY DEF Generates, Turn
<1>2. QED
  BY <1>1 DEF Indexed

LEMMA LiveFewer ==
    ASSUME NEW e \in Emails, UNCHANGED <<info, left>>,
           \A id \in Links : info[id].email = e /\ store'[id] = "pending" => store[id] = "pending",
           \A id \in Links : tokenTTL'[id] \in {tokenTTL[id], 0}
    PROVE  /\ LiveOf(e)' \subseteq LiveOf(e)
           /\ \A id \in LiveOf(e)' : tokenTTL'[id] = tokenTTL[id]
  BY DEF LiveOf, Live

\* The steps outside the index.
LEMMA OneCalm ==
    ASSUME NEW e \in Emails, OneLive(e), NEW r \in Requests, Turn(r),
           UNCHANGED <<info, left, index, indexTTL>>,
           \A id \in Links : info[id].email = e /\ store'[id] = "pending" => store[id] = "pending",
           \A id \in Links : tokenTTL'[id] \in {tokenTTL[id], 0},
           req[r].op = "generate" => req[r].pc \notin {"storeIndex", "expireIndex"},
           req'[r].op = "generate" /\ req'[r].email = e /\ req'[r].pc \in AtStatus \cup {"scan"}
           => LiveOf(e)' \subseteq ToRevoke(req'[r]),
           req'[r].op = "generate" /\ req'[r].email = e /\ req'[r].pc \in {"storeLink", "storeToken"}
           => LiveOf(e)' = {}
    PROVE  OneLive(e)'
<1>1. /\ LiveOf(e)' \subseteq LiveOf(e)
      /\ \A id \in LiveOf(e)' : tokenTTL'[id] = tokenTTL[id]
  BY LiveFewer
<1>2. \A id \in LiveOf(e) : id \in Links /\ Indexed(id, e)
  BY DEF OneLive, LiveOf
<1>3. \A id \in Links : ~Generates(r, id, "storeIndex") /\ ~Generates(r, id, "expireIndex")
  BY DEF Generates
<1>4. ASSUME NEW id \in LiveOf(e)'
      PROVE  Indexed(id, e)'
  <2>1. id \in Links /\ Indexed(id, e) /\ tokenTTL'[id] = tokenTTL[id]
    BY <1>1, <1>2, <1>4
  <2>2. QED
    BY <1>3, <2>1, IndexedKept
<1>5. QED
  BY <1>1, <1>4, OneStep

\* ... of requests that are not at revokeExistingLinks or storeMagicLink.
Aside(r) ==
    /\ Turn(r)
    /\ req[r].op = "generate" => req[r].pc \notin {"storeIndex", "expireIndex"}
    /\ req'[r].op = "generate" => req'[r].pc \notin AtStatus \cup {"scan", "storeLink", "storeToken"}

LEMMA OneAside ==
    ASSUME NEW e \in Emails, OneLive(e), NEW r \in Requests, Aside(r),
           UNCHANGED <<info, left, index, indexTTL>>,
           \A id \in Links : info[id].email = e /\ store'[id] = "pending" => store[id] = "pending",
           \A id \in Links : tokenTTL'[id] \in {tokenTTL[id], 0}
    PROVE  OneLive(e)'
  BY OneCalm DEF Aside

LEMMA OneStill ==
    ASSUME NEW e \in Emails, OneLive(e), NEW r \in Requests, Aside(r),
           UNCHANGED <<store, tokenTTL, info, left, index, indexTTL>>
    PROVE  OneLive(e)'
  BY OneAside

LEMMA OneStarts ==
    ASSUME TypeOK, ControlOK, NEW e \in Emails, OneLive(e), NEW r \in Requests, Start(r)
    PROVE  OneLive(e)'
<1>1. req[r].pc = "idle"
  BY DEF Start, LinkRoutes, AdministrationRoutes, LinkMutations, AdministrationMutations,
         StartGenerate, StartVerify, StartResend, StartRevoke, StartCleanup
<1>2. CASE StartGenerate(r)
  <2>1. Aside(r)
    BY <1>1, <1>2, StartGenerateDoes DEF Begins, Aside, AtStatus
  <2>2. UNCHANGED <<store, tokenTTL, info, left, index, indexTTL>>
    BY <1>2, StartGenerateDoes DEF redis
  <2>3. QED
    BY <2>1, <2>2, OneStill
<1>3. CASE StartVerify(r) \/ StartResend(r) \/ StartRevoke(r) \/ StartCleanup(r)
  <2>1. Aside(r)
    BY <1>1, <1>3, StartsDoes DEF Begins, Aside, AtStatus
  <2>2. UNCHANGED <<store, tokenTTL, info, left, index, indexTTL>>
    BY <1>3, StartsDoes DEF redis, world
  <2>3. QED
    BY <2>1, <2>2, OneStill
<1>4. QED
  BY <1>2, <1>3
  DEF Start, LinkRoutes, AdministrationRoutes, LinkMutations, AdministrationMutations

LEMMA OneStillSteps ==
    ASSUME TypeOK, ControlOK, NEW e \in Emails, OneLive(e), NEW r \in Requests,
           \/ CheckLimit(r) \/ Lookup(r) \/ CountRead(r) \/ CountWrite(r) \/ Mail(r) \/ Emit(r)
           \/ ReadToken(r) \/ Load(r) \/ Process(r) \/ ResendRead(r)
           \/ Keys(r) \/ CleanScan(r) \/ DeleteRead(r)
    PROVE  OneLive(e)'
<1>0. Control(req[r])
  BY Running
<1>1. CASE CheckLimit(r) \/ Lookup(r) \/ CountRead(r) \/ CountWrite(r)
  <2>1. Aside(r) /\ UNCHANGED <<store, tokenTTL, info, left, index, indexTTL>>
    BY <1>1, CheckLimitDoes, LookupDoes, CountReadDoes, CountWriteDoes
    DEF Goes, Picks, Answered, Aside, AtStatus, redis, world
  <2>2. QED
    BY <2>1, OneStill
<1>2. CASE Mail(r) \/ Emit(r) \/ ReadToken(r) \/ Process(r)
  <2>1. Aside(r) /\ UNCHANGED <<store, tokenTTL, info, left, index, indexTTL>>
    BY <1>2, MailDoes, EmitDoes, ReadTokenDoes, ProcessDoes
    DEF Goes, Picks, Answered, Aside, AtStatus, redis, world
  <2>2. QED
    BY <2>1, OneStill
<1>3. CASE Load(r) \/ ResendRead(r)
  <2>1. req[r].op # "generate"
    BY <1>0, <1>3 DEF Control, Load, ResendRead
  <2>2. Aside(r) /\ UNCHANGED <<store, tokenTTL, info, left, index, indexTTL>>
    BY <1>3, <2>1, LoadDoes, ResendReadDoes
    DEF Goes, Picks, Answered, Keeps, Aside, redis, world
  <2>3. QED
    BY <2>2, OneStill
<1>4. CASE Keys(r) \/ CleanScan(r) \/ DeleteRead(r)
  <2>1. Aside(r) /\ UNCHANGED <<store, tokenTTL, info, left, index, indexTTL>>
    BY <1>4, KeysDoes, CleanScanDoes, DeleteReadDoes
    DEF Goes, Picks, Answered, Aside, AtStatus, redis, world
  <2>2. QED
    BY <2>1, OneStill
<1>5. QED
  BY <1>1, <1>2, <1>3, <1>4

LEMMA OneDeletes ==
    ASSUME TypeOK, ControlOK, NEW e \in Emails, OneLive(e), NEW r \in Requests,
           DeleteLink(r) \/ DeleteToken(r)
    PROVE  OneLive(e)'
<1>1. Aside(r) /\ UNCHANGED <<info, left, index, indexTTL>>
  BY DeleteLinkDoes, DeleteTokenDoes DEF Goes, Picks, Answered, Aside, AtStatus, redis, world
<1>2. req[r].cur \in Links
  BY Running DEF DeleteLink, DeleteToken, Control
<1>3. /\ store' = store \/ store' = [store EXCEPT ![req[r].cur] = "absent"]
      /\ tokenTTL' = tokenTTL \/ tokenTTL' = [tokenTTL EXCEPT ![req[r].cur] = 0]
  BY DeleteLinkDoes, DeleteTokenDoes DEF redis
<1>4. /\ \A id \in Links : store'[id] = "pending" => store[id] = "pending"
      /\ \A id \in Links : tokenTTL'[id] \in {tokenTTL[id], 0}
  BY <1>2, <1>3 DEF TypeOK
<1>5. QED
  BY <1>1, <1>4, OneAside

\* The mail of a link of a settled address writes "pending" over "pending".
LEMMA OneMails ==
    ASSUME IInv, NEW e \in Emails, OneLive(e), ~Unsettled(e), NEW r \in Requests,
           MailWrite(r) \/ StampWrite(r)
    PROVE  OneLive(e)'
<1>0. TypeOK /\ ControlOK
  BY DEF IInv
<1>1. Aside(r) /\ UNCHANGED <<tokenTTL, info, left, index, indexTTL>>
  BY <1>0, MailWriteDoes, StampWriteDoes DEF Goes, Picks, Answered, Aside, AtStatus, redis, world
<1>2. store' = [store EXCEPT ![req[r].link] = req[r].copy] \/ store' = store
  BY <1>0, MailWriteDoes, StampWriteDoes
<1>3. req[r].link \in Links /\ Sender(r, req[r].link)
  BY <1>0, Running DEF MailWrite, StampWrite, Control, Sender
<1>4. info[req[r].link].email = e => store[req[r].link] = "pending"
  <2>1. ASSUME info[req[r].link].email = e
        PROVE  store[req[r].link] = "pending"
    <3>1. ~conflict[req[r].link] /\ store[req[r].link] # "absent"
      BY <1>3, <2>1 DEF Unsettled
    <3>2. QED
      BY <1>3, <3>1 DEF IInv, Exclusive
  <2>2. QED
    BY <2>1
<1>5. \A id \in Links : info[id].email = e /\ store'[id] = "pending" => store[id] = "pending"
  BY <1>0, <1>2, <1>3, <1>4 DEF TypeOK
<1>6. QED
  BY <1>1, <1>5, OneAside

LEMMA OneMembers ==
    ASSUME IInv, OwnAddress, NEW e \in Emails, OneLive(e), ~Unsettled(e), ~Unsettled(e)',
           NEW r \in Requests, Members(r)
    PROVE  OneLive(e)'
<1>0. TypeOK /\ ControlOK
  BY DEF IInv
<1>1. /\ req[r].pc = "members" /\ req[r].op = "generate" /\ Turn(r)
      /\ UNCHANGED <<store, tokenTTL, info, left, index, indexTTL>>
  BY <1>0, MembersDoes, Running DEF Control, redis, world
<1>2. PICK x \in Request :
                 /\ x.op = req[r].op /\ x.email = req[r].email /\ x.link = req[r].link
                 /\ x.pend = req[r].pend
                 /\ x.todo = index[req[r].email] \/ x.swallowed
                 /\ Resumes(x, req'[r], x.todo \cup x.pend)
  BY <1>0, MembersDoes
<1>3. LiveOf(e)' = LiveOf(e)
  BY <1>1 DEF LiveOf, Live
<1>4. ASSUME req'[r].op = "generate", req'[r].email = e
      PROVE  LiveOf(e) \subseteq x.todo
  <2>1. req[r].email = e /\ x.email = e /\ x.op = "generate"
    BY <1>1, <1>2, <1>4 DEF Resumes
  <2>2. x.todo = index[e]
    <3>1. ASSUME x.swallowed
          PROVE  FALSE
      <4>1. req'[r].swallowed
        BY <1>2, <3>1 DEF Resumes
      <4>2. QED
        BY <1>4, <4>1 DEF Unsettled
    <3>2. QED
      BY <1>2, <2>1, <3>1
  <2>3. ASSUME NEW id \in LiveOf(e), id \notin index[e]
        PROVE  FALSE
    <3>1. PICK h \in Requests : Generates(h, id, "storeIndex")
      BY <2>3 DEF OneLive, Indexed
    <3>2. req[h].email = e
      BY <2>3, <3>1 DEF OwnAddress, Generates, Unstored, LiveOf
    <3>3. Replacing(h, e) /\ Replacing(r, e) /\ h # r
      BY <1>1, <2>1, <3>1, <3>2 DEF Replacing, Generates
    <3>4. QED
      BY <3>3 DEF Unsettled
  <2>4. QED
    BY <2>2, <2>3
<1>5. /\ req'[r].op = "generate" /\ req'[r].email = e /\ req'[r].pc \in AtStatus \cup {"scan"}
         => LiveOf(e)' \subseteq ToRevoke(req'[r])
      /\ req'[r].op = "generate" /\ req'[r].email = e /\ req'[r].pc \in {"storeLink", "storeToken"}
         => LiveOf(e)' = {}
  BY <1>2, <1>3, <1>4 DEF Resumes, AtStatus
<1>6. \A id \in Links : /\ store'[id] = "pending" => store[id] = "pending"
                        /\ tokenTTL'[id] \in {tokenTTL[id], 0}
  BY <1>1
<1>7. QED
  BY <1>1, <1>5, <1>6, OneCalm

LEMMA OneScans ==
    ASSUME IInv, NEW e \in Emails, OneLive(e), ~Unsettled(e)', NEW r \in Requests, Scan(r)
    PROVE  OneLive(e)'
<1>0. TypeOK /\ ControlOK
  BY DEF IInv
<1>1. /\ req[r].pc = "scan" /\ req[r].op = "generate" /\ Turn(r)
      /\ UNCHANGED <<store, tokenTTL, info, left, index, indexTTL>>
  BY <1>0, ScanDoes, Running DEF Control, redis, world
<1>2. PICK id \in req[r].todo : \E seen \in Seen(id) : \E x \in Request :
                 /\ x.op = req[r].op /\ x.email = req[r].email /\ x.link = req[r].link
                 /\ x.todo = req[r].todo \ {id}
                 /\ x.pend = IF seen = "pending" THEN req[r].pend \cup {id} ELSE req[r].pend
                 /\ seen = store[id] \/ x.swallowed
                 /\ Resumes(x, req'[r], x.todo \cup x.pend)
  BY <1>0, ScanDoes
<1>3. PICK seen \in Seen(id) : \E x \in Request :
                 /\ x.op = req[r].op /\ x.email = req[r].email /\ x.link = req[r].link
                 /\ x.todo = req[r].todo \ {id}
                 /\ x.pend = IF seen = "pending" THEN req[r].pend \cup {id} ELSE req[r].pend
                 /\ seen = store[id] \/ x.swallowed
                 /\ Resumes(x, req'[r], x.todo \cup x.pend)
  BY <1>2
<1>4. PICK x \in Request :
                 /\ x.op = req[r].op /\ x.email = req[r].email /\ x.link = req[r].link
                 /\ x.todo = req[r].todo \ {id}
                 /\ x.pend = IF seen = "pending" THEN req[r].pend \cup {id} ELSE req[r].pend
                 /\ seen = store[id] \/ x.swallowed
                 /\ Resumes(x, req'[r], x.todo \cup x.pend)
  BY <1>3
<1>5. LiveOf(e)' = LiveOf(e)
  BY <1>1 DEF LiveOf, Live
<1>6. ASSUME req'[r].op = "generate", req'[r].email = e
      PROVE  LiveOf(e) \subseteq x.todo \cup x.pend
  <2>1. req[r].email = e
    BY <1>4, <1>6 DEF Resumes
  <2>2. LiveOf(e) \subseteq req[r].todo \cup req[r].pend
    BY <1>1, <2>1 DEF OneLive, ToRevoke
  <2>3. ~x.swallowed
    <3>1. ASSUME x.swallowed
          PROVE  FALSE
      <4>1. req'[r].swallowed
        BY <1>4, <3>1 DEF Resumes
      <4>2. QED
        BY <1>6, <4>1 DEF Unsettled
    <3>2. QED
      BY <3>1
  <2>4. id \in LiveOf(e) => id \in x.pend
    BY <1>4, <2>3 DEF LiveOf, Live
  <2>5. req[r].pend \subseteq x.pend
    BY <1>4
  <2>6. QED
    BY <1>4, <2>2, <2>4, <2>5
<1>7. /\ req'[r].op = "generate" /\ req'[r].email = e /\ req'[r].pc \in AtStatus \cup {"scan"}
         => LiveOf(e)' \subseteq ToRevoke(req'[r])
      /\ req'[r].op = "generate" /\ req'[r].email = e /\ req'[r].pc \in {"storeLink", "storeToken"}
         => LiveOf(e)' = {}
  BY <1>4, <1>5, <1>6 DEF Resumes, AtStatus
<1>8. \A i \in Links : /\ store'[i] = "pending" => store[i] = "pending"
                       /\ tokenTTL'[i] \in {tokenTTL[i], 0}
  BY <1>1
<1>9. QED
  BY <1>1, <1>7, <1>8, OneCalm

LEMMA OneReads ==
    ASSUME IInv, NEW e \in Emails, OneLive(e), ~Unsettled(e)', NEW r \in Requests,
           ReadForStatus(r)
    PROVE  OneLive(e)'
<1>0. TypeOK /\ ControlOK
  BY DEF IInv
<1>1. req[r].pc = "statusRead" /\ UNCHANGED <<store, tokenTTL, info, left, index, indexTTL>>
  BY <1>0, ReadForStatusDoes DEF redis, world
<1>2. LiveOf(e)' = LiveOf(e)
  BY <1>1 DEF LiveOf, Live
<1>3. \A i \in Links : /\ store'[i] = "pending" => store[i] = "pending"
                       /\ tokenTTL'[i] \in {tokenTTL[i], 0}
  BY <1>1
<1>4. CASE Goes(r, "statusRead", "statusWrite")
  <2>1. Turn(r) /\ Keeps(req[r], req'[r]) /\ req'[r].pc = "statusWrite" /\ req'[r].cur = req[r].cur
    BY <1>4 DEF Goes, Picks
  <2>2. ToRevoke(req'[r]) = ToRevoke(req[r])
    BY <1>1, <2>1 DEF ToRevoke, Keeps
  <2>3. req'[r].op = "generate" /\ req'[r].email = e => LiveOf(e)' \subseteq ToRevoke(req'[r])
    BY <1>1, <1>2, <2>1, <2>2 DEF OneLive, Keeps
  <2>4. QED
    BY <1>1, <1>3, <2>1, <2>3, OneCalm
<1>5. ASSUME NEW x \in Request, Keeps(req[r], x), store[req[r].cur] = "absent" \/ x.swallowed,
             Resumes(x, req'[r], x.pend), Turn(r)
      PROVE  OneLive(e)'
  <2>1. ASSUME req'[r].op = "generate", req'[r].email = e
        PROVE  LiveOf(e) \subseteq x.pend
    <3>1. req[r].op = "generate" /\ req[r].email = e
      BY <1>5, <2>1 DEF Resumes, Keeps
    <3>2. LiveOf(e) \subseteq req[r].pend \cup {req[r].cur}
      BY <1>1, <3>1 DEF OneLive, ToRevoke
    <3>3. ~x.swallowed
      <4>1. ASSUME x.swallowed
            PROVE  FALSE
        <5>1. req'[r].swallowed
          BY <1>5, <4>1 DEF Resumes
        <5>2. QED
          BY <2>1, <5>1 DEF Unsettled
      <4>2. QED
        BY <4>1
    <3>4. req[r].cur \notin LiveOf(e)
      BY <1>5, <3>3 DEF LiveOf, Live
    <3>5. QED
      BY <1>5, <3>2, <3>4 DEF Keeps
  <2>2. /\ req'[r].op = "generate" /\ req'[r].email = e /\ req'[r].pc \in AtStatus \cup {"scan"}
           => LiveOf(e)' \subseteq ToRevoke(req'[r])
        /\ req'[r].op = "generate" /\ req'[r].email = e
           /\ req'[r].pc \in {"storeLink", "storeToken"} => LiveOf(e)' = {}
    BY <1>2, <1>5, <2>1 DEF Resumes, AtStatus
  <2>3. QED
    BY <1>1, <1>3, <1>5, <2>2, OneCalm
<1>6. CASE Answered(r) \/ Goes(r, "statusRead", "process")
  <2>1. Aside(r)
    BY <1>1, <1>6 DEF Answered, Goes, Picks, Aside, AtStatus
  <2>2. QED
    BY <1>1, <2>1, OneStill
<1>7. \/ Goes(r, "statusRead", "statusWrite")
      \/ Turn(r) /\ \E x \in Request : /\ Keeps(req[r], x)
                                       /\ store[req[r].cur] = "absent" \/ x.swallowed
                                       /\ Resumes(x, req'[r], x.pend)
      \/ Answered(r)
      \/ Goes(r, "statusRead", "process")
  BY <1>0, ReadForStatusDoes
<1>8. QED
  BY <1>4, <1>5, <1>6, <1>7

LEMMA OneWrites ==
    ASSUME IInv, NEW e \in Emails, OneLive(e), NEW r \in Requests, WriteStatus(r)
    PROVE  OneLive(e)'
<1>0. TypeOK /\ ControlOK
  BY DEF IInv
<1>1. req[r].pc = "statusWrite" /\ UNCHANGED <<tokenTTL, info, left, index, indexTTL>>
  BY <1>0, WriteStatusDoes DEF redis, world
<1>2. req[r].cur \in Links /\ req[r].goal # "pending"
  BY <1>0, <1>1, Running DEF Control
<1>3. CASE Answered(r) /\ UNCHANGED <<redis, world>>
  <2>1. Aside(r) /\ UNCHANGED store
    BY <1>1, <1>3 DEF Answered, Aside, AtStatus, redis
  <2>2. QED
    BY <1>1, <2>1, OneStill
<1>4. ASSUME store' = [store EXCEPT ![req[r].cur] = req[r].goal]
      PROVE  /\ store'[req[r].cur] # "pending"
             /\ \A i \in Links : /\ store'[i] = "pending" => store[i] = "pending"
                                 /\ tokenTTL'[i] \in {tokenTTL[i], 0}
  BY <1>0, <1>1, <1>2, <1>4 DEF TypeOK
<1>5. CASE /\ store' = [store EXCEPT ![req[r].cur] = req[r].goal]
           /\ Turn(r) /\ Resumes(req[r], req'[r], req[r].pend)
  <2>1. LiveOf(e)' \subseteq LiveOf(e) /\ req[r].cur \notin LiveOf(e)'
    BY <1>1, <1>4, <1>5, LiveFewer DEF LiveOf, Live
  <2>2. ASSUME req'[r].op = "generate", req'[r].email = e
        PROVE  LiveOf(e)' \subseteq req[r].pend
    <3>1. req[r].op = "generate" /\ req[r].email = e
      BY <1>5, <2>2 DEF Resumes
    <3>2. LiveOf(e) \subseteq req[r].pend \cup {req[r].cur}
      BY <1>1, <3>1 DEF OneLive, ToRevoke
    <3>3. QED
      BY <2>1, <3>2
  <2>3. /\ req'[r].op = "generate" /\ req'[r].email = e /\ req'[r].pc \in AtStatus \cup {"scan"}
           => LiveOf(e)' \subseteq ToRevoke(req'[r])
        /\ req'[r].op = "generate" /\ req'[r].email = e
           /\ req'[r].pc \in {"storeLink", "storeToken"} => LiveOf(e)' = {}
    BY <1>5, <2>2 DEF Resumes, AtStatus
  <2>4. QED
    BY <1>1, <1>4, <1>5, <2>3, OneCalm
<1>6. CASE /\ store' = [store EXCEPT ![req[r].cur] = req[r].goal]
           /\ Answered(r) \/ Goes(r, "statusWrite", "process")
  <2>1. Aside(r)
    BY <1>1, <1>6 DEF Answered, Goes, Picks, Aside, AtStatus
  <2>2. QED
    BY <1>1, <1>4, <1>6, <2>1, OneAside
<1>7. \/ /\ store' = [store EXCEPT ![req[r].cur] = req[r].goal]
         /\ \/ Turn(r) /\ Resumes(req[r], req'[r], req[r].pend)
            \/ Answered(r)
            \/ Goes(r, "statusWrite", "process")
      \/ Answered(r) /\ UNCHANGED <<redis, world>>
  BY <1>0, WriteStatusDoes
<1>8. QED
  BY <1>3, <1>5, <1>6, <1>7

\* storeMagicLink: the new link has no token yet.
LEMMA OneStoresLink ==
    ASSUME IInv, FreshTokens, NEW e \in Emails, OneLive(e), NEW r \in Requests, StoreLink(r)
    PROVE  OneLive(e)'
<1>0. TypeOK /\ ControlOK
  BY DEF IInv
<1>1. CASE Answered(r) /\ UNCHANGED <<redis, world>>
  <2>1. Aside(r) /\ UNCHANGED <<store, tokenTTL, info, left, index, indexTTL>>
    BY <1>0, <1>1, StoreLinkDoes DEF Answered, Aside, AtStatus, redis, world
  <2>2. QED
    BY <2>1, OneStill
<1> DEFINE new == req[r].link
<1>2. CASE /\ Goes(r, "storeLink", "storeToken")
           /\ store' = [store EXCEPT ![new] = "pending"]
           /\ left' = [left EXCEPT ![new] = Expiry]
           /\ info' = [info EXCEPT ![new] = [email |-> req[r].email, action |-> req[r].action,
                                             hasUser |-> req[r].hasUser]]
           /\ UNCHANGED <<tokenTTL, index, indexTTL>>
  <2>1. /\ new \in Links /\ req[r].op = "generate" /\ req[r].pc = "storeLink" /\ Turn(r)
        /\ Keeps(req[r], req'[r]) /\ req'[r].pc = "storeToken"
    BY <1>0, <1>2, Running DEF Goes, Picks, Control
  <2>2. tokenTTL[new] = 0
    <3>1. ~(tokenTTL[new] > 0)
      BY <2>1 DEF FreshTokens, Unstored
    <3>2. tokenTTL[new] \in 0..Expiry
      BY <1>0, <2>1 DEF TypeOK
    <3>3. QED
      BY <3>1, <3>2, ExpiryAssumption
  <2>3. \A id \in Links : id # new =>
           store'[id] = store[id] /\ left'[id] = left[id] /\ info'[id] = info[id]
    BY <1>0, <1>2 DEF TypeOK
  <2>4. LiveOf(e)' \subseteq LiveOf(e)
    <3>1. new \notin LiveOf(e)'
      BY <1>2, <2>2 DEF LiveOf, Live
    <3>2. QED
      BY <1>2, <2>3, <3>1 DEF LiveOf, Live
  <2>5. ASSUME NEW id \in LiveOf(e)'
        PROVE  Indexed(id, e)'
    <3>1. id \in Links /\ Indexed(id, e)
      BY <2>4 DEF OneLive, LiveOf
    <3>2. ~Generates(r, id, "storeIndex") /\ ~Generates(r, id, "expireIndex")
      BY <2>1 DEF Generates
    <3>3. QED
      BY <1>2, <2>1, <3>1, <3>2, IndexedKept
  <2>6. req'[r].op = "generate" /\ req'[r].email = e => LiveOf(e)' = {}
    BY <2>1, <2>4 DEF OneLive, Keeps
  <2>7. QED
    BY <2>1, <2>4, <2>5, <2>6, OneStep DEF AtStatus
<1>3. QED
  BY <1>0, <1>1, <1>2, StoreLinkDoes

LEMMA OneStoresToken ==
    ASSUME IInv, OwnAddress, NEW e \in Emails, OneLive(e), ~Unsettled(e)',
           NEW r \in Requests, StoreToken(r)
    PROVE  OneLive(e)'
<1>0. TypeOK /\ ControlOK
  BY DEF IInv
<1>1. CASE Answered(r) /\ UNCHANGED <<redis, world>>
  <2>1. Aside(r) /\ UNCHANGED <<store, tokenTTL, info, left, index, indexTTL>>
    BY <1>0, <1>1, StoreTokenDoes DEF Answered, Aside, AtStatus, redis, world
  <2>2. QED
    BY <2>1, OneStill
<1> DEFINE new == req[r].link
<1>2. CASE /\ Goes(r, "storeToken", "storeIndex")
           /\ tokenTTL' = [tokenTTL EXCEPT ![new] = Expiry]
           /\ UNCHANGED <<store, storeTTL, index, indexTTL, daily, world>>
  <2>1. /\ new \in Links /\ req[r].op = "generate" /\ req[r].pc = "storeToken" /\ Turn(r)
        /\ req'[r].op = "generate" /\ req'[r].link = new /\ req'[r].email = req[r].email
        /\ req'[r].pc = "storeIndex"
    BY <1>0, <1>2, Running DEF Goes, Picks, Keeps, Control
  <2>2. UNCHANGED <<store, info, left, index, indexTTL>>
    BY <1>2 DEF world
  <2>3. \A id \in Links : id # new => tokenTTL'[id] = tokenTTL[id]
    BY <1>0, <1>2 DEF TypeOK
  <2>4. info[new].email = req[r].email
    BY <2>1 DEF OwnAddress, Unstored
  <2>5. \A id \in LiveOf(e)' : id # new => id \in LiveOf(e)
    BY <2>2, <2>3 DEF LiveOf, Live
  <2>6. CASE e # req[r].email
    <3>1. new \notin LiveOf(e)'
      BY <2>2, <2>4, <2>6 DEF LiveOf
    <3>2. LiveOf(e)' \subseteq LiveOf(e)
      BY <2>5, <3>1
    <3>3. ASSUME NEW id \in LiveOf(e)'
          PROVE  Indexed(id, e)'
      <4>1. id \in Links /\ Indexed(id, e) /\ id # new
        BY <3>1, <3>2 DEF OneLive, LiveOf
      <4>2. ~Generates(r, id, "storeIndex") /\ ~Generates(r, id, "expireIndex")
        BY <2>1 DEF Generates
      <4>3. QED
        BY <2>1, <2>2, <2>3, <4>1, <4>2, IndexedKept
    <3>4. QED
      BY <2>1, <3>2, <3>3, OneStep DEF AtStatus
  <2>7. CASE e = req[r].email
    <3>1. LiveOf(e)' \subseteq {new}
      BY <2>1, <2>5, <2>7 DEF OneLive
    <3>2. ASSUME NEW g \in Requests, req'[g].op = "generate", req'[g].email = e,
                 req'[g].pc \in AtStatus \cup {"scan", "storeLink", "storeToken"}
          PROVE  FALSE
      <4>1. g # r
        BY <2>1, <3>2 DEF AtStatus
      <4>2. Replacing(g, e)' /\ Replacing(r, e)'
        BY <2>1, <2>7, <3>2 DEF Replacing, AtStatus
      <4>3. QED
        BY <4>1, <4>2 DEF Unsettled
    <3>3. \A id, other \in LiveOf(e)' : id = other
      BY <3>1
    <3>4. \A id \in LiveOf(e)' : Indexed(id, e)'
      <4>1. ASSUME NEW id \in LiveOf(e)'
            PROVE  Indexed(id, e)'
        <5>1. id = new
          BY <3>1, <4>1
        <5>2. Generates(r, id, "storeIndex")'
          BY <2>1, <5>1 DEF Generates
        <5>3. QED
          BY <5>2 DEF Indexed
      <4>2. QED
        BY <4>1
    <3>5. ASSUME NEW g \in Requests, req'[g].op = "generate", req'[g].email = e
          PROVE  /\ req'[g].pc \in AtStatus \cup {"scan"} => LiveOf(e)' \subseteq ToRevoke(req'[g])
                 /\ req'[g].pc \in {"storeLink", "storeToken"} => LiveOf(e)' = {}
      BY <3>2, <3>5
    <3>6. QED
      BY <3>3, <3>4, <3>5 DEF OneLive, AtStatus
  <2>8. QED
    BY <2>6, <2>7
<1>3. QED
  BY <1>0, <1>1, <1>2, StoreTokenDoes

LEMMA OneStoresIndex ==
    ASSUME IInv, OwnAddress, NEW e \in Emails, OneLive(e), ~Unsettled(e)',
           NEW r \in Requests, StoreIndex(r)
    PROVE  OneLive(e)'
<1>0. TypeOK /\ ControlOK
  BY DEF IInv
<1> DEFINE new == req[r].link
<1>1. /\ new \in Links /\ req[r].op = "generate" /\ req[r].pc = "storeIndex" /\ Turn(r)
      /\ req[r].email \in Emails
      /\ req'[r].op = "generate" /\ req'[r].link = new /\ req'[r].email = req[r].email
      /\ req'[r].pc = "expireIndex"
  BY <1>0, StoreIndexDoes, Running DEF Goes, Picks, Keeps, Control
<1>2. UNCHANGED <<store, tokenTTL, info, left, indexTTL>>
  BY <1>0, StoreIndexDoes DEF world
<1>3. \/ index' = [index EXCEPT ![req[r].email] = @ \cup {new}]
      \/ index' = index /\ req'[r].swallowed
  BY <1>0, StoreIndexDoes
<1>4. index[e] \subseteq index'[e] /\ (e = req[r].email => new \in index'[e])
  <2>1. e = req[r].email => ~req'[r].swallowed
    BY <1>1 DEF Unsettled
  <2>2. QED
    BY <1>0, <1>1, <1>3, <2>1 DEF TypeOK
<1>5. info[new].email = req[r].email
  BY <1>1 DEF OwnAddress, Unstored
<1>6. LiveOf(e)' = LiveOf(e)
  BY <1>2 DEF LiveOf, Live
<1>7. ASSUME NEW id \in LiveOf(e)'
      PROVE  Indexed(id, e)'
  <2>1. id \in Links /\ info[id].email = e /\ Indexed(id, e)
    BY <1>6 DEF OneLive, LiveOf
  <2>2. CASE id = new
    <3>1. id \in index'[e]
      BY <1>4, <1>5, <2>1, <2>2
    <3>2. Generates(r, id, "expireIndex")'
      BY <1>1, <2>2 DEF Generates
    <3>3. QED
      BY <3>1, <3>2 DEF Indexed
  <2>3. CASE id # new
    <3>1. ~Generates(r, id, "storeIndex") /\ ~Generates(r, id, "expireIndex")
      BY <1>1, <2>3 DEF Generates
    <3>2. QED
      BY <1>1, <1>2, <1>4, <2>1, <3>1, IndexedKept
  <2>4. QED
    BY <2>2, <2>3
<1>8. QED
  BY <1>1, <1>6, <1>7, OneStep DEF AtStatus

LEMMA OneExpires ==
    ASSUME IInv, OwnAddress, NEW e \in Emails, OneLive(e), ~Unsettled(e), ~Unsettled(e)',
           NEW r \in Requests, ExpireIndex(r)
    PROVE  OneLive(e)'
<1>0. TypeOK /\ ControlOK
  BY DEF IInv
<1> DEFINE new == req[r].link
<1>1. /\ new \in Links /\ req[r].op = "generate" /\ req[r].pc = "expireIndex" /\ Turn(r)
      /\ req[r].email \in Emails
      /\ req'[r].op = "generate" /\ req'[r].email = req[r].email /\ req'[r].pc = "countRead"
  BY <1>0, ExpireIndexDoes, Running DEF Goes, Picks, Keeps, Control
<1>2. UNCHANGED <<store, tokenTTL, info, left, index>>
  BY <1>0, ExpireIndexDoes DEF world
<1>3. \/ indexTTL' = [indexTTL EXCEPT ![req[r].email] =
                         IF index[req[r].email] = {} THEN NoTTL ELSE Expiry]
      \/ indexTTL' = indexTTL /\ req'[r].swallowed
  BY <1>0, ExpireIndexDoes
<1>4. info[new].email = req[r].email
  BY <1>1 DEF OwnAddress, Unstored
<1>5. LiveOf(e)' = LiveOf(e)
  BY <1>2 DEF LiveOf, Live
<1>6. e # req[r].email => indexTTL'[e] = indexTTL[e]
  BY <1>0, <1>1, <1>3 DEF TypeOK
<1>7. e = req[r].email => new \in index[e] /\ indexTTL'[e] = Expiry
  <2>1. ASSUME e = req[r].email
        PROVE  new \in index[e] /\ indexTTL'[e] = Expiry
    <3>1. new \in index[e]
      BY <1>1, <2>1 DEF Unsettled
    <3>2. ~req'[r].swallowed
      BY <1>1, <2>1 DEF Unsettled
    <3>3. QED
      BY <1>0, <1>1, <1>3, <2>1, <3>1, <3>2 DEF TypeOK
  <2>2. QED
    BY <2>1
<1>8. ASSUME NEW id \in LiveOf(e)'
      PROVE  Indexed(id, e)'
  <2>1. id \in Links /\ info[id].email = e /\ Indexed(id, e)
    BY <1>5 DEF OneLive, LiveOf
  <2>2. CASE e # req[r].email
    <3>1. ~Generates(r, id, "storeIndex") /\ ~Generates(r, id, "expireIndex")
      BY <1>4, <2>1, <2>2 DEF Generates
    <3>2. QED
      BY <1>1, <1>2, <1>6, <2>1, <2>2, <3>1, IndexedKept
  <2>3. CASE e = req[r].email
    <3>1. tokenTTL'[id] <= indexTTL'[e]
      <4>1. tokenTTL[id] \in 0..Expiry
        BY <1>0, <2>1 DEF TypeOK
      <4>2. QED
        BY <1>2, <1>7, <2>3, <4>1, ExpiryAssumption
    <3>2. CASE id \in index[e]
      BY <1>2, <3>1, <3>2 DEF Indexed
    <3>3. CASE id \notin index[e]
      <4>1. PICK h \in Requests : Generates(h, id, "storeIndex")
        BY <2>1, <3>3 DEF Indexed
      <4>2. Generates(h, id, "storeIndex")'
        BY <1>1, <4>1 DEF Generates, Turn
      <4>3. QED
        BY <4>2 DEF Indexed
    <3>4. QED
      BY <3>2, <3>3
  <2>4. QED
    BY <2>2, <2>3
<1>9. QED
  BY <1>1, <1>5, <1>8, OneStep DEF AtStatus

LEMMA OneDeletesIndex ==
    ASSUME IInv, KnownLinks, NEW e \in Emails, OneLive(e), NEW r \in Requests, DeleteIndex(r)
    PROVE  OneLive(e)'
<1>0. TypeOK /\ ControlOK
  BY DEF IInv
<1> DEFINE old == req[r].cur
           owner == info[old].email
           rest == index[owner] \ {old}
<1>1. /\ Turn(r) /\ req[r].pc = "deleteIndex" /\ req'[r].pc = "cleanScan" /\ old \in Links
  BY <1>0, DeleteIndexDoes, Running DEF Goes, Picks, Control
<1>2. UNCHANGED <<store, tokenTTL, info, left>>
  BY <1>0, DeleteIndexDoes DEF world
<1>3. \/ /\ index' = [index EXCEPT ![owner] = rest]
         /\ indexTTL' = [indexTTL EXCEPT ![owner] = IF rest = {} THEN NoTTL ELSE @]
      \/ UNCHANGED <<index, indexTTL>>
  BY <1>0, DeleteIndexDoes
<1>4. left[old] < 0
  BY <1>1 DEF KnownLinks, Deleting
<1>5. LiveOf(e)' = LiveOf(e)
  BY <1>2 DEF LiveOf, Live
<1>6. old \notin LiveOf(e)
  <2>1. left[old] \in -1..Expiry
    BY <1>0, <1>1 DEF TypeOK
  <2>2. QED
    BY <1>4, <2>1, ExpiryAssumption DEF LiveOf, Live
<1>7. \A id \in Links : id # old /\ id \in index[e] => id \in index'[e] /\ indexTTL'[e] = indexTTL[e]
  BY <1>0, <1>3 DEF TypeOK
<1>8. ASSUME NEW id \in LiveOf(e)'
      PROVE  Indexed(id, e)'
  <2>1. id \in Links /\ Indexed(id, e) /\ id # old
    BY <1>5, <1>6 DEF OneLive, LiveOf
  <2>2. ~Generates(r, id, "storeIndex") /\ ~Generates(r, id, "expireIndex")
    BY <1>1 DEF Generates
  <2>3. QED
    BY <1>1, <1>2, <1>7, <2>1, <2>2, IndexedKept
<1>9. QED
  BY <1>1, <1>5, <1>8, OneStep DEF AtStatus

LEMMA OneTicks ==
    ASSUME IInv, OwnAddress, NEW e \in Emails, OneLive(e), ~Unsettled(e)', Tick
    PROVE  OneLive(e)'
<1>0. TypeOK
  BY DEF IInv
<1>1. UNCHANGED <<info, req>>
  BY DEF Tick
<1>2. /\ \A id \in Links : store'[id] = IF storeTTL[id] <= 1 THEN "absent" ELSE store[id]
      /\ \A id \in Links : tokenTTL'[id] = Less(tokenTTL[id])
      /\ \A id \in Links : left'[id] = IF left[id] = -1 THEN -1 ELSE left[id] - 1
      /\ index'[e] = IF indexTTL[e] = 1 THEN {} ELSE index[e]
      /\ indexTTL'[e] = IF indexTTL[e] \in {1, NoTTL} THEN NoTTL ELSE indexTTL[e] - 1
  BY DEF Tick
<1>3. /\ \A id \in Links : tokenTTL[id] \in 0..Expiry /\ left[id] \in -1..Expiry
      /\ indexTTL[e] \in 1..NoTTL
  BY <1>0 DEF TypeOK
<1>4. \A id \in Links : /\ store'[id] = "pending" => store[id] = "pending"
                        /\ tokenTTL'[id] > 0 => tokenTTL[id] > 1
                        /\ left'[id] >= 0 => left[id] >= 0
  <2>1. \A id \in Links : store'[id] = "pending" => store[id] = "pending"
    BY <1>2
  <2>2. \A id \in Links : tokenTTL'[id] > 0 => tokenTTL[id] > 1
    BY <1>2, <1>3, ExpiryAssumption DEF Less
  <2>3. \A id \in Links : left'[id] >= 0 => left[id] >= 0
    BY <1>2, <1>3, ExpiryAssumption
  <2>4. QED
    BY <2>1, <2>2, <2>3
<1>5. LiveOf(e)' \subseteq LiveOf(e) /\ \A id \in LiveOf(e)' : tokenTTL[id] > 1
  <2>1. ASSUME NEW id \in LiveOf(e)'
        PROVE  id \in LiveOf(e) /\ tokenTTL[id] > 1
    <3>1. id \in Links /\ info[id].email = e /\ store'[id] = "pending" /\ tokenTTL'[id] > 0
          /\ left'[id] >= 0
      BY <1>1 DEF LiveOf, Live
    <3>2. store[id] = "pending" /\ tokenTTL[id] > 1 /\ left[id] >= 0
      BY <1>4, <3>1
    <3>3. tokenTTL[id] > 0
      BY <1>3, <3>1, <3>2, ExpiryAssumption
    <3>4. QED
      BY <3>1, <3>2, <3>3 DEF LiveOf, Live
  <2>2. QED
    BY <2>1
<1>6. \A h \in Requests, id \in Links : /\ Generates(h, id, "storeIndex")' <=> Generates(h, id, "storeIndex")
                                        /\ Generates(h, id, "expireIndex")' <=> Generates(h, id, "expireIndex")
  BY <1>1 DEF Generates
<1>7. ASSUME NEW id \in LiveOf(e)'
      PROVE  Indexed(id, e)'
  <2>1. id \in Links /\ Indexed(id, e) /\ tokenTTL[id] > 1 /\ info[id].email = e
    BY <1>5 DEF OneLive, LiveOf
  <2>2. CASE \E h \in Requests : Generates(h, id, "storeIndex")
    BY <1>6, <2>1, <2>2 DEF Indexed
  <2>3. CASE id \in index[e] /\ tokenTTL[id] <= indexTTL[e]
    <3>1. indexTTL[e] # 1
      BY <1>3, <2>1, <2>3, ExpiryAssumption
    <3>2. tokenTTL'[id] <= indexTTL'[e]
      <4>1. tokenTTL'[id] = tokenTTL[id] - 1
        BY <1>2, <1>3, <2>1, ExpiryAssumption DEF Less
      <4>2. CASE indexTTL[e] = NoTTL
        <5>1. indexTTL'[e] = Expiry + 1
          BY <1>2, <4>2 DEF NoTTL
        <5>2. QED
          BY <1>3, <2>1, <4>1, <5>1, ExpiryAssumption
      <4>3. CASE indexTTL[e] # NoTTL
        <5>1. indexTTL'[e] = indexTTL[e] - 1
          BY <1>2, <3>1, <4>3
        <5>2. indexTTL[e] \in Int /\ tokenTTL[id] \in Int
          BY <1>3, <2>1, ExpiryAssumption DEF NoTTL
        <5>3. QED
          BY <2>3, <4>1, <5>1, <5>2
      <4>4. QED
        BY <4>2, <4>3
    <3>3. id \in index'[e]
      BY <1>2, <2>3, <3>1
    <3>4. QED
      BY <3>2, <3>3 DEF Indexed
  <2>4. ASSUME NEW h \in Requests, id \in index[e], Generates(h, id, "expireIndex")
        PROVE  Indexed(id, e)'
    <3>1. Generates(h, id, "expireIndex")'
      BY <1>6, <2>1, <2>4
    <3>2. req[h].email = e
      BY <2>1, <2>4 DEF OwnAddress, Generates, Unstored
    <3>3. id \in index'[e]
      BY <1>1, <2>4, <3>1, <3>2 DEF Unsettled, Generates
    <3>4. QED
      BY <3>1, <3>3 DEF Indexed
  <2>5. QED
    BY <2>1, <2>2, <2>3, <2>4 DEF Indexed
<1>8. \A g \in Requests : ToRevoke(req'[g]) = ToRevoke(req[g])
  BY <1>1
<1>9. QED
  BY <1>1, <1>5, <1>7, <1>8 DEF OneLive

LEMMA OneMidnight ==
    ASSUME TypeOK, NEW e \in Emails, OneLive(e), Midnight
    PROVE  OneLive(e)'
<1>1. UNCHANGED <<store, tokenTTL, info, left, index, indexTTL>>
  BY DEF Midnight
<1>2. LiveOf(e)' = LiveOf(e)
  BY <1>1 DEF LiveOf, Live
<1>3. ASSUME NEW s \in Requests
      PROVE  /\ req'[s].op = req[s].op /\ req'[s].pc = req[s].pc /\ req'[s].email = req[s].email
             /\ ToRevoke(req'[s]) = ToRevoke(req[s])
             /\ \A id \in Links : /\ Generates(s, id, "storeIndex")' <=> Generates(s, id, "storeIndex")
                                  /\ Generates(s, id, "expireIndex")' <=> Generates(s, id, "expireIndex")
  BY MidnightRequests DEF ToRevoke, Generates
<1>4. \A id \in Links : Indexed(id, e)' <=> Indexed(id, e)
  BY <1>1, <1>3 DEF Indexed
<1>5. LiveOf(e) \subseteq Links
  BY DEF LiveOf
<1>6. QED
  BY <1>2, <1>3, <1>4, <1>5 DEF OneLive

\* What History keeps of the addresses.
LEMMA SettledBefore ==
    ASSUME TypeOK, UnsettledNoted, History, NEW e \in Emails, ~unsettled'[e]
    PROVE  ~unsettled[e] /\ ~Unsettled(e) /\ ~Unsettled(e)'
  BY DEF History, UnsettledNoted, TypeOK

LEMMA UnsettledKept == TypeOK /\ UnsettledNoted /\ [Next]_vars => UnsettledNoted'
<1> SUFFICES ASSUME TypeOK, UnsettledNoted, [Next]_vars
             PROVE  UnsettledNoted'
  OBVIOUS
<1>1. CASE Next
  <2>1. History
    BY <1>1 DEF Next, Work
  <2>2. QED
    BY <2>1 DEF History, UnsettledNoted, TypeOK
<1>2. CASE UNCHANGED vars
  <2>1. UNCHANGED <<store, index, info, req, conflict, unsettled>>
    BY <1>2 DEF vars, redis, world
  <2>2. \A e \in Emails : Unsettled(e)' <=> Unsettled(e)
    BY <2>1 DEF Unsettled, Replacing, Sender
  <2>3. QED
    BY <2>1, <2>2 DEF UnsettledNoted
<1>3. QED
  BY <1>1, <1>2

LEMMA OneLiveKept == LinksInv /\ [Next]_vars => OneLiveEach'
<1> SUFFICES ASSUME LinksInv, [Next]_vars
             PROVE  OneLiveEach'
  OBVIOUS
<1>0. IInv /\ TypeOK /\ ControlOK /\ KnownLinks /\ FreshTokens /\ OwnAddress /\ UnsettledNoted
      /\ OneLiveEach
  BY DEF LinksInv, IInv
<1>1. CASE UNCHANGED vars
  <2>1. UNCHANGED <<store, tokenTTL, index, indexTTL, left, info, req, unsettled>>
    BY <1>1 DEF vars, redis, world
  <2>2. \A e \in Emails : OneLive(e)' <=> OneLive(e)
    BY <2>1 DEF OneLive, LiveOf, Live, Indexed, Generates
  <2>3. QED
    BY <1>0, <2>1, <2>2 DEF OneLiveEach
<1>2. CASE Next
  <2> SUFFICES ASSUME NEW e \in Emails, ~unsettled'[e]
               PROVE  OneLive(e)'
    BY DEF OneLiveEach
  <2>0. History
    BY <1>2 DEF Next, Work
  <2>1. OneLive(e) /\ ~Unsettled(e) /\ ~Unsettled(e)'
    BY <1>0, <2>0, SettledBefore DEF OneLiveEach
  <2>2. ASSUME NEW r \in Requests, Start(r)
        PROVE  OneLive(e)'
    BY <1>0, <2>1, <2>2, OneStarts
  <2>3. ASSUME NEW r \in Requests, Advance(r)
        PROVE  OneLive(e)'
    BY <1>0, <2>1, <2>3, OneStillSteps, OneDeletes, OneMails, OneMembers, OneScans, OneReads,
       OneWrites, OneStoresLink, OneStoresToken, OneStoresIndex, OneExpires, OneDeletesIndex
    DEF Advance
  <2>4. CASE Tick
    BY <1>0, <2>1, <2>4, OneTicks
  <2>5. CASE Midnight
    BY <1>0, <2>1, <2>5, OneMidnight
  <2>6. QED
    BY <1>2, <2>2, <2>3, <2>4, <2>5 DEF Next, Work
<1>3. QED
  BY <1>1, <1>2

\* The inductive invariant of links and addresses.
THEOREM LinksInvariance == Spec => []LinksInv
<1>1. Init => LinksInv
  <2> SUFFICES ASSUME Init
               PROVE  LinksInv
    OBVIOUS
  <2>1. IInv
    BY InitIInv
  <2>2. \A r \in Requests : req[r].pc = "idle" /\ req[r].pend = {} /\ req[r].op = None
                            /\ ~req[r].swallowed
    BY DEF Init, IdleRequest
  <2>3. /\ \A id \in Links : store[id] = "absent" /\ tokenTTL[id] = 0 /\ info[id].email = None
        /\ \A e \in Emails : ~unsettled[e]
    BY DEF Init
  <2>4. None \notin Ops
    BY NoneAssumption
  <2>5. KnownLinks
    BY <2>2, <2>3 DEF KnownLinks, Deleting
  <2>6. FreshTokens /\ OwnAddress
    BY <2>2, <2>3, <2>4 DEF FreshTokens, OwnAddress, Ops
  <2>7. UnsettledNoted
    <3>1. \A e \in Emails : e # None
      BY NoneAssumption
    <3>2. QED
      BY <2>2, <2>3, <2>4, <3>1 DEF UnsettledNoted, Unsettled, Replacing, Ops
  <2>8. OneLiveEach
    <3>1. \A e \in Emails : LiveOf(e) = {}
      BY <2>3 DEF LiveOf, Live
    <3>2. QED
      BY <3>1 DEF OneLiveEach, OneLive
  <2>9. QED
    BY <2>1, <2>5, <2>6, <2>7, <2>8 DEF LinksInv
<1>2. LinksInv /\ [Next]_vars => LinksInv'
  <2>1. LinksInv => IInv /\ TypeOK /\ KnownLinks /\ FreshTokens /\ OwnAddress /\ UnsettledNoted
    BY DEF LinksInv, IInv
  <2>2. QED
    BY <2>1, NextIInv, KnownKept, LinksKept, UnsettledKept, OneLiveKept DEF LinksInv
<1>3. QED
  BY <1>1, <1>2, PTL DEF Spec

\* revokeExistingLinks: an address has at most one usable link, whatever the
\* number of calls, outside the overlaps Unsettled names.
THEOREM OneUsableLinkHolds == Spec => []OneUsableLink
<1>1. LinksInv => OneUsableLink
  BY DEF LinksInv, OneLiveEach, OneLive, OneUsableLink, LiveOf, Live, Usable
<1>2. QED
  BY <1>1, LinksInvariance, PTL
=============================================================================
