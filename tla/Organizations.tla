---------------------------- MODULE Organizations ----------------------------
(***************************************************************************)
(* mu-organization: the records of organizations (create, update, delete,  *)
(* find, each with its event), the members of an organization and the      *)
(* invitations, which all live in one JSON column of the organization.     *)
(*                                                                         *)
(* A call of a resolver is a member of Calls.  It takes one step for every *)
(* await, and between two steps other calls run.  Rows that a call creates *)
(* get the call as their key, and so does the token of an invitation: each *)
(* call makes at most one row of a table and at most one token.            *)
(*                                                                         *)
(* Bounds: every call is made once (Calls); PoolSize stands for the five   *)
(* connections of src/config/database.js.                                  *)
(***************************************************************************)
EXTENDS Naturals, FiniteSets

CONSTANTS
  Calls,      \* calls of the resolvers
  Users,      \* users; an email address stands for the user who has it
  Old,        \* the key of the rows that exist from the beginning
  None,       \* no token, or no user
  PoolSize    \* connections of the pool

ASSUME PoolSizeAssumption == PoolSize \in Nat \ {0}
ASSUME OldAssumption == Old \notin Calls
ASSUME NoneAssumption == None \notin Calls \cup Users

VARIABLES
  rows,       \* the rows of the tables, as pairs of a table and a key
  member,     \* the user, the organization and the role of each membership row
  column,     \* advancedAttributes.invitations of organization Old
  lapsed,     \* tokens whose expiresAt (and exp) is past
  open,       \* calls whose transaction is open
  told,       \* the last event published about a record
  pc,         \* where a call is
  call,       \* arguments and local variables of a call
  mailed,     \* history: tokens that were stored and sent
  spent,      \* history: tokens that were removed on purpose
  crossed,    \* history: rows and columns written under another call's copy, rows
              \* updated when they were gone, the column replaced by a client
  raced,      \* history: users given a membership, made or moved, that nobody had looked for
  unsaid      \* history: rows whose event was not published

vars == <<rows, member, column, lapsed, open, told, pc, call, mailed, spent,
          crossed, raced, unsaid>>
history == <<mailed, spent, crossed, raced, unsaid>>

Tables == {"organization", "media", "industry", "tag", "topic", "userOrganization"}
Kinds == Tables \cup {"faq"}

\* FaqOrganization is made by modelOrganization: it is the table of organizations.
TableOf(k) == IF k = "faq" THEN "organization" ELSE k

\* The resolver files that import saveAndPublishEntity; the others only call it.
Imports == {"organization", "media", "userOrganization"}

Ids == {Old} \cup Calls
Row(k, id) == <<TableOf(k), id>>
Column == <<"column", Old>>
Tokens == Calls \cup {None}
Roles == {"owner", "member", "other"}
Events == {"none", "created", "updated", "deleted", "visited"}
Ops == {"create", "update", "delete", "find", "invite", "uninvite", "add", "remove", "setRole"}
Arguments == [op: Ops, kind: Kinds, id: Ids, user: Users \cup {None}, copy: [Users -> Tokens], fresh: BOOLEAN]

-----------------------------------------------------------------------------
(* Beginning and ending of calls.                                           *)

Running(c) == pc[c] \notin {"idle", "done", "failed"}

Start(c, op, kind, id, user, first) ==
  /\ pc[c] = "idle"
  /\ pc' = [pc EXCEPT ![c] = first]
  /\ call' = [call EXCEPT ![c] = [@ EXCEPT !.op = op, !.kind = kind, !.id = id, !.user = user]]
  /\ UNCHANGED <<rows, member, column, lapsed, open, told, history>>

Goto(c, step) == pc' = [pc EXCEPT ![c] = step]

NoInvitations == [u \in Users |-> None]

\* The arguments of a call without the copies it does not need any more.
Forgotten(c) == [call[c] EXCEPT !.copy = NoInvitations, !.fresh = FALSE]

\* A statement outside of a transaction needs a connection of the pool.
Connected == Cardinality(open) < PoolSize

\* The row a call works on, and the calls that have read it and go on with it.
Subject(c) == Row(call[c].kind, call[c].id)
HoldsRow(d, x) == Subject(d) = x /\ pc[d] \in {"destroy", "publish", "saveRole"}
HoldsColumn(d) == pc[d] \in {"drop", "write", "membership", "save", "erase"}

\* Writes to the column of organization Old: nothing if the row is gone.
SetColumn(c, value) ==
  /\ column' = IF Row("organization", Old) \in rows THEN value ELSE column
  /\ crossed' = IF \E d \in Calls \ {c} : HoldsColumn(d)
                THEN crossed \cup {Column} ELSE crossed

-----------------------------------------------------------------------------
(* Records.  A create or an update opens a transaction and hands it to      *)
(* saveAndPublishEntity, which commits or rolls back, and then publishes.   *)

\* await db.transaction(), and the code up to the next await.  Where
\* saveAndPublishEntity is not imported the call of it throws, and nothing ends
\* the transaction that was just begun.
BeginTransaction(c) ==
  /\ pc[c] = "begin"
  /\ Connected
  /\ open' = open \cup {c}
  /\ Goto(c, IF call[c].kind \in Imports THEN "commit" ELSE "failed")
  /\ UNCHANGED <<rows, member, column, lapsed, told, call, history>>

\* Faulty variant: the user is left out of the membership that is built.
MembershipOfNobody(c) == [user |-> None, org |-> Old, role |-> "member"]

Membership(c) ==
  [user |-> call[c].user,
   org |-> IF call[c].op = "create" /\ call[c].fresh THEN c ELSE Old,
   role |-> IF call[c].op = "create" /\ call[c].fresh THEN "owner" ELSE "member"]

\* Another call has looked for a membership of the user and found none.
LooksAway(d, u) == /\ call[d].op = "add" /\ call[d].user = u /\ call[d].fresh
                   /\ pc[d] \in {"save", "begin", "commit"}

\* An update of a membership brings whatever user, organization and role the client
\* gives, and looks for no other membership (userOrganizationUpdate copies the ids).
Reassign(c) ==
  LET id == call[c].id
      there == {o \in Ids : Row("organization", o) \in rows}
  IN
  /\ call[c].kind = "userOrganization" /\ Subject(c) \in rows
  /\ \E m \in [user: Users, org: there \cup {member[id].org}, role: Roles] :
       /\ member' = [member EXCEPT ![id] = m]
       /\ raced' = IF m.org = Old /\ (m.user # member[id].user \/ member[id].org # Old)
                   THEN raced \cup {m.user} ELSE raced

\* entityBuilderFn, entityCommitCallBackFn and entityTransactionCommitFn.  An
\* update of a row that is gone changes nothing and is published all the same; one
\* of an organization may bring an advancedAttributes of its own.
Commit(c) ==
  /\ pc[c] = "commit"
  /\ open' = open \ {c}
  /\ Goto(c, "publish")
  /\ LET k == call[c].kind IN
     IF call[c].op = "update"
     THEN /\ UNCHANGED rows
          /\ UNCHANGED <<member, raced>> \/ Reassign(c)
          /\ \/ /\ crossed' = IF Subject(c) \in rows THEN crossed ELSE crossed \cup {Subject(c)}
                /\ UNCHANGED column
             \/ /\ k = "organization" /\ call[c].id = Old /\ Row(k, Old) \in rows
                /\ column' = NoInvitations
                /\ crossed' = crossed \cup {Column}
     ELSE /\ rows' = rows \cup {Row(k, c)}
          /\ IF k = "userOrganization"
             THEN /\ member' = [member EXCEPT ![c] = Membership(c)]
                  /\ raced' = IF \/ call[c].op = "create" /\ ~call[c].fresh
                                 \/ \E d \in Calls \ {c} : LooksAway(d, call[c].user)
                              THEN raced \cup {call[c].user} ELSE raced
             ELSE UNCHANGED <<member, raced>>
          /\ UNCHANGED <<column, crossed>>
  /\ UNCHANGED <<lapsed, told, call, mailed, spent, unsaid>>

EventOf(op) == CASE op = "delete" -> "deleted" [] op = "update" -> "updated"
                 [] op = "find" -> "visited" [] OTHER -> "created"

\* publishHelper.  Who made an organization then becomes its owner, by a second
\* create with a transaction of its own.
Publish(c) ==
  /\ pc[c] = "publish"
  /\ told' = [told EXCEPT ![<<call[c].kind, call[c].id>>] = EventOf(call[c].op)]
  /\ IF call[c].op = "create" /\ call[c].kind = "organization"
     THEN /\ Goto(c, "begin")
          /\ call' = [call EXCEPT ![c].kind = "userOrganization", ![c].fresh = TRUE]
     ELSE Goto(c, "done") /\ call' = [call EXCEPT ![c] = Forgotten(c)]
  /\ UNCHANGED <<rows, member, column, lapsed, open, history>>

\* findByPk of a delete or of a query.  The queries of organizations tell nobody.
FindRow(c) ==
  /\ pc[c] = "find"
  /\ Connected
  /\ Goto(c, IF Subject(c) \notin rows THEN "failed"
             ELSE IF call[c].op = "delete" THEN "destroy"
             ELSE IF call[c].kind = "organization" THEN "done" ELSE "publish")
  /\ UNCHANGED <<rows, member, column, lapsed, open, told, call, history>>

\* Faulty variant: the removal of a member is not published.
DestroyUntold(c) ==
  /\ pc[c] = "destroy"
  /\ Connected
  /\ rows' = rows \ {Subject(c)}
  /\ crossed' = IF \E d \in Calls \ {c} : HoldsRow(d, Subject(c))
                THEN crossed \cup {Subject(c)} ELSE crossed
  /\ Goto(c, IF call[c].op = "remove" THEN "done" ELSE "publish")
  /\ UNCHANGED <<member, column, lapsed, open, told, call, mailed, spent, raced, unsaid>>

\* entity.destroy(): no error when the row is gone already.
Destroy(c) ==
  /\ pc[c] = "destroy"
  /\ Connected
  /\ rows' = rows \ {Subject(c)}
  /\ crossed' = IF \E d \in Calls \ {c} : HoldsRow(d, Subject(c))
                THEN crossed \cup {Subject(c)} ELSE crossed
  /\ IF call[c].op = "remove"       \* publishes without waiting
     THEN told' = [told EXCEPT ![<<call[c].kind, call[c].id>>] = "deleted"] /\ Goto(c, "done")
     ELSE Goto(c, "publish") /\ UNCHANGED told
  /\ UNCHANGED <<member, column, lapsed, open, call, mailed, spent, raced, unsaid>>

-----------------------------------------------------------------------------
(* Members and invitations.                                                 *)

\* Organization.findByPk: the call has a copy of the column from now on.  (The user
\* who is looked up before or after comes from a table nothing here writes.)
ReadOrganization(c) ==
  LET u == call[c].user  t == column[u] IN
  /\ pc[c] = "org"
  /\ Connected
  /\ \/ /\ Row("organization", Old) \in rows
        /\ call[c].op = "invite" => t = None \/ t \in lapsed
        /\ call[c].op = "uninvite" => t # None
        /\ call' = [call EXCEPT ![c].copy = column]
        /\ Goto(c, CASE call[c].op = "add" -> "membership"
                     [] call[c].op = "uninvite" -> "erase"
                     [] OTHER -> IF t = None THEN "write" ELSE "drop")
     \/ /\ \/ Row("organization", Old) \notin rows
           \/ call[c].op = "invite" /\ t # None /\ t \notin lapsed
           \/ call[c].op = "uninvite" /\ t = None
        /\ Goto(c, "failed") /\ UNCHANGED call
  /\ UNCHANGED <<rows, member, column, lapsed, open, told, history>>

\* handleExpiredInvitation, called by an invitation to the same address.
DropExpired(c) ==
  /\ pc[c] = "drop"
  /\ Connected
  /\ SetColumn(c, [call[c].copy EXCEPT ![call[c].user] = None])
  /\ Goto(c, "write")
  /\ UNCHANGED <<rows, member, lapsed, open, told, call, mailed, spent, raced, unsaid>>

\* organization.update({advancedAttributes}) with the new token, and the event
\* that sends it by mail, which is not waited for.
StoreInvitation(c) ==
  /\ pc[c] = "write"
  /\ Connected
  /\ SetColumn(c, [call[c].copy EXCEPT ![call[c].user] = c])
  /\ mailed' = mailed \cup {c}
  /\ Goto(c, "done")
  /\ call' = [call EXCEPT ![c] = Forgotten(c)]
  /\ UNCHANGED <<rows, member, lapsed, open, told, spent, raced, unsaid>>

EraseInvitation(c) ==
  /\ pc[c] = "erase"
  /\ Connected
  /\ SetColumn(c, [call[c].copy EXCEPT ![call[c].user] = None])
  /\ spent' = spent \cup {call[c].copy[call[c].user]}
  /\ Goto(c, "done")
  /\ call' = [call EXCEPT ![c] = Forgotten(c)]
  /\ UNCHANGED <<rows, member, lapsed, open, told, mailed, raced, unsaid>>

MembershipsOf(u) ==
  {id \in Ids : Row("userOrganization", id) \in rows /\ member[id].user = u /\ member[id].org = Old}

\* Faulty variant: what the look-up found is not used.
FindMembershipBlindly(c) ==
  /\ pc[c] = "membership"
  /\ Connected
  /\ call' = [call EXCEPT ![c].fresh = TRUE]
  /\ Goto(c, IF call[c].copy[call[c].user] # None THEN "save" ELSE "begin")
  /\ UNCHANGED <<rows, member, column, lapsed, open, told, history>>

\* addUserToOrganization looks for a membership, and goes on even if there is one.
FindMembership(c) ==
  LET u == call[c].user  none == MembershipsOf(u) = {} IN
  /\ pc[c] = "membership"
  /\ Connected
  /\ call' = [call EXCEPT ![c] = IF call[c].copy[u] # None THEN [@ EXCEPT !.fresh = none]
                                 ELSE [Forgotten(c) EXCEPT !.fresh = none]]
  /\ Goto(c, IF call[c].copy[u] # None THEN "save" ELSE IF none THEN "begin" ELSE "done")
  /\ UNCHANGED <<rows, member, column, lapsed, open, told, history>>

\* Faulty variant: the column is changed in memory and not saved.
SaveNothing(c) ==
  /\ pc[c] = "save"
  /\ Connected
  /\ spent' = spent \cup {call[c].copy[call[c].user]}
  /\ Goto(c, IF call[c].fresh THEN "begin" ELSE "done")
  /\ call' = [call EXCEPT ![c] = [Forgotten(c) EXCEPT !.fresh = call[c].fresh]]
  /\ UNCHANGED <<rows, member, column, lapsed, open, told, mailed, crossed, raced, unsaid>>

\* The invitation is removed before the membership exists.
SaveAccepted(c) ==
  /\ pc[c] = "save"
  /\ Connected
  /\ SetColumn(c, [call[c].copy EXCEPT ![call[c].user] = None])
  /\ spent' = spent \cup {call[c].copy[call[c].user]}
  /\ Goto(c, IF call[c].fresh THEN "begin" ELSE "done")
  /\ call' = [call EXCEPT ![c] = [Forgotten(c) EXCEPT !.fresh = call[c].fresh]]
  /\ UNCHANGED <<rows, member, lapsed, open, told, mailed, raced, unsaid>>

\* UserOrganization.findOne({userID, organizationID}) of a removal or a new role.
FindOneMembership(c) ==
  LET found == MembershipsOf(call[c].user) IN
  /\ pc[c] = "one"
  /\ Connected
  /\ \/ found = {} /\ Goto(c, "failed") /\ UNCHANGED call
     \/ \E id \in found :
          /\ call' = [call EXCEPT ![c].id = id]
          /\ Goto(c, IF call[c].op = "remove" THEN "destroy" ELSE "saveRole")
  /\ UNCHANGED <<rows, member, column, lapsed, open, told, history>>

\* userOrganization.save(), and the event, whether or not the row is still there.
SaveRole(c) ==
  /\ pc[c] = "saveRole"
  /\ Connected
  /\ member' = [member EXCEPT ![call[c].id].role =
                  IF Subject(c) \in rows THEN "other" ELSE @]
  /\ told' = [told EXCEPT ![<<call[c].kind, call[c].id>>] = "updated"]
  /\ Goto(c, "done")
  /\ UNCHANGED <<rows, column, lapsed, open, call, history>>

-----------------------------------------------------------------------------
(* Failures and time.                                                       *)

\* Faulty variant: a failure inside of saveAndPublishEntity is not rolled back.
FailOpen(c) ==
  /\ Running(c)
  /\ Goto(c, "failed")
  /\ call' = [call EXCEPT ![c] = Forgotten(c)]
  /\ unsaid' = IF pc[c] = "publish" /\ call[c].op # "find" THEN unsaid \cup {Subject(c)} ELSE unsaid
  /\ UNCHANGED <<rows, member, column, lapsed, open, told, mailed, spent, crossed, raced>>

\* A statement, the pool or the broker refuses.  saveAndPublishEntity rolls back.
Fail(c) ==
  /\ Running(c)
  /\ Goto(c, "failed")
  /\ call' = [call EXCEPT ![c] = Forgotten(c)]
  /\ open' = open \ {c}
  /\ unsaid' = IF pc[c] = "publish" /\ call[c].op # "find" THEN unsaid \cup {Subject(c)} ELSE unsaid
  /\ UNCHANGED <<rows, member, column, lapsed, told, mailed, spent, crossed, raced>>

\* The process is restarted: its calls end and the database drops its transactions.
Restart ==
  /\ pc' = [c \in Calls |-> IF Running(c) THEN "failed" ELSE pc[c]]
  /\ call' = [c \in Calls |-> Forgotten(c)]
  /\ open' = {}
  /\ unsaid' = unsaid \cup {Subject(c) : c \in {d \in Calls : pc[d] = "publish" /\ call[d].op # "find"}}
  /\ UNCHANGED <<rows, member, column, lapsed, told, mailed, spent, crossed, raced>>

\* Seven days pass.
Lapse(t) ==
  /\ t \in mailed \ lapsed
  /\ lapsed' = lapsed \cup {t}
  /\ UNCHANGED <<rows, member, column, open, told, pc, call, history>>

-----------------------------------------------------------------------------
(* The resolvers.                                                           *)

\* Keys a client can know.
Known == {id \in Ids : id = Old \/ (id \in Calls /\ pc[id] # "idle")}

CreateOrganization(c, u) == Start(c, "create", "organization", c, u, "begin")
UpdateOrganization(c, id) == Start(c, "update", "organization", id, None, "begin")
DeleteOrganization(c, id) == Start(c, "delete", "organization", id, None, "find")
FindOrganization(c, id) == Start(c, "find", "organization", id, None, "find")
OrganizationResolvers(c) ==
  \/ (\E u \in Users : CreateOrganization(c, u))
  \/ \E id \in Known : UpdateOrganization(c, id) \/ DeleteOrganization(c, id) \/ FindOrganization(c, id)

CreateUserOrganization(c, u) == Start(c, "create", "userOrganization", c, u, "begin")
UpdateUserOrganization(c, id) == Start(c, "update", "userOrganization", id, None, "begin")
DeleteUserOrganization(c, id) == Start(c, "delete", "userOrganization", id, None, "find")
FindUserOrganization(c, id) == Start(c, "find", "userOrganization", id, None, "find")
UserOrganizationResolvers(c) ==
  \/ (\E u \in Users : CreateUserOrganization(c, u))
  \/ \E id \in Known : UpdateUserOrganization(c, id) \/ DeleteUserOrganization(c, id) \/ FindUserOrganization(c, id)

CreateMedia(c) == Start(c, "create", "media", c, None, "begin")
UpdateMedia(c, id) == Start(c, "update", "media", id, None, "begin")
DeleteMedia(c, id) == Start(c, "delete", "media", id, None, "find")
FindMedia(c, id) == Start(c, "find", "media", id, None, "find")
MediaResolvers(c) ==
  \/ CreateMedia(c)
  \/ \E id \in Known : UpdateMedia(c, id) \/ DeleteMedia(c, id) \/ FindMedia(c, id)

CreateTag(c) == Start(c, "create", "tag", c, None, "begin")
UpdateTag(c, id) == Start(c, "update", "tag", id, None, "begin")
DeleteTag(c, id) == Start(c, "delete", "tag", id, None, "find")
FindTag(c, id) == Start(c, "find", "tag", id, None, "find")
TagResolvers(c) ==
  \/ CreateTag(c)
  \/ \E id \in Known : UpdateTag(c, id) \/ DeleteTag(c, id) \/ FindTag(c, id)

CreateTopic(c) == Start(c, "create", "topic", c, None, "begin")
UpdateTopic(c, id) == Start(c, "update", "topic", id, None, "begin")
DeleteTopic(c, id) == Start(c, "delete", "topic", id, None, "find")
FindTopic(c, id) == Start(c, "find", "topic", id, None, "find")
TopicResolvers(c) ==
  \/ CreateTopic(c)
  \/ \E id \in Known : UpdateTopic(c, id) \/ DeleteTopic(c, id) \/ FindTopic(c, id)

CreateFaq(c) == Start(c, "create", "faq", c, None, "begin")
UpdateFaq(c, id) == Start(c, "update", "faq", id, None, "begin")
DeleteFaq(c, id) == Start(c, "delete", "faq", id, None, "find")
FindFaq(c, id) == Start(c, "find", "faq", id, None, "find")
FaqResolvers(c) ==
  \/ CreateFaq(c)
  \/ \E id \in Known : UpdateFaq(c, id) \/ DeleteFaq(c, id) \/ FindFaq(c, id)

\* The stray identifier in createIndustry throws before the transaction begins.
CreateIndustry(c) == Start(c, "create", "industry", c, None, "failed")
UpdateIndustry(c, id) == Start(c, "update", "industry", id, None, "begin")
DeleteIndustry(c, id) == Start(c, "delete", "industry", id, None, "find")
FindIndustry(c, id) == Start(c, "find", "industry", id, None, "find")
IndustryResolvers(c) ==
  \/ CreateIndustry(c)
  \/ \E id \in Known : UpdateIndustry(c, id) \/ DeleteIndustry(c, id) \/ FindIndustry(c, id)

InviteUser(c, u) == Start(c, "invite", "organization", Old, u, "org")
RemoveInvitation(c, u) == Start(c, "uninvite", "organization", Old, u, "org")
AddUser(c, u) == Start(c, "add", "userOrganization", c, u, "org")
RemoveUser(c, u) == Start(c, "remove", "userOrganization", Old, u, "one")
UpdateUserRole(c, u) == Start(c, "setRole", "userOrganization", Old, u, "one")
MemberResolvers(c) ==
  \E u \in Users : \/ InviteUser(c, u) \/ RemoveInvitation(c, u) \/ AddUser(c, u)
                   \/ RemoveUser(c, u) \/ UpdateUserRole(c, u)

-----------------------------------------------------------------------------
(* The specification.                                                       *)

Init ==
  /\ rows = {<<t, Old>> : t \in Tables}
  /\ \E u \in Users :
       member = [id \in Ids |-> [user |-> u, org |-> Old, role |-> "owner"]]
  /\ column = NoInvitations
  /\ lapsed = {}
  /\ open = {}
  /\ told = [x \in Kinds \X Ids |-> "none"]
  /\ pc = [c \in Calls |-> "idle"]
  /\ call = [c \in Calls |-> [op |-> "find", kind |-> "tag", id |-> Old, user |-> None,
                              copy |-> NoInvitations, fresh |-> FALSE]]
  /\ mailed = {} /\ spent = {} /\ crossed = {} /\ raced = {} /\ unsaid = {}

Step(c) ==
  \/ BeginTransaction(c) \/ Commit(c) \/ Publish(c)
  \/ FindRow(c) \/ Destroy(c)
  \/ ReadOrganization(c) \/ DropExpired(c) \/ StoreInvitation(c)
  \/ EraseInvitation(c) \/ FindMembership(c) \/ SaveAccepted(c)
  \/ FindOneMembership(c) \/ SaveRole(c)

\* The mutations and queries of the GraphQL schema.
Resolvers(c) ==
  \/ OrganizationResolvers(c) \/ UserOrganizationResolvers(c) \/ MemberResolvers(c)
  \/ MediaResolvers(c) \/ TagResolvers(c) \/ TopicResolvers(c)
  \/ FaqResolvers(c) \/ IndustryResolvers(c)

Next ==
  \/ \E c \in Calls : Resolvers(c) \/ Step(c) \/ Fail(c)
  \/ Restart
  \/ \E t \in Calls : Lapse(t)

Spec == Init /\ [][Next]_vars

-----------------------------------------------------------------------------
(* Properties.                                                              *)

TypeOK ==
  /\ rows \subseteq Tables \X Ids
  /\ member \in [Ids -> [user: Users, org: Ids, role: Roles]]
  /\ column \in [Users -> Tokens]
  /\ lapsed \subseteq Calls /\ open \subseteq Calls
  /\ told \in [Kinds \X Ids -> Events]
  /\ call \in [Calls -> Arguments]
  /\ mailed \subseteq Calls /\ spent \subseteq Tokens
  /\ raced \subseteq Users

Told(x) == {told[<<k, x[2]>>] : k \in {j \in Kinds : TableOf(j) = x[1]}}
BeingTold(x) == \E c \in Calls : Subject(c) = x /\ pc[c] = "publish"

\* What other services are told of a record is what became of it: a row is gone
\* exactly when its deletion was the last thing published about it.  Only a lost event,
\* and a call that overlapped the deletion (or came after it), can say otherwise.
\* (the destroy or commit of the resolvers, and the publish after it)
EventsTellRows ==
  \A x \in (Tables \X Ids) \ (crossed \cup unsaid) :
    ~BeingTold(x) =>
      /\ x \in rows => "deleted" \notin Told(x)
      /\ x \notin rows /\ (x[2] = Old \/ Told(x) # {"none"}) => "deleted" \in Told(x)

\* A user is a member of an organization once, unless a membership was created without
\* looking (createUserOrganization), moved to the user by an update that does not look
\* either (updateUserOrganization), or made when two calls had both looked before either
\* created one.  (addUserToOrganization, lines 165 to 202)
MemberOnce == \A u \in Users \ raced : Cardinality(MembershipsOf(u)) <= 1

\* verifyInvitationToken accepts a token.
Accepts(t) ==
  /\ t \notin lapsed
  /\ Row("organization", Old) \in rows
  /\ \E u \in Users : call[t].user = u /\ column[u] = t

\* As long as no two calls had the column in their hands at once and no client replaced it,
\* a token is accepted exactly when it was sent, is not over, and was neither used nor
\* withdrawn: no invitation is lost and none comes back.  (the JSON column that five
\* functions read and write whole)
InvitationsExact ==
  Column \notin crossed =>
    \A t \in Calls : Accepts(t) <=> /\ t \in mailed \ (lapsed \cup spent)
                                   /\ Row("organization", Old) \in rows

\* A transaction without a call that will end it was begun by a resolver that does not
\* import saveAndPublishEntity: no other path, whatever fails, keeps a connection.
\* (db.transaction() before the entity's configuration)
LeaksAreKnown ==
  \A c \in open : \/ pc[c] = "commit"
                  \/ pc[c] = "failed" /\ call[c].kind \notin Imports
=============================================================================
