------------------------- MODULE OrganizationsProofs -------------------------
(***************************************************************************)
(* Proofs about the records, the members and the invitations of            *)
(* mu-organization.  The inductive invariant IInv is the type invariant,   *)
(* what a call is doing at each of its steps (Fits), and four parts that   *)
(* do not need one another:                                                *)
(*   - Ended and Heard, that nothing about a row that is gone is still on  *)
(*     its way except the word that it is gone (for EventsTellRows);       *)
(*   - Alone, what a call that found no membership goes on to rely on (for *)
(*     MemberOnce);                                                        *)
(*   - Sent and Exact, that the copy of the column a call holds is the     *)
(*     column, up to what the call itself has written (InvitationsExact);  *)
(*   - LeaksAreKnown, which is inductive as it stands.                     *)
(* The proof first says what each action does to the call that takes it    *)
(* (the lemmas called ...Does) and then keeps every part by these effects. *)
(***************************************************************************)
EXTENDS Organizations, FiniteSetTheorems, TLAPS

Places == {"idle", "begin", "commit", "publish", "find", "destroy", "org", "drop",
           "write", "erase", "membership", "save", "one", "saveRole", "done", "failed"}

Creates(c) == call[c].op \in {"create", "add"}

\* What a call may be doing at a step.
Fits(c) ==
  /\ pc[c] \in {"begin", "commit"} => call[c].op \in {"create", "update", "add"}
  /\ pc[c] \in {"begin", "commit", "org", "membership", "save"} /\ Creates(c) => call[c].id = c
  /\ pc[c] = "publish" => call[c].op \in {"create", "update", "add", "delete", "find"}
  /\ pc[c] = "publish" /\ call[c].op = "create" => call[c].id = c
  /\ call[c].op = "add" /\ pc[c] \in {"begin", "commit"} => call[c].fresh
  /\ call[c].op = "add" /\ Running(c) => call[c].kind = "userOrganization"
  /\ pc[c] \in {"begin", "commit"} /\ Creates(c) /\ call[c].kind = "userOrganization"
       => call[c].user \in Users
  /\ pc[c] \in {"begin", "commit", "publish"} /\ call[c].op = "create"
       /\ call[c].kind = "organization" => call[c].user \in Users
  /\ pc[c] = "find" => call[c].op \in {"delete", "find"}
  /\ pc[c] = "destroy" => call[c].op \in {"delete", "remove"}
  /\ pc[c] = "org" => call[c].op \in {"invite", "uninvite", "add"}
  /\ pc[c] \in {"drop", "write"} => call[c].op = "invite"
  /\ pc[c] = "erase" => call[c].op = "uninvite"
  /\ pc[c] \in {"membership", "save"} => call[c].op = "add"
  /\ pc[c] \in {"one", "saveRole"} => call[c].op \in {"remove", "setRole"}
  /\ pc[c] = "one" => call[c].kind = "userOrganization"
  /\ pc[c] \in {"org", "drop", "write", "erase", "membership", "save", "one"}
       => call[c].user \in Users

Typed ==
  /\ TypeOK
  /\ pc \in [Calls -> Places]
  /\ \A c \in Calls : Fits(c)

-----------------------------------------------------------------------------
(* Rows and what is told of them.                                           *)

\* A call that has not made row x yet and may still do so.
MayMake(c, x) ==
  \/ pc[c] = "idle" /\ x[2] = c
  \/ /\ Creates(c) /\ x = Subject(c)
     /\ pc[c] \in {"begin", "commit", "org", "membership", "save"}
  \/ /\ call[c].op = "create" /\ call[c].kind = "organization"
     /\ pc[c] \in {"begin", "commit", "publish"}
     /\ x = <<"userOrganization", c>>

\* A call about to say that x is gone.
Buries(d, x) == Subject(d) = x /\ pc[d] = "publish" /\ call[d].op = "delete"

\* A row that exists was never said to be gone, and nobody is about to say so.
Ended ==
  \A x \in Tables \X Ids :
    /\ x \in rows => /\ "deleted" \notin Told(x)
                     /\ \A d \in Calls : ~Buries(d, x)
    /\ \A c \in Calls : MayMake(c, x) =>
         /\ x \notin rows
         /\ "deleted" \notin Told(x)
         /\ \A d \in Calls : Subject(d) = x => pc[d] \notin {"destroy", "saveRole"} /\ ~Buries(d, x)

\* Unless a copy was crossed or an event lost, a row that is not there yet was never
\* spoken of, and of a row that is gone only its end is still to be told.
Heard ==
  \A x \in (Tables \X Ids) \ (crossed \cup unsaid) :
    /\ x \notin rows => \A d \in Calls : HoldsRow(d, x) => Buries(d, x)
    /\ x \notin rows /\ ~BeingTold(x) /\ (x[2] = Old \/ Told(x) # {"none"}) => "deleted" \in Told(x)
    /\ \A c \in Calls : MayMake(c, x) => Told(x) = {"none"} /\ \A d \in Calls : ~HoldsRow(d, x)

-----------------------------------------------------------------------------
(* Members.                                                                 *)

\* Of a user nobody raced for there is one membership, and none while a call that
\* found none has still to make one.
Alone ==
  \A u \in Users \ raced :
    /\ \A i, j \in MembershipsOf(u) : i = j
    /\ \A c \in Calls : LooksAway(c, u) => MembershipsOf(u) = {}

-----------------------------------------------------------------------------
(* Invitations.                                                             *)

\* Every token comes from an invitation that is over.
Sent ==
  /\ \A t \in mailed : pc[t] = "done" /\ call[t].user \in Users
  /\ spent \subseteq mailed \cup {None}
  /\ \A u \in Users : column[u] \in mailed \cup {None}
  /\ \A c \in Calls, u \in Users : call[c].copy[u] \in mailed \cup {None}

\* The copy of the column that a call holds.
Faithful(c) ==
  LET u == call[c].user  copy == call[c].copy IN
  /\ pc[c] \in {"drop", "membership", "save", "erase"} => \A v \in Users : copy[v] = column[v]
  /\ pc[c] = "write" => /\ column[u] = None
                        /\ \A v \in Users \ {u} : copy[v] = column[v]
  /\ pc[c] \in {"save", "erase"} => copy[u] # None
  /\ pc[c] = "drop" => copy[u] \in lapsed

Exact ==
  Column \notin crossed /\ Row("organization", Old) \in rows =>
    /\ \A u \in Users : column[u] # None =>
         column[u] \in mailed /\ call[column[u]].user = u /\ column[u] \notin spent
    /\ \A t \in mailed \ (spent \cup lapsed) : column[call[t].user] = t
    /\ \A c \in Calls : Faithful(c)

IInv == Typed /\ Ended /\ Heard /\ Alone /\ Sent /\ Exact /\ LeaksAreKnown

-----------------------------------------------------------------------------
(* What each action does to the call that takes it.                         *)

\* Call c goes to a step, and every other call stays as it is.
Turns(c, step) ==
  /\ pc' \in [Calls -> Places] /\ call' \in [Calls -> Arguments]
  /\ pc'[c] = step
  /\ \A d \in Calls \ {c} : pc'[d] = pc[d] /\ call'[d] = call[d]

\* What call c is about stays the same.
Steady(c) == /\ call'[c].op = call[c].op /\ call'[c].kind = call[c].kind
             /\ call'[c].id = call[c].id /\ call'[c].user = call[c].user

Forgets(c) == /\ \A u \in Users : call'[c].copy[u] = None
              /\ ~call'[c].fresh

\* Replacing the arguments and the step of one call.
LEMMA TurnsWhen ==
  ASSUME Typed, NEW c \in Calls, NEW step \in Places, NEW a \in Arguments,
         Goto(c, step), call' = [call EXCEPT ![c] = a]
  PROVE  Turns(c, step) /\ call'[c] = a
BY DEF Typed, TypeOK, Goto, Turns

LEMMA StaysWhen ==
  ASSUME Typed, NEW c \in Calls, NEW step \in Places,
         Goto(c, step), call' = call
  PROVE  Turns(c, step) /\ call'[c] = call[c]
BY DEF Typed, TypeOK, Goto, Turns

\* The copies a call does not need any more are gone, and what it is about stays.
LEMMA ForgottenArguments ==
  ASSUME Typed, NEW c \in Calls
  PROVE  /\ Forgotten(c) \in Arguments
         /\ Forgotten(c).op = call[c].op /\ Forgotten(c).kind = call[c].kind
         /\ Forgotten(c).id = call[c].id /\ Forgotten(c).user = call[c].user
         /\ Forgotten(c).copy = NoInvitations /\ Forgotten(c).fresh = FALSE
<1>1. NoInvitations \in [Users -> Tokens]
  BY DEF NoInvitations, Tokens
<1>2. call[c] \in Arguments
  BY DEF Typed, TypeOK
<1> QED BY <1>1, <1>2 DEF Forgotten, Arguments

LEMMA NothingHeld == \A u \in Users : NoInvitations[u] = None
BY DEF NoInvitations

LEMMA ForgetsWhen ==
  ASSUME Typed, NEW c \in Calls, NEW step \in Places,
         Goto(c, step), call' = [call EXCEPT ![c] = Forgotten(c)]
  PROVE  Turns(c, step) /\ Steady(c) /\ Forgets(c)
<1>1. Turns(c, step) /\ call'[c] = Forgotten(c)
  BY TurnsWhen, ForgottenArguments
<1> QED BY <1>1, ForgottenArguments, NothingHeld DEF Steady, Forgets

\* The start of a call.
Starts(c, op, kind, id, user, first) ==
  /\ pc[c] = "idle"
  /\ Turns(c, first)
  /\ call'[c].op = op /\ call'[c].kind = kind /\ call'[c].id = id /\ call'[c].user = user
  /\ call'[c].copy = call[c].copy /\ call'[c].fresh = call[c].fresh
  /\ UNCHANGED <<rows, member, column, lapsed, open, told, history>>

LEMMA StartDoes ==
  ASSUME Typed, NEW c \in Calls, NEW op \in Ops, NEW kind \in Kinds, NEW id \in Ids,
         NEW user \in Users \cup {None}, NEW first \in Places,
         Start(c, op, kind, id, user, first)
  PROVE  Starts(c, op, kind, id, user, first)
<1> DEFINE a == [call[c] EXCEPT !.op = op, !.kind = kind, !.id = id, !.user = user]
<1>1. call[c] \in Arguments
  BY DEF Typed, TypeOK
<1>2. /\ a \in Arguments
      /\ a.op = op /\ a.kind = kind /\ a.id = id /\ a.user = user
      /\ a.copy = call[c].copy /\ a.fresh = call[c].fresh
  BY <1>1 DEF Arguments
<1>3. call' = [call EXCEPT ![c] = a] /\ Goto(c, first)
  BY DEF Start, Goto
<1> HIDE DEF a
<1>4. Turns(c, first) /\ call'[c] = a
  BY <1>2, <1>3, TurnsWhen
<1> QED BY <1>2, <1>4 DEF Start, Starts

\* What the resolvers start.
Begins(c, op, kind, id, user, first) ==
  /\ op = "create" => /\ id = c
                      /\ kind \in {"organization", "userOrganization"} => user \in Users
                      /\ first = "begin" \/ (first = "failed" /\ kind = "industry")
  /\ op = "update" => first = "begin"
  /\ op \in {"delete", "find"} => first = "find"
  /\ op = "add" => id = c
  /\ op = "add" => kind = "userOrganization"
  /\ op \in {"invite", "uninvite", "add"} => first = "org" /\ user \in Users
  /\ op \in {"remove", "setRole"} => first = "one" /\ user \in Users
  /\ op \in {"remove", "setRole"} => kind = "userOrganization"

LEMMA KeysKnown ==
  /\ Old \in Ids
  /\ \A c \in Calls : c \in Ids
  /\ \A id \in Known : id \in Ids
BY DEF Ids, Known

LEMMA Kinded ==
  /\ "organization" \in Kinds /\ "media" \in Kinds /\ "industry" \in Kinds /\ "tag" \in Kinds
  /\ "topic" \in Kinds /\ "userOrganization" \in Kinds /\ "faq" \in Kinds
BY DEF Kinds, Tables

LEMMA ResolversDo ==
  ASSUME Typed, NEW c \in Calls, Resolvers(c)
  PROVE  \E op \in Ops, kind \in Kinds, id \in Ids, user \in Users \cup {None}, first \in Places :
           Begins(c, op, kind, id, user, first) /\ Starts(c, op, kind, id, user, first)
<1> DEFINE Fine == \E op \in Ops, kind \in Kinds, id \in Ids, user \in Users \cup {None}, first \in Places :
                     Begins(c, op, kind, id, user, first) /\ Start(c, op, kind, id, user, first)
<1> USE DEF Ops, Places
<1>1. OrganizationResolvers(c) => Fine
  BY KeysKnown, Kinded DEF OrganizationResolvers, CreateOrganization, UpdateOrganization, DeleteOrganization,
     FindOrganization, Begins
<1>2. UserOrganizationResolvers(c) => Fine
  BY KeysKnown, Kinded DEF UserOrganizationResolvers, CreateUserOrganization, UpdateUserOrganization,
     DeleteUserOrganization, FindUserOrganization, Begins
<1>3. MemberResolvers(c) => Fine
  BY KeysKnown, Kinded DEF MemberResolvers, InviteUser, RemoveInvitation, AddUser, RemoveUser,
     UpdateUserRole, Begins
<1>4. MediaResolvers(c) => Fine
  BY KeysKnown, Kinded DEF MediaResolvers, CreateMedia, UpdateMedia, DeleteMedia, FindMedia, Begins
<1>5. TagResolvers(c) => Fine
  BY KeysKnown, Kinded DEF TagResolvers, CreateTag, UpdateTag, DeleteTag, FindTag, Begins
<1>6. TopicResolvers(c) => Fine
  BY KeysKnown, Kinded DEF TopicResolvers, CreateTopic, UpdateTopic, DeleteTopic, FindTopic, Begins
<1>7. FaqResolvers(c) => Fine
  BY KeysKnown, Kinded DEF FaqResolvers, CreateFaq, UpdateFaq, DeleteFaq, FindFaq, Begins
<1>8. IndustryResolvers(c) => Fine
  BY KeysKnown, Kinded DEF IndustryResolvers, CreateIndustry, UpdateIndustry, DeleteIndustry, FindIndustry, Begins
<1>9. Fine
  BY <1>1, <1>2, <1>3, <1>4, <1>5, <1>6, <1>7, <1>8 DEF Resolvers
<1>10. PICK op \in Ops, kind \in Kinds, id \in Ids, user \in Users \cup {None}, first \in Places :
         Begins(c, op, kind, id, user, first) /\ Start(c, op, kind, id, user, first)
  BY <1>9
<1>11. Starts(c, op, kind, id, user, first)
  BY <1>10, StartDoes
<1> QED BY <1>10, <1>11

\* Call c tells v of its row.
Tells(c, v) ==
  /\ told' \in [Kinds \X Ids -> Events]
  /\ \A y \in Tables \X Ids :
       /\ y = Subject(c) => v \in Told(y)' /\ Told(y)' \subseteq Told(y) \cup {v}
       /\ y # Subject(c) => Told(y)' = Told(y)

LEMMA KindFacts ==
  /\ \A k \in Kinds : TableOf(k) \in Tables
  /\ \A k \in Kinds : k \in Imports => k \in Tables /\ TableOf(k) = k
  /\ \A k \in Kinds : TableOf(k) = "userOrganization" <=> k = "userOrganization"
  /\ TableOf("organization") = "organization"
  /\ TableOf("userOrganization") = "userOrganization"
  /\ "userOrganization" \in Tables /\ "organization" \in Tables
BY DEF Kinds, Tables, TableOf, Imports

LEMMA SubjectFacts ==
  ASSUME Typed, NEW c \in Calls
  PROVE  Subject(c) \in Tables \X Ids /\ Subject(c)[1] = TableOf(call[c].kind) /\ Subject(c)[2] = call[c].id
<1>1. call[c].kind \in Kinds /\ call[c].id \in Ids
  BY DEF Typed, TypeOK, Arguments
<1> QED BY <1>1, KindFacts DEF Subject, Row

LEMMA TellsWhen ==
  ASSUME Typed, NEW c \in Calls, NEW v \in Events,
         told' = [told EXCEPT ![<<call[c].kind, call[c].id>>] = v]
  PROVE  Tells(c, v)
<1> DEFINE k == call[c].kind  i == call[c].id
<1>1. k \in Kinds /\ i \in Ids
  BY DEF Typed, TypeOK, Arguments
<1>2. told \in [Kinds \X Ids -> Events]
  BY DEF Typed, TypeOK
<1>3. told' = [told EXCEPT ![<<k, i>>] = v]
  OBVIOUS
<1>4. Subject(c) = <<TableOf(k), i>>
  BY DEF Subject, Row
<1> HIDE DEF k, i
<1>5. /\ told' \in [Kinds \X Ids -> Events]
      /\ told'[<<k, i>>] = v
      /\ \A j \in Kinds, n \in Ids : <<j, n>> # <<k, i>> => told'[<<j, n>>] = told[<<j, n>>]
  BY <1>1, <1>2, <1>3
<1>6. ASSUME NEW y \in Tables \X Ids, y = Subject(c)
      PROVE  v \in Told(y)' /\ Told(y)' \subseteq Told(y) \cup {v}
  <2>1. y[1] = TableOf(k) /\ y[2] = i
    BY <1>4, <1>6
  <2>2. Told(y)' = {told'[<<j, i>>] : j \in {h \in Kinds : TableOf(h) = TableOf(k)}}
    BY <2>1 DEF Told
  <2>3. Told(y) = {told[<<j, i>>] : j \in {h \in Kinds : TableOf(h) = TableOf(k)}}
    BY <2>1 DEF Told
  <2>4. \A j \in Kinds : told'[<<j, i>>] = told[<<j, i>>] \/ told'[<<j, i>>] = v
    BY <1>1, <1>5
  <2> QED BY <1>1, <1>5, <2>2, <2>3, <2>4
<1>7. ASSUME NEW y \in Tables \X Ids, y # Subject(c)
      PROVE  Told(y)' = Told(y)
  <2>1. y[2] \in Ids /\ (y[1] # TableOf(k) \/ y[2] # i)
    BY <1>4, <1>7
  <2>2. \A j \in Kinds : TableOf(j) = y[1] => told'[<<j, y[2]>>] = told[<<j, y[2]>>]
    BY <1>5, <2>1
  <2> QED BY <2>2 DEF Told
<1> QED BY <1>5, <1>6, <1>7 DEF Tells

LEMMA ToldKept == ASSUME NEW y, told' = told PROVE Told(y)' = Told(y)
BY DEF Told

LEMMA BeginTransactionDoes ==
  ASSUME Typed, NEW c \in Calls, BeginTransaction(c)
  PROVE  /\ pc[c] = "begin" /\ call'[c] = call[c]
         /\ Turns(c, IF call[c].kind \in Imports THEN "commit" ELSE "failed")
         /\ open' = open \cup {c}
         /\ UNCHANGED <<rows, member, column, lapsed, told, history>>
BY StaysWhen DEF BeginTransaction, Places

LEMMA CommitDoes ==
  ASSUME Typed, NEW c \in Calls, Commit(c)
  PROVE  /\ pc[c] = "commit" /\ call'[c] = call[c] /\ Turns(c, "publish")
         /\ open' = open \ {c}
         /\ UNCHANGED <<lapsed, told, mailed, spent, unsaid>>
BY StaysWhen DEF Commit, Places

LEMMA CommitUpdates ==
  ASSUME Typed, NEW c \in Calls, Commit(c), call[c].op = "update"
  PROVE  /\ UNCHANGED rows
         /\ crossed \subseteq crossed'
         /\ Subject(c) \in rows \/ Subject(c) \in crossed'
         /\ \/ column' = column
            \/ Column \in crossed' /\ column' = NoInvitations
         /\ UNCHANGED <<member, raced>> \/ Reassign(c)
BY DEF Commit, Subject

\* An update of a membership gives one to nobody but a user in raced.
LEMMA ReassignDoes ==
  ASSUME Typed, NEW c \in Calls, Reassign(c), UNCHANGED rows
  PROVE  /\ member' \in [Ids -> [user: Users, org: Ids, role: Roles]]
         /\ raced \subseteq raced' /\ raced' \subseteq Users
         /\ \A u \in Users \ raced' : MembershipsOf(u)' \subseteq MembershipsOf(u)
<1> DEFINE id == call[c].id
<1>1. id \in Ids /\ member \in [Ids -> [user: Users, org: Ids, role: Roles]] /\ raced \subseteq Users
  BY DEF Typed, TypeOK, Arguments
<1>2. PICK m \in [user: Users, org: Ids, role: Roles] :
        /\ member' = [member EXCEPT ![id] = m]
        /\ raced' = IF m.org = Old /\ (m.user # member[id].user \/ member[id].org # Old)
                    THEN raced \cup {m.user} ELSE raced
  <2> DEFINE there == {o \in Ids : Row("organization", o) \in rows} \cup {member[id].org}
  <2>1. there \subseteq Ids
    BY <1>1
  <2>2. PICK m \in [user: Users, org: there, role: Roles] :
        /\ member' = [member EXCEPT ![id] = m]
        /\ raced' = IF m.org = Old /\ (m.user # member[id].user \/ member[id].org # Old)
                    THEN raced \cup {m.user} ELSE raced
    BY DEF Reassign
  <2>3. m \in [user: Users, org: Ids, role: Roles]
    BY <2>1
  <2> QED BY <2>2, <2>3
<1>3. member' \in [Ids -> [user: Users, org: Ids, role: Roles]]
  BY <1>1, <1>2
<1>4. raced \subseteq raced' /\ raced' \subseteq Users
  BY <1>1, <1>2
<1>5. ASSUME NEW u \in Users \ raced', NEW i \in MembershipsOf(u)'
      PROVE  i \in MembershipsOf(u)
  <2>1. i \in Ids /\ Row("userOrganization", i) \in rows /\ member'[i].user = u /\ member'[i].org = Old
    BY <1>5 DEF MembershipsOf
  <2>2. CASE i # id
    BY <1>1, <1>2, <2>1, <2>2 DEF MembershipsOf
  <2>3. CASE i = id
    <3>1. member'[i] = m
      BY <1>1, <1>2, <2>3
    <3>2. member[i].user = u /\ member[i].org = Old
      BY <1>2, <1>5, <2>1, <2>3, <3>1
    <3> QED BY <2>1, <3>2 DEF MembershipsOf
  <2> QED BY <2>2, <2>3
<1> QED BY <1>3, <1>4, <1>5

LEMMA CommitReassigns ==
  ASSUME Typed, NEW c \in Calls, Commit(c), call[c].op = "update"
  PROVE  /\ member' \in [Ids -> [user: Users, org: Ids, role: Roles]]
         /\ raced \subseteq raced' /\ raced' \subseteq Users
         /\ \A u \in Users \ raced' : MembershipsOf(u)' \subseteq MembershipsOf(u)
<1>1. CASE UNCHANGED <<member, raced>>
  BY <1>1, CommitUpdates DEF Typed, TypeOK, MembershipsOf
<1>2. CASE Reassign(c)
  BY <1>2, CommitUpdates, ReassignDoes
<1> QED BY <1>1, <1>2, CommitUpdates

LEMMA CommitMakes ==
  ASSUME Typed, NEW c \in Calls, Commit(c), call[c].op # "update"
  PROVE  /\ call[c].id = c
         /\ rows' = rows \cup {Subject(c)}
         /\ UNCHANGED <<column, crossed>>
         /\ call[c].kind # "userOrganization" => UNCHANGED <<member, raced>>
         /\ call[c].kind = "userOrganization" =>
              /\ member' = [member EXCEPT ![c] = Membership(c)]
              /\ raced \subseteq raced' /\ raced' \subseteq Users
              /\ call[c].op = "create" /\ ~call[c].fresh => call[c].user \in raced'
              /\ \A d \in Calls \ {c} : LooksAway(d, call[c].user) => call[c].user \in raced'
<1>1. Creates(c) /\ pc[c] = "commit"
  BY DEF Typed, Fits, Commit, Creates
<1>2. call[c].id = c
  BY <1>1 DEF Typed, Fits
<1>3. Row(call[c].kind, c) = Subject(c)
  BY <1>2 DEF Subject
<1>4. call[c].kind = "userOrganization" => call[c].user \in Users
  BY <1>1 DEF Typed, Fits
<1> QED BY <1>2, <1>3, <1>4 DEF Commit, Typed, TypeOK

LEMMA EventsOfCalls == \A op \in Ops : EventOf(op) \in Events /\ (EventOf(op) = "deleted" <=> op = "delete")
BY DEF EventOf, Events, Ops

LEMMA PublishDoes ==
  ASSUME Typed, NEW c \in Calls, Publish(c)
  PROVE  /\ pc[c] = "publish" /\ Tells(c, EventOf(call[c].op))
         /\ UNCHANGED <<rows, member, column, lapsed, open, history>>
<1>1. EventOf(call[c].op) \in Events
  BY EventsOfCalls DEF Typed, TypeOK, Arguments
<1> QED BY <1>1, TellsWhen DEF Publish

\* The creation of an organization goes on with that of its first membership.
Again(c) == call[c].op = "create" /\ call[c].kind = "organization"

LEMMA PublishGoesOn ==
  ASSUME Typed, NEW c \in Calls, Publish(c)
  PROVE  IF Again(c)
         THEN /\ Turns(c, "begin")
              /\ call'[c].op = call[c].op /\ call'[c].id = call[c].id /\ call'[c].user = call[c].user
              /\ call'[c].kind = "userOrganization" /\ call'[c].fresh
              /\ call'[c].copy = call[c].copy
         ELSE Turns(c, "done") /\ Steady(c) /\ Forgets(c)
<1>1. CASE Again(c)
  <2> DEFINE a == [call[c] EXCEPT !.kind = "userOrganization", !.fresh = TRUE]
  <2>1. call[c] \in Arguments
    BY DEF Typed, TypeOK
  <2>2. /\ a \in Arguments
        /\ a.op = call[c].op /\ a.id = call[c].id /\ a.user = call[c].user
        /\ a.kind = "userOrganization" /\ a.fresh = TRUE /\ a.copy = call[c].copy
    BY <2>1, Kinded DEF Arguments
  <2>3. call' = [call EXCEPT ![c] = a] /\ Goto(c, "begin")
    BY <1>1, <2>1 DEF Publish, Again, Typed, TypeOK
  <2> HIDE DEF a
  <2>4. Turns(c, "begin") /\ call'[c] = a
    BY <2>2, <2>3, TurnsWhen DEF Places
  <2> QED BY <1>1, <2>2, <2>4
<1>2. CASE ~Again(c)
  BY <1>2, ForgetsWhen DEF Publish, Again, Places
<1> QED BY <1>1, <1>2

\* Call c writes its copy of the column back, with a token of its user's.
Writes(c, token) ==
  /\ crossed \subseteq crossed'
  /\ Column \notin crossed' => \A d \in Calls \ {c} : ~HoldsColumn(d)
  /\ column' \in [Users -> Tokens]
  /\ Row("organization", Old) \notin rows => column' = column
  /\ Row("organization", Old) \in rows =>
       /\ column'[call[c].user] = token
       /\ \A v \in Users \ {call[c].user} : column'[v] = call[c].copy[v]

LEMMA WritesWhen ==
  ASSUME Typed, NEW c \in Calls, NEW token \in Tokens, call[c].user \in Users,
         SetColumn(c, [call[c].copy EXCEPT ![call[c].user] = token])
  PROVE  Writes(c, token)
<1>1. call[c].copy \in [Users -> Tokens] /\ column \in [Users -> Tokens]
  BY DEF Typed, TypeOK, Arguments
<1> DEFINE f == [call[c].copy EXCEPT ![call[c].user] = token]
<1>2. /\ f \in [Users -> Tokens] /\ f[call[c].user] = token
      /\ \A v \in Users \ {call[c].user} : f[v] = call[c].copy[v]
  BY <1>1
<1>3. SetColumn(c, f)
  OBVIOUS
<1> HIDE DEF f
<1> QED BY <1>1, <1>2, <1>3 DEF SetColumn, Writes

LEMMA FindRowDoes ==
  ASSUME Typed, NEW c \in Calls, FindRow(c)
  PROVE  /\ pc[c] = "find" /\ call'[c] = call[c]
         /\ \/ Turns(c, "failed")
            \/ Turns(c, "destroy") /\ Subject(c) \in rows /\ call[c].op = "delete"
            \/ Turns(c, "done")
            \/ Turns(c, "publish") /\ Subject(c) \in rows /\ call[c].op = "find"
         /\ UNCHANGED <<rows, member, column, lapsed, open, told, history>>
<1>1. call[c].op \in {"delete", "find"}
  BY DEF Typed, Fits, FindRow
<1>2. \A step \in Places : Goto(c, step) => Turns(c, step) /\ call'[c] = call[c]
  BY StaysWhen DEF FindRow
<1>3. {"failed", "destroy", "done", "publish"} \subseteq Places
  BY DEF Places
<1>4. CASE Subject(c) \notin rows
  BY <1>2, <1>3, <1>4 DEF FindRow
<1>5. CASE Subject(c) \in rows /\ call[c].op = "delete"
  BY <1>2, <1>3, <1>5 DEF FindRow
<1>6. CASE Subject(c) \in rows /\ call[c].op = "find"
  <2>1. CASE call[c].kind = "organization"
    BY <1>2, <1>3, <1>6, <2>1 DEF FindRow
  <2>2. CASE call[c].kind # "organization"
    BY <1>2, <1>3, <1>6, <2>2 DEF FindRow
  <2> QED BY <2>1, <2>2
<1> QED BY <1>1, <1>4, <1>5, <1>6

LEMMA DestroyDoes ==
  ASSUME Typed, NEW c \in Calls, Destroy(c)
  PROVE  /\ pc[c] = "destroy" /\ call'[c] = call[c]
         /\ rows' = rows \ {Subject(c)}
         /\ crossed \subseteq crossed'
         /\ \A d \in Calls \ {c} : HoldsRow(d, Subject(c)) => Subject(c) \in crossed'
         /\ \/ call[c].op = "remove" /\ Tells(c, "deleted") /\ Turns(c, "done")
            \/ call[c].op = "delete" /\ told' = told /\ Turns(c, "publish")
         /\ UNCHANGED <<member, column, lapsed, open, mailed, spent, raced, unsaid>>
<1>1. call[c].op \in {"delete", "remove"}
  BY DEF Typed, Fits, Destroy
<1>2. \A step \in Places : Goto(c, step) => Turns(c, step) /\ call'[c] = call[c]
  BY StaysWhen DEF Destroy
<1>3. "deleted" \in Events /\ "done" \in Places /\ "publish" \in Places
  BY DEF Events, Places
<1> QED BY <1>1, <1>2, <1>3, TellsWhen DEF Destroy

\* Where a call goes that has read the column.
Follows(c, step) ==
  \/ call[c].op = "add" /\ step = "membership"
  \/ call[c].op = "uninvite" /\ step = "erase" /\ column[call[c].user] # None
  \/ call[c].op = "invite" /\ step = "write" /\ column[call[c].user] = None
  \/ call[c].op = "invite" /\ step = "drop" /\ column[call[c].user] \in lapsed

LEMMA ReadOrganizationDoes ==
  ASSUME Typed, NEW c \in Calls, ReadOrganization(c)
  PROVE  /\ pc[c] = "org" /\ Steady(c)
         /\ \/ \E step \in {"membership", "erase", "write", "drop"} :
                 /\ Follows(c, step) /\ Turns(c, step)
                 /\ call'[c].copy = column /\ call'[c].fresh = call[c].fresh
            \/ Turns(c, "failed") /\ call'[c] = call[c]
         /\ UNCHANGED <<rows, member, column, lapsed, open, told, history>>
<1>1. call[c].op \in {"invite", "uninvite", "add"}
  BY DEF Typed, Fits, ReadOrganization
<1>2. {"membership", "erase", "write", "drop", "failed"} \subseteq Places
  BY DEF Places
<1> DEFINE a == [call[c] EXCEPT !.copy = column]
           Goes(step) == call' = [call EXCEPT ![c] = a] /\ Goto(c, step)
<1>3. call[c] \in Arguments /\ column \in [Users -> Tokens]
  BY DEF Typed, TypeOK
<1>4. /\ a \in Arguments
      /\ a.op = call[c].op /\ a.kind = call[c].kind /\ a.id = call[c].id /\ a.user = call[c].user
      /\ a.copy = column /\ a.fresh = call[c].fresh
  BY <1>3 DEF Arguments
<1>5. \/ \E step \in {"membership", "erase", "write", "drop"} : Follows(c, step) /\ Goes(step)
      \/ Goto(c, "failed") /\ call' = call
  <2>1. CASE call[c].op = "add"
    BY <2>1 DEF ReadOrganization, Follows
  <2>2. CASE call[c].op = "uninvite"
    BY <2>2 DEF ReadOrganization, Follows
  <2>3. CASE call[c].op = "invite"
    BY <2>3 DEF ReadOrganization, Follows
  <2> QED BY <1>1, <2>1, <2>2, <2>3
<1>6. pc[c] = "org" /\ UNCHANGED <<rows, member, column, lapsed, open, told, history>>
  BY DEF ReadOrganization
<1> HIDE DEF a
<1>7. ASSUME NEW step \in {"membership", "erase", "write", "drop"}, Follows(c, step), Goes(step)
      PROVE  Turns(c, step) /\ Steady(c) /\ call'[c].copy = column /\ call'[c].fresh = call[c].fresh
  <2>1. Turns(c, step) /\ call'[c] = a
    BY <1>2, <1>4, <1>7, TurnsWhen
  <2> QED BY <1>4, <2>1 DEF Steady
<1>8. ASSUME Goto(c, "failed"), call' = call
      PROVE  Turns(c, "failed") /\ Steady(c) /\ call'[c] = call[c]
  BY <1>2, <1>8, StaysWhen DEF Steady
<1> QED BY <1>5, <1>6, <1>7, <1>8

LEMMA DropExpiredDoes ==
  ASSUME Typed, NEW c \in Calls, DropExpired(c)
  PROVE  /\ pc[c] = "drop" /\ call'[c] = call[c] /\ Turns(c, "write")
         /\ Writes(c, None)
         /\ UNCHANGED <<rows, member, lapsed, open, told, mailed, spent, raced, unsaid>>
<1>1. call[c].user \in Users
  BY DEF Typed, Fits, DropExpired
<1> QED BY <1>1, WritesWhen, StaysWhen DEF DropExpired, Places, Tokens

LEMMA StoreInvitationDoes ==
  ASSUME Typed, NEW c \in Calls, StoreInvitation(c)
  PROVE  /\ pc[c] = "write" /\ Turns(c, "done") /\ Steady(c) /\ Forgets(c)
         /\ Writes(c, c)
         /\ mailed' = mailed \cup {c}
         /\ UNCHANGED <<rows, member, lapsed, open, told, spent, raced, unsaid>>
<1>1. call[c].user \in Users
  BY DEF Typed, Fits, StoreInvitation
<1> QED BY <1>1, WritesWhen, ForgetsWhen DEF StoreInvitation, Places, Tokens

LEMMA EraseInvitationDoes ==
  ASSUME Typed, NEW c \in Calls, EraseInvitation(c)
  PROVE  /\ pc[c] = "erase" /\ Turns(c, "done") /\ Steady(c) /\ Forgets(c)
         /\ Writes(c, None)
         /\ spent' = spent \cup {call[c].copy[call[c].user]}
         /\ UNCHANGED <<rows, member, lapsed, open, told, mailed, raced, unsaid>>
<1>1. call[c].user \in Users
  BY DEF Typed, Fits, EraseInvitation
<1> QED BY <1>1, WritesWhen, ForgetsWhen DEF EraseInvitation, Places, Tokens

LEMMA FindMembershipDoes ==
  ASSUME Typed, NEW c \in Calls, FindMembership(c)
  PROVE  /\ pc[c] = "membership" /\ Steady(c)
         /\ call'[c].fresh = (MembershipsOf(call[c].user) = {})
         /\ \/ /\ call[c].copy[call[c].user] # None
               /\ Turns(c, "save") /\ call'[c].copy = call[c].copy
            \/ /\ MembershipsOf(call[c].user) = {}
               /\ Turns(c, "begin") /\ call'[c].copy = NoInvitations
            \/ Turns(c, "done") /\ call'[c].copy = NoInvitations
         /\ UNCHANGED <<rows, member, column, lapsed, open, told, history>>
<1> DEFINE none == MembershipsOf(call[c].user) = {}
           a == [call[c] EXCEPT !.fresh = none]
           b == [Forgotten(c) EXCEPT !.fresh = none]
<1>1. call[c] \in Arguments /\ none \in BOOLEAN
  BY DEF Typed, TypeOK
<1>2. /\ a \in Arguments
      /\ a.op = call[c].op /\ a.kind = call[c].kind /\ a.id = call[c].id /\ a.user = call[c].user
      /\ a.copy = call[c].copy /\ a.fresh = none
  <2> HIDE DEF none
  <2> QED BY <1>1 DEF Arguments
<1>3. /\ b \in Arguments
      /\ b.op = call[c].op /\ b.kind = call[c].kind /\ b.id = call[c].id /\ b.user = call[c].user
      /\ b.copy = NoInvitations /\ b.fresh = none
  <2> HIDE DEF none
  <2> QED BY <1>1, ForgottenArguments DEF Arguments
<1>4. {"save", "begin", "done"} \subseteq Places
  BY DEF Places
<1>5. /\ pc[c] = "membership"
      /\ UNCHANGED <<rows, member, column, lapsed, open, told, history>>
      /\ \/ /\ call[c].copy[call[c].user] # None
            /\ call' = [call EXCEPT ![c] = a] /\ Goto(c, "save")
         \/ none /\ call' = [call EXCEPT ![c] = b] /\ Goto(c, "begin")
         \/ call' = [call EXCEPT ![c] = b] /\ Goto(c, "done")
  <2>1. call \in [Calls -> Arguments]
    BY DEF Typed, TypeOK
  <2> QED BY <2>1 DEF FindMembership
<1> HIDE DEF a, b
<1>6. ASSUME call[c].copy[call[c].user] # None, call' = [call EXCEPT ![c] = a], Goto(c, "save")
      PROVE  Turns(c, "save") /\ Steady(c) /\ call'[c].copy = call[c].copy /\ call'[c].fresh = none
  <2>1. Turns(c, "save") /\ call'[c] = a
    BY <1>2, <1>4, <1>6, TurnsWhen
  <2> QED BY <1>2, <2>1 DEF Steady
<1>7. ASSUME NEW step \in {"begin", "done"}, call' = [call EXCEPT ![c] = b], Goto(c, step)
      PROVE  Turns(c, step) /\ Steady(c) /\ call'[c].copy = NoInvitations /\ call'[c].fresh = none
  <2>1. Turns(c, step) /\ call'[c] = b
    BY <1>3, <1>4, <1>7, TurnsWhen
  <2> QED BY <1>3, <2>1 DEF Steady
<1> QED BY <1>5, <1>6, <1>7

LEMMA SaveAcceptedDoes ==
  ASSUME Typed, NEW c \in Calls, SaveAccepted(c)
  PROVE  /\ pc[c] = "save" /\ Steady(c)
         /\ \A u \in Users : call'[c].copy[u] = None
         /\ \/ Turns(c, "begin") /\ call[c].fresh /\ call'[c].fresh
            \/ Turns(c, "done")
         /\ Writes(c, None)
         /\ spent' = spent \cup {call[c].copy[call[c].user]}
         /\ UNCHANGED <<rows, member, lapsed, open, told, mailed, raced, unsaid>>
<1> DEFINE b == [Forgotten(c) EXCEPT !.fresh = call[c].fresh]
<1>1. call[c] \in Arguments /\ call[c].user \in Users
  BY DEF Typed, TypeOK, Fits, SaveAccepted
<1>2. /\ b \in Arguments
      /\ b.op = call[c].op /\ b.kind = call[c].kind /\ b.id = call[c].id /\ b.user = call[c].user
      /\ b.copy = NoInvitations /\ b.fresh = call[c].fresh
  BY <1>1, ForgottenArguments DEF Arguments
<1>3. \/ call[c].fresh /\ Goto(c, "begin")
      \/ Goto(c, "done")
  BY DEF SaveAccepted
<1>4. call' = [call EXCEPT ![c] = b]
  BY DEF SaveAccepted
<1> HIDE DEF b
<1>5. /\ call'[c] = b
      /\ \/ call[c].fresh /\ Turns(c, "begin")
         \/ Turns(c, "done")
  BY <1>2, <1>3, <1>4, TurnsWhen DEF Places
<1>6. /\ Steady(c) /\ \A u \in Users : call'[c].copy[u] = None
      /\ call'[c].fresh = call[c].fresh
  BY <1>2, <1>5, NothingHeld DEF Steady
<1>7. Writes(c, None)
  BY <1>1, WritesWhen DEF SaveAccepted, Tokens
<1> QED BY <1>5, <1>6, <1>7 DEF SaveAccepted

LEMMA FindOneMembershipDoes ==
  ASSUME Typed, NEW c \in Calls, FindOneMembership(c)
  PROVE  /\ pc[c] = "one"
         /\ call'[c].op = call[c].op /\ call'[c].kind = call[c].kind /\ call'[c].user = call[c].user
         /\ call'[c].copy = call[c].copy /\ call'[c].fresh = call[c].fresh
         /\ \/ Turns(c, "failed")
            \/ /\ call[c].op = "remove" /\ Turns(c, "destroy")
               /\ Row("userOrganization", call'[c].id) \in rows
            \/ /\ call[c].op = "setRole" /\ Turns(c, "saveRole")
               /\ Row("userOrganization", call'[c].id) \in rows
         /\ UNCHANGED <<rows, member, column, lapsed, open, told, history>>
<1> DEFINE found == MembershipsOf(call[c].user)
<1>1. call[c] \in Arguments /\ call[c].op \in {"remove", "setRole"}
  BY DEF Typed, TypeOK, Fits, FindOneMembership
<1>2. \/ Goto(c, "failed") /\ call' = call
      \/ \E id \in found : /\ call' = [call EXCEPT ![c] = [call[c] EXCEPT !.id = id]]
                           /\ Goto(c, IF call[c].op = "remove" THEN "destroy" ELSE "saveRole")
  BY DEF FindOneMembership, Typed, TypeOK
<1>3. pc[c] = "one" /\ UNCHANGED <<rows, member, column, lapsed, open, told, history>>
  BY DEF FindOneMembership
<1>4. ASSUME Goto(c, "failed"), call' = call
      PROVE  Turns(c, "failed") /\ call'[c] = call[c]
  BY <1>4, StaysWhen DEF Places
<1>5. ASSUME NEW id \in found, call' = [call EXCEPT ![c] = [call[c] EXCEPT !.id = id]],
             Goto(c, IF call[c].op = "remove" THEN "destroy" ELSE "saveRole")
      PROVE  /\ call'[c].op = call[c].op /\ call'[c].kind = call[c].kind /\ call'[c].user = call[c].user
             /\ call'[c].copy = call[c].copy /\ call'[c].fresh = call[c].fresh /\ call'[c].id = id
             /\ Turns(c, IF call[c].op = "remove" THEN "destroy" ELSE "saveRole")
             /\ Row("userOrganization", id) \in rows
  <2>1. id \in Ids /\ Row("userOrganization", id) \in rows
    BY <1>5 DEF MembershipsOf
  <2> DEFINE a == [call[c] EXCEPT !.id = id]
  <2>2. /\ a \in Arguments
        /\ a.op = call[c].op /\ a.kind = call[c].kind /\ a.id = id /\ a.user = call[c].user
        /\ a.copy = call[c].copy /\ a.fresh = call[c].fresh
    BY <1>1, <2>1 DEF Arguments
  <2>3. call' = [call EXCEPT ![c] = a]
    BY <1>5
  <2> HIDE DEF a
  <2>4. /\ call'[c] = a
        /\ Turns(c, IF call[c].op = "remove" THEN "destroy" ELSE "saveRole")
    BY <1>5, <2>2, <2>3, TurnsWhen DEF Places
  <2> QED BY <2>1, <2>2, <2>4
<1> QED BY <1>1, <1>2, <1>3, <1>4, <1>5

LEMMA SaveRoleDoes ==
  ASSUME Typed, NEW c \in Calls, SaveRole(c)
  PROVE  /\ pc[c] = "saveRole" /\ call'[c] = call[c] /\ Turns(c, "done")
         /\ member' \in [Ids -> [user: Users, org: Ids, role: Roles]]
         /\ \A i \in Ids : member'[i].user = member[i].user /\ member'[i].org = member[i].org
         /\ Tells(c, "updated")
         /\ UNCHANGED <<rows, column, lapsed, open, history>>
<1>1. Turns(c, "done") /\ call'[c] = call[c] /\ Tells(c, "updated")
  BY StaysWhen, TellsWhen DEF SaveRole, Places, Events
<1>2. call[c].id \in Ids /\ member \in [Ids -> [user: Users, org: Ids, role: Roles]]
  BY DEF Typed, TypeOK, Arguments
<1>3. \E r \in Roles : member' = [member EXCEPT ![call[c].id].role = r]
  <2>1. CASE Subject(c) \in rows
    BY <2>1 DEF SaveRole, Roles
  <2>2. CASE Subject(c) \notin rows
    BY <1>2, <2>2 DEF SaveRole
  <2> QED BY <2>1, <2>2
<1>4. PICK r \in Roles : member' = [member EXCEPT ![call[c].id].role = r]
  BY <1>3
<1>5. /\ member' \in [Ids -> [user: Users, org: Ids, role: Roles]]
      /\ \A i \in Ids : member'[i].user = member[i].user /\ member'[i].org = member[i].org
  BY <1>2, <1>4
<1> QED BY <1>1, <1>5 DEF SaveRole

LEMMA FailDoes ==
  ASSUME Typed, NEW c \in Calls, Fail(c)
  PROVE  /\ Running(c) /\ Turns(c, "failed") /\ Steady(c) /\ Forgets(c)
         /\ open' = open \ {c}
         /\ unsaid \subseteq unsaid'
         /\ pc[c] = "publish" /\ call[c].op # "find" => Subject(c) \in unsaid'
         /\ UNCHANGED <<rows, member, column, lapsed, told, mailed, spent, crossed, raced>>
BY ForgetsWhen DEF Fail, Places

LEMMA RestartDoes ==
  ASSUME Typed, Restart
  PROVE  /\ pc' \in [Calls -> Places] /\ call' \in [Calls -> Arguments]
         /\ \A c \in Calls : /\ Running(c) => pc'[c] = "failed"
                             /\ ~Running(c) => pc'[c] = pc[c]
                             /\ Steady(c) /\ Forgets(c)
                             /\ pc[c] = "publish" /\ call[c].op # "find" => Subject(c) \in unsaid'
         /\ open' = {} /\ unsaid \subseteq unsaid'
         /\ UNCHANGED <<rows, member, column, lapsed, told, mailed, spent, crossed, raced>>
<1>1. \A c \in Calls : pc'[c] = IF Running(c) THEN "failed" ELSE pc[c]
  BY DEF Restart
<1>2. \A c \in Calls : call'[c] = Forgotten(c)
  BY DEF Restart
<1>3. call' \in [Calls -> Arguments]
  BY ForgottenArguments DEF Restart
<1>4. pc' \in [Calls -> Places]
  BY DEF Restart, Places, Typed
<1>5. \A c \in Calls : Steady(c) /\ Forgets(c)
  BY <1>2, ForgottenArguments, NothingHeld DEF Steady, Forgets
<1> QED BY <1>1, <1>3, <1>4, <1>5 DEF Restart

LEMMA LapseDoes ==
  ASSUME NEW t \in Calls, Lapse(t)
  PROVE  /\ t \in mailed /\ lapsed' = lapsed \cup {t}
         /\ UNCHANGED <<rows, member, column, open, told, pc, call, history>>
BY DEF Lapse

-----------------------------------------------------------------------------
(* Types, and what a call does at its steps.                                *)

LEMMA OthersFit ==
  ASSUME Typed, NEW c \in Calls, NEW step, Turns(c, step), Fits(c)'
  PROVE  /\ pc' \in [Calls -> Places] /\ call' \in [Calls -> Arguments]
         /\ \A d \in Calls : Fits(d)'
<1>1. ASSUME NEW d \in Calls, d # c PROVE Fits(d)'
  <2>1. Fits(d) /\ pc'[d] = pc[d] /\ call'[d] = call[d]
    BY <1>1 DEF Typed, Turns
  <2> QED BY <2>1 DEF Fits, Running, Creates
<1> QED BY <1>1 DEF Turns

\* A call that is over has nothing more to do.
LEMMA OverFits ==
  ASSUME NEW c \in Calls, pc'[c] \in {"done", "failed"}
  PROVE  Fits(c)'
BY DEF Fits, Running

LEMMA TypedStart ==
  ASSUME Typed, NEW c \in Calls, NEW op \in Ops, NEW kind \in Kinds, NEW id \in Ids,
         NEW user \in Users \cup {None}, NEW first \in Places,
         Begins(c, op, kind, id, user, first), Starts(c, op, kind, id, user, first)
  PROVE  Typed'
<1>1. /\ call'[c].op = op /\ call'[c].kind = kind /\ call'[c].id = id /\ call'[c].user = user
      /\ pc'[c] = first
  BY DEF Starts, Turns
<1>2. Fits(c)'
  <2>1. CASE op = "create"
    BY <1>1, <2>1 DEF Begins, Fits, Running, Creates
  <2>2. CASE op \in {"update", "delete", "find"}
    BY <1>1, <2>2 DEF Begins, Fits, Running, Creates
  <2>3. CASE op \in {"invite", "uninvite", "add", "remove", "setRole"}
    BY <1>1, <2>3 DEF Begins, Fits, Running, Creates
  <2> QED BY <2>1, <2>2, <2>3 DEF Ops
<1>3. /\ pc' \in [Calls -> Places] /\ call' \in [Calls -> Arguments]
      /\ \A d \in Calls : Fits(d)'
  BY <1>2, OthersFit DEF Starts
<1>4. UNCHANGED <<rows, member, column, lapsed, open, told, history>>
  BY DEF Starts
<1> QED BY <1>3, <1>4 DEF Typed, TypeOK, history

LEMMA TypedBeginTransaction ==
  ASSUME Typed, NEW c \in Calls, BeginTransaction(c)
  PROVE  Typed'
<1>1. /\ pc[c] = "begin" /\ call'[c] = call[c] /\ pc'[c] \in {"commit", "failed"}
      /\ open' = open \cup {c}
      /\ UNCHANGED <<rows, member, column, lapsed, told, history>>
  BY BeginTransactionDoes DEF Turns
<1>2. Fits(c)'
  BY <1>1 DEF Typed, Fits, Running, Creates
<1>3. /\ pc' \in [Calls -> Places] /\ call' \in [Calls -> Arguments]
      /\ \A d \in Calls : Fits(d)'
  BY <1>2, BeginTransactionDoes, OthersFit
<1> QED BY <1>1, <1>3 DEF Typed, TypeOK, history

LEMMA TypedCommit ==
  ASSUME Typed, NEW c \in Calls, Commit(c)
  PROVE  Typed'
<1>1. /\ pc[c] = "commit" /\ call'[c] = call[c] /\ pc'[c] = "publish" /\ Turns(c, "publish")
      /\ open' = open \ {c}
      /\ UNCHANGED <<lapsed, told, mailed, spent, unsaid>>
  BY CommitDoes DEF Turns
<1>2. Fits(c)'
  BY <1>1 DEF Typed, Fits, Running, Creates
<1>3. /\ pc' \in [Calls -> Places] /\ call' \in [Calls -> Arguments]
      /\ \A d \in Calls : Fits(d)'
  BY <1>1, <1>2, OthersFit
<1>4. /\ rows' \subseteq Tables \X Ids
      /\ member' \in [Ids -> [user: Users, org: Ids, role: Roles]]
      /\ column' \in [Users -> Tokens]
      /\ raced' \subseteq Users
  <2>1. CASE call[c].op = "update"
    <3>1. NoInvitations \in [Users -> Tokens]
      BY DEF NoInvitations, Tokens
    <3> QED BY <2>1, <3>1, CommitUpdates, CommitReassigns DEF Typed, TypeOK
  <2>2. CASE call[c].op # "update"
    <3>1. rows' \subseteq Tables \X Ids /\ column' = column
      BY <2>2, CommitMakes, SubjectFacts DEF Typed, TypeOK
    <3>2. CASE call[c].kind # "userOrganization"
      BY <2>2, <3>1, <3>2, CommitMakes DEF Typed, TypeOK
    <3>3. CASE call[c].kind = "userOrganization"
      <4>1. call[c].user \in Users
        BY <1>1, <2>2, <3>3 DEF Typed, Fits, Creates
      <4>2. Membership(c) \in [user: Users, org: Ids, role: Roles]
        BY <4>1, KeysKnown DEF Membership, Roles
      <4>3. member' = [member EXCEPT ![c] = Membership(c)] /\ raced' \subseteq Users
        BY <2>2, <3>3, CommitMakes
      <4> QED BY <3>1, <4>2, <4>3 DEF Typed, TypeOK
    <3> QED BY <3>2, <3>3
  <2> QED BY <2>1, <2>2
<1> QED BY <1>1, <1>3, <1>4 DEF Typed, TypeOK

LEMMA TypedPublish ==
  ASSUME Typed, NEW c \in Calls, Publish(c)
  PROVE  Typed'
<1>1. /\ pc[c] = "publish"
      /\ told' \in [Kinds \X Ids -> Events]
      /\ UNCHANGED <<rows, member, column, lapsed, open, history>>
  BY PublishDoes DEF Tells
<1>2. Fits(c)' /\ \E step : Turns(c, step)
  <2>1. CASE Again(c)
    <3>1. /\ Turns(c, "begin")
          /\ call'[c].op = call[c].op /\ call'[c].id = call[c].id /\ call'[c].user = call[c].user
          /\ call'[c].kind = "userOrganization" /\ pc'[c] = "begin"
      BY <2>1, PublishGoesOn DEF Turns
    <3> QED BY <1>1, <2>1, <3>1 DEF Again, Typed, Fits, Running, Creates
  <2>2. CASE ~Again(c)
    BY <2>2, PublishGoesOn, OverFits DEF Turns
  <2> QED BY <2>1, <2>2
<1>3. /\ pc' \in [Calls -> Places] /\ call' \in [Calls -> Arguments]
      /\ \A d \in Calls : Fits(d)'
  BY <1>2, OthersFit
<1> QED BY <1>1, <1>3 DEF Typed, TypeOK, history

LEMMA TypedFindRow ==
  ASSUME Typed, NEW c \in Calls, FindRow(c)
  PROVE  Typed'
<1>1. /\ pc[c] = "find" /\ call'[c] = call[c]
      /\ UNCHANGED <<rows, member, column, lapsed, open, told, history>>
      /\ \E step \in {"failed", "destroy", "done", "publish"} :
           Turns(c, step) /\ (step = "destroy" => call[c].op = "delete")
                          /\ (step = "publish" => call[c].op = "find")
  BY FindRowDoes
<1>2. PICK step \in {"failed", "destroy", "done", "publish"} :
           Turns(c, step) /\ (step = "destroy" => call[c].op = "delete")
                          /\ (step = "publish" => call[c].op = "find")
  BY <1>1
<1>3. Fits(c)'
  BY <1>1, <1>2 DEF Turns, Typed, Fits, Running, Creates
<1>4. /\ pc' \in [Calls -> Places] /\ call' \in [Calls -> Arguments]
      /\ \A d \in Calls : Fits(d)'
  BY <1>2, <1>3, OthersFit
<1> QED BY <1>1, <1>4 DEF Typed, TypeOK, history

LEMMA TypedDestroy ==
  ASSUME Typed, NEW c \in Calls, Destroy(c)
  PROVE  Typed'
<1>1. /\ pc[c] = "destroy" /\ call'[c] = call[c]
      /\ rows' \subseteq rows
      /\ UNCHANGED <<member, column, lapsed, open, mailed, spent, raced, unsaid>>
      /\ told' \in [Kinds \X Ids -> Events]
      /\ \/ Turns(c, "done")
         \/ Turns(c, "publish") /\ call[c].op = "delete"
  BY DestroyDoes DEF Tells, Typed, TypeOK
<1>2. Fits(c)' /\ \E step : Turns(c, step)
  BY <1>1 DEF Turns, Typed, Fits, Running, Creates
<1>3. /\ pc' \in [Calls -> Places] /\ call' \in [Calls -> Arguments]
      /\ \A d \in Calls : Fits(d)'
  BY <1>2, OthersFit
<1> QED BY <1>1, <1>3 DEF Typed, TypeOK

LEMMA TypedReadOrganization ==
  ASSUME Typed, NEW c \in Calls, ReadOrganization(c)
  PROVE  Typed'
<1>1. /\ pc[c] = "org" /\ Steady(c)
      /\ UNCHANGED <<rows, member, column, lapsed, open, told, history>>
      /\ \/ \E step \in {"membership", "erase", "write", "drop"} :
              Follows(c, step) /\ Turns(c, step)
         \/ Turns(c, "failed")
  BY ReadOrganizationDoes
<1>2. Fits(c)' /\ \E step : Turns(c, step)
  <2>1. CASE Turns(c, "failed")
    BY <2>1, OverFits DEF Turns
  <2>2. ASSUME NEW step \in {"membership", "erase", "write", "drop"}, Follows(c, step), Turns(c, step)
        PROVE  Fits(c)' /\ Turns(c, step)
    BY <1>1, <2>2 DEF Follows, Steady, Turns, Typed, Fits, Running, Creates
  <2> QED BY <1>1, <2>1, <2>2
<1>3. /\ pc' \in [Calls -> Places] /\ call' \in [Calls -> Arguments]
      /\ \A d \in Calls : Fits(d)'
  BY <1>2, OthersFit
<1> QED BY <1>1, <1>3 DEF Typed, TypeOK, history

LEMMA TypedFindMembership ==
  ASSUME Typed, NEW c \in Calls, FindMembership(c)
  PROVE  Typed'
<1>1. /\ pc[c] = "membership" /\ Steady(c)
      /\ UNCHANGED <<rows, member, column, lapsed, open, told, history>>
      /\ \/ Turns(c, "save")
         \/ Turns(c, "begin") /\ call'[c].fresh
         \/ Turns(c, "done")
  BY FindMembershipDoes
<1>2. Fits(c)' /\ \E step : Turns(c, step)
  BY <1>1 DEF Steady, Turns, Typed, Fits, Running, Creates
<1>3. /\ pc' \in [Calls -> Places] /\ call' \in [Calls -> Arguments]
      /\ \A d \in Calls : Fits(d)'
  BY <1>2, OthersFit
<1> QED BY <1>1, <1>3 DEF Typed, TypeOK, history

LEMMA TypedDropExpired ==
  ASSUME Typed, NEW c \in Calls, DropExpired(c)
  PROVE  Typed'
<1>1. /\ pc[c] = "drop" /\ call'[c] = call[c] /\ Turns(c, "write")
      /\ column' \in [Users -> Tokens]
      /\ UNCHANGED <<rows, member, lapsed, open, told, mailed, spent, raced, unsaid>>
  BY DropExpiredDoes DEF Writes
<1>2. Fits(c)'
  BY <1>1 DEF Turns, Typed, Fits, Running, Creates
<1>3. /\ pc' \in [Calls -> Places] /\ call' \in [Calls -> Arguments]
      /\ \A d \in Calls : Fits(d)'
  BY <1>1, <1>2, OthersFit
<1> QED BY <1>1, <1>3 DEF Typed, TypeOK

LEMMA TypedStoreInvitation ==
  ASSUME Typed, NEW c \in Calls, StoreInvitation(c)
  PROVE  Typed'
<1>1. /\ Turns(c, "done") /\ column' \in [Users -> Tokens]
      /\ mailed' = mailed \cup {c}
      /\ UNCHANGED <<rows, member, lapsed, open, told, spent, raced, unsaid>>
  BY StoreInvitationDoes DEF Writes
<1>2. /\ pc' \in [Calls -> Places] /\ call' \in [Calls -> Arguments]
      /\ \A d \in Calls : Fits(d)'
  BY <1>1, OverFits, OthersFit DEF Turns
<1> QED BY <1>1, <1>2 DEF Typed, TypeOK

\* The token a call finds in its copy.
LEMMA CopiedToken ==
  ASSUME Typed, NEW c \in Calls, call[c].user \in Users
  PROVE  call[c].copy[call[c].user] \in Tokens
BY DEF Typed, TypeOK, Arguments

LEMMA TypedEraseInvitation ==
  ASSUME Typed, NEW c \in Calls, EraseInvitation(c)
  PROVE  Typed'
<1>1. /\ Turns(c, "done") /\ column' \in [Users -> Tokens] /\ pc[c] = "erase"
      /\ spent' = spent \cup {call[c].copy[call[c].user]}
      /\ UNCHANGED <<rows, member, lapsed, open, told, mailed, raced, unsaid>>
  BY EraseInvitationDoes DEF Writes
<1>2. /\ pc' \in [Calls -> Places] /\ call' \in [Calls -> Arguments]
      /\ \A d \in Calls : Fits(d)'
  BY <1>1, OverFits, OthersFit DEF Turns
<1>3. spent' \subseteq Tokens
  <2>1. call[c].user \in Users
    BY <1>1 DEF Typed, Fits
  <2> QED BY <1>1, <2>1, CopiedToken DEF Typed, TypeOK
<1> QED BY <1>1, <1>2, <1>3 DEF Typed, TypeOK

LEMMA TypedSaveAccepted ==
  ASSUME Typed, NEW c \in Calls, SaveAccepted(c)
  PROVE  Typed'
<1>1. /\ pc[c] = "save" /\ Steady(c) /\ column' \in [Users -> Tokens]
      /\ \/ Turns(c, "begin") /\ call'[c].fresh
         \/ Turns(c, "done")
      /\ spent' = spent \cup {call[c].copy[call[c].user]}
      /\ UNCHANGED <<rows, member, lapsed, open, told, mailed, raced, unsaid>>
  BY SaveAcceptedDoes DEF Writes
<1>2. Fits(c)' /\ \E step : Turns(c, step)
  BY <1>1 DEF Steady, Turns, Typed, Fits, Running, Creates
<1>3. /\ pc' \in [Calls -> Places] /\ call' \in [Calls -> Arguments]
      /\ \A d \in Calls : Fits(d)'
  BY <1>2, OthersFit
<1>4. spent' \subseteq Tokens
  <2>1. call[c].user \in Users
    BY <1>1 DEF Typed, Fits
  <2> QED BY <1>1, <2>1, CopiedToken DEF Typed, TypeOK
<1> QED BY <1>1, <1>3, <1>4 DEF Typed, TypeOK

LEMMA TypedFindOneMembership ==
  ASSUME Typed, NEW c \in Calls, FindOneMembership(c)
  PROVE  Typed'
<1>1. /\ pc[c] = "one" /\ call'[c].op = call[c].op
      /\ UNCHANGED <<rows, member, column, lapsed, open, told, history>>
      /\ \/ Turns(c, "failed")
         \/ Turns(c, "destroy") /\ call[c].op = "remove"
         \/ Turns(c, "saveRole") /\ call[c].op = "setRole"
  BY FindOneMembershipDoes
<1>2. Fits(c)' /\ \E step : Turns(c, step)
  BY <1>1 DEF Turns, Typed, Fits, Running, Creates
<1>3. /\ pc' \in [Calls -> Places] /\ call' \in [Calls -> Arguments]
      /\ \A d \in Calls : Fits(d)'
  BY <1>2, OthersFit
<1> QED BY <1>1, <1>3 DEF Typed, TypeOK, history

LEMMA TypedSaveRole ==
  ASSUME Typed, NEW c \in Calls, SaveRole(c)
  PROVE  Typed'
<1>1. /\ Turns(c, "done") /\ told' \in [Kinds \X Ids -> Events]
      /\ member' \in [Ids -> [user: Users, org: Ids, role: Roles]]
      /\ UNCHANGED <<rows, column, lapsed, open, history>>
  BY SaveRoleDoes DEF Tells
<1>2. /\ pc' \in [Calls -> Places] /\ call' \in [Calls -> Arguments]
      /\ \A d \in Calls : Fits(d)'
  BY <1>1, OverFits, OthersFit DEF Turns
<1> QED BY <1>1, <1>2 DEF Typed, TypeOK, history

LEMMA TypedFail ==
  ASSUME Typed, NEW c \in Calls, Fail(c)
  PROVE  Typed'
<1>1. /\ Turns(c, "failed") /\ open' = open \ {c}
      /\ UNCHANGED <<rows, member, column, lapsed, told, mailed, spent, crossed, raced>>
  BY FailDoes
<1>2. /\ pc' \in [Calls -> Places] /\ call' \in [Calls -> Arguments]
      /\ \A d \in Calls : Fits(d)'
  BY <1>1, OverFits, OthersFit DEF Turns
<1> QED BY <1>1, <1>2 DEF Typed, TypeOK

LEMMA TypedRestart ==
  ASSUME Typed, Restart
  PROVE  Typed'
<1>1. /\ pc' \in [Calls -> Places] /\ call' \in [Calls -> Arguments] /\ open' = {}
      /\ UNCHANGED <<rows, member, column, lapsed, told, mailed, spent, crossed, raced>>
  BY RestartDoes
<1>2. ASSUME NEW d \in Calls PROVE Fits(d)'
  <2>1. pc'[d] \in {"idle", "done", "failed"}
    BY RestartDoes DEF Running
  <2> QED BY <2>1 DEF Fits, Running
<1> QED BY <1>1, <1>2 DEF Typed, TypeOK

LEMMA TypedLapse ==
  ASSUME Typed, NEW t \in Calls, Lapse(t)
  PROVE  Typed'
<1>1. /\ lapsed' = lapsed \cup {t}
      /\ UNCHANGED <<rows, member, column, open, told, pc, call, history>>
  BY LapseDoes
<1>2. \A d \in Calls : Fits(d)'
  BY <1>1 DEF Typed, Fits, Running, Creates
<1> QED BY <1>1, <1>2 DEF Typed, TypeOK, history

-----------------------------------------------------------------------------
(* Transactions.                                                            *)

\* A step of one call that opens no transaction, by a call without one that it
\* leaves open.
LEMMA LeaksQuiet ==
  ASSUME Typed, LeaksAreKnown, NEW c \in Calls, NEW step, Turns(c, step),
         open' \subseteq open, pc[c] \notin {"commit", "failed"} \/ c \notin open'
  PROVE  LeaksAreKnown'
<1>1. open \subseteq Calls
  BY DEF Typed, TypeOK
<1> QED BY <1>1 DEF LeaksAreKnown, Turns

LEMMA LeaksStep ==
  ASSUME Typed, LeaksAreKnown, NEW c \in Calls, Step(c)
  PROVE  LeaksAreKnown'
<1>0. open \subseteq Calls
  BY DEF Typed, TypeOK
<1>1. CASE BeginTransaction(c)
  <2>1. /\ open' = open \cup {c} /\ call'[c] = call[c]
        /\ Turns(c, IF call[c].kind \in Imports THEN "commit" ELSE "failed")
    BY <1>1, BeginTransactionDoes
  <2> QED BY <1>0, <2>1 DEF LeaksAreKnown, Turns
<1>2. CASE Commit(c)
  BY <1>2, CommitDoes, LeaksQuiet
<1>3. CASE Publish(c)
  <2>1. /\ pc[c] = "publish" /\ open' = open
        /\ Turns(c, "begin") \/ Turns(c, "done")
    BY <1>3, PublishDoes, PublishGoesOn
  <2> QED BY <2>1, LeaksQuiet
<1>4. CASE FindRow(c)
  <2>1. /\ pc[c] = "find" /\ open' = open
        /\ \E step : Turns(c, step)
    BY <1>4, FindRowDoes
  <2> QED BY <2>1, LeaksQuiet
<1>5. CASE Destroy(c)
  <2>1. /\ pc[c] = "destroy" /\ open' = open
        /\ \E step : Turns(c, step)
    BY <1>5, DestroyDoes
  <2> QED BY <2>1, LeaksQuiet
<1>6. CASE ReadOrganization(c)
  <2>1. /\ pc[c] = "org" /\ open' = open
        /\ \E step : Turns(c, step)
    BY <1>6, ReadOrganizationDoes
  <2> QED BY <2>1, LeaksQuiet
<1>7. CASE DropExpired(c)
  BY <1>7, DropExpiredDoes, LeaksQuiet
<1>8. CASE StoreInvitation(c)
  BY <1>8, StoreInvitationDoes, LeaksQuiet
<1>9. CASE EraseInvitation(c)
  BY <1>9, EraseInvitationDoes, LeaksQuiet
<1>10. CASE FindMembership(c)
  <2>1. /\ pc[c] = "membership" /\ open' = open
        /\ \E step : Turns(c, step)
    BY <1>10, FindMembershipDoes
  <2> QED BY <2>1, LeaksQuiet
<1>11. CASE SaveAccepted(c)
  <2>1. /\ pc[c] = "save" /\ open' = open
        /\ \E step : Turns(c, step)
    BY <1>11, SaveAcceptedDoes
  <2> QED BY <2>1, LeaksQuiet
<1>12. CASE FindOneMembership(c)
  <2>1. /\ pc[c] = "one" /\ open' = open
        /\ \E step : Turns(c, step)
    BY <1>12, FindOneMembershipDoes
  <2> QED BY <2>1, LeaksQuiet
<1>13. CASE SaveRole(c)
  BY <1>13, SaveRoleDoes, LeaksQuiet
<1> QED BY <1>1, <1>2, <1>3, <1>4, <1>5, <1>6, <1>7, <1>8, <1>9, <1>10, <1>11, <1>12, <1>13 DEF Step

LEMMA LeaksNext ==
  ASSUME Typed, LeaksAreKnown, [Next]_vars
  PROVE  LeaksAreKnown'
<1>1. ASSUME NEW c \in Calls, Resolvers(c) PROVE LeaksAreKnown'
  <2>1. pc[c] = "idle" /\ open' = open /\ \E step : Turns(c, step)
    BY <1>1, ResolversDo DEF Starts
  <2> QED BY <2>1, LeaksQuiet
<1>2. ASSUME NEW c \in Calls, Fail(c) PROVE LeaksAreKnown'
  <2>1. open' = open \ {c} /\ Turns(c, "failed")
    BY <1>2, FailDoes
  <2> QED BY <2>1, LeaksQuiet
<1>3. CASE Restart
  BY <1>3, RestartDoes DEF LeaksAreKnown
<1>4. ASSUME NEW t \in Calls, Lapse(t) PROVE LeaksAreKnown'
  BY <1>4, LapseDoes DEF LeaksAreKnown
<1>5. CASE UNCHANGED vars
  BY <1>5 DEF LeaksAreKnown, vars
<1> QED BY <1>1, <1>2, <1>3, <1>4, <1>5, LeaksStep DEF Next

-----------------------------------------------------------------------------
(* Members.                                                                 *)

\* Memberships are not made, and nobody comes to rely on there being none.
LEMMA AloneQuiet ==
  ASSUME Typed, Alone, raced' = raced,
         \A i \in Ids : Row("userOrganization", i) \in rows' =>
           /\ Row("userOrganization", i) \in rows
           /\ member'[i].user = member[i].user /\ member'[i].org = member[i].org,
         \A u \in Users, d \in Calls : LooksAway(d, u)' => LooksAway(d, u) \/ MembershipsOf(u) = {}
  PROVE  Alone'
<1>1. \A u \in Users : MembershipsOf(u)' \subseteq MembershipsOf(u)
  BY DEF MembershipsOf
<1> QED BY <1>1 DEF Alone

\* A step of one call that leaves the memberships where they are.
LEMMA AloneTurns ==
  ASSUME Typed, Alone, NEW c \in Calls, NEW step, Turns(c, step),
         UNCHANGED <<rows, member, raced>>,
         \A u \in Users : LooksAway(c, u)' => LooksAway(c, u) \/ MembershipsOf(u) = {}
  PROVE  Alone'
<1>1. \A u \in Users, d \in Calls : LooksAway(d, u)' => LooksAway(d, u) \/ MembershipsOf(u) = {}
  BY DEF Turns, LooksAway
<1> QED BY <1>1, AloneQuiet

LEMMA NotAway ==
  ASSUME NEW c \in Calls, pc'[c] \notin {"save", "begin", "commit"}
  PROVE  \A u \in Users : ~LooksAway(c, u)'
BY DEF LooksAway

LEMMA AloneCommit ==
  ASSUME Typed, Alone, NEW c \in Calls, Commit(c)
  PROVE  Alone'
<1>1. pc[c] = "commit" /\ call'[c] = call[c] /\ Turns(c, "publish")
  BY CommitDoes
<1>2. pc'[c] = "publish" /\ \A u \in Users : ~LooksAway(c, u)'
  BY <1>1, NotAway DEF Turns
<1>3. CASE call[c].op = "update"
  <2>1. /\ raced \subseteq raced'
        /\ \A u \in Users \ raced' : MembershipsOf(u)' \subseteq MembershipsOf(u)
    BY <1>3, CommitReassigns
  <2>2. \A u \in Users, d \in Calls : LooksAway(d, u)' => LooksAway(d, u)
    BY <1>1, <1>2 DEF Turns, LooksAway
  <2> QED BY <2>1, <2>2 DEF Alone
<1>4. CASE call[c].op # "update" /\ call[c].kind # "userOrganization"
  <2>1. /\ rows' = rows \cup {Subject(c)} /\ UNCHANGED <<member, raced>>
        /\ Subject(c)[1] # "userOrganization"
    BY <1>4, CommitMakes, SubjectFacts, KindFacts DEF Typed, TypeOK, Arguments
  <2>2. \A i \in Ids : Row("userOrganization", i) # Subject(c)
    BY <2>1, KindFacts DEF Row
  <2>3. \A u \in Users, d \in Calls : LooksAway(d, u)' => LooksAway(d, u)
    BY <1>1, <1>2 DEF Turns, LooksAway
  <2> QED BY <2>1, <2>2, <2>3, AloneQuiet
<1>5. CASE call[c].op # "update" /\ call[c].kind = "userOrganization"
  <2> DEFINE u == call[c].user
  <2>1. /\ call[c].id = c /\ rows' = rows \cup {Subject(c)}
        /\ member' = [member EXCEPT ![c] = Membership(c)]
        /\ raced \subseteq raced' /\ raced' \subseteq Users
        /\ call[c].op = "create" /\ ~call[c].fresh => u \in raced'
        /\ \A d \in Calls \ {c} : LooksAway(d, u) => u \in raced'
    BY <1>5, CommitMakes
  <2>2. /\ Membership(c).user = u
        /\ call[c].op = "create" /\ call[c].fresh => Membership(c).org # Old
    BY OldAssumption DEF Membership
  <2>3. /\ member'[c] = Membership(c)
        /\ \A i \in Ids \ {c} : member'[i] = member[i]
    BY <2>1, KeysKnown DEF Typed, TypeOK
  <2>4. \A i \in Ids : Row("userOrganization", i) = Subject(c) => i = c
    BY <1>5, <2>1 DEF Subject, Row
  <2>5. ASSUME NEW v \in Users, NEW i \in MembershipsOf(v)', i # c
        PROVE  i \in MembershipsOf(v)
    BY <2>1, <2>3, <2>4, <2>5 DEF MembershipsOf
  <2>6. \A v \in Users : c \in MembershipsOf(v)' => v = u /\ (call[c].op = "create" => ~call[c].fresh)
    BY <2>2, <2>3 DEF MembershipsOf
  <2>7. \A v \in Users, d \in Calls : LooksAway(d, v)' => d # c /\ LooksAway(d, v)
    BY <1>1, <1>2 DEF Turns, LooksAway
  <2>8. call[c].op = "add" \/ call[c].op = "create"
    BY <1>1, <1>5 DEF Typed, Fits
  <2>9. call[c].op = "add" => LooksAway(c, u)
    BY <1>1 DEF Typed, Fits, LooksAway
  <2>10. \A v \in Users : MembershipsOf(v)' \subseteq Ids
    BY DEF MembershipsOf
  <2>11. ASSUME NEW v \in Users, v \notin raced'
         PROVE  /\ \A i, j \in MembershipsOf(v)' : i = j
                /\ \A d \in Calls : LooksAway(d, v)' => MembershipsOf(v)' = {}
    <3>1. v \notin raced
      BY <2>1, <2>11
    <3>2. CASE c \notin MembershipsOf(v)'
      <4>1. MembershipsOf(v)' \subseteq MembershipsOf(v)
        BY <2>5, <3>2
      <4> QED BY <2>7, <3>1, <4>1 DEF Alone
    <3>3. CASE c \in MembershipsOf(v)'
      <4>1. v = u /\ LooksAway(c, u)
        BY <2>1, <2>6, <2>8, <2>9, <2>11, <3>3
      <4>2. MembershipsOf(v) = {}
        BY <3>1, <4>1 DEF Alone
      <4>3. \A i \in MembershipsOf(v)' : i = c
        BY <2>5, <4>2
      <4>4. \A d \in Calls : ~LooksAway(d, v)'
        BY <2>1, <2>7, <2>11, <4>1
      <4> QED BY <4>3, <4>4
    <3> QED BY <3>2, <3>3
  <2> QED BY <2>11 DEF Alone
<1> QED BY <1>3, <1>4, <1>5

LEMMA AloneStep ==
  ASSUME Typed, Alone, NEW c \in Calls, Step(c)
  PROVE  Alone'
<1>1. CASE BeginTransaction(c)
  <2>1. /\ UNCHANGED <<rows, member, raced>> /\ call'[c] = call[c] /\ pc[c] = "begin"
        /\ \E step : Turns(c, step)
    BY <1>1, BeginTransactionDoes DEF history
  <2> QED BY <2>1, AloneTurns DEF LooksAway
<1>2. CASE Commit(c)
  BY <1>2, AloneCommit
<1>3. CASE Publish(c)
  <2>1. UNCHANGED <<rows, member, raced>>
    BY <1>3, PublishDoes DEF history
  <2>2. CASE Again(c)
    <3>1. Turns(c, "begin") /\ call'[c].op = "create"
      BY <1>3, <2>2, PublishGoesOn DEF Again
    <3> QED BY <2>1, <3>1, AloneTurns DEF LooksAway
  <2>3. CASE ~Again(c)
    BY <1>3, <2>1, <2>3, PublishGoesOn, AloneTurns, NotAway DEF Turns
  <2> QED BY <2>2, <2>3
<1>4. CASE FindRow(c)
  <2>1. /\ UNCHANGED <<rows, member, raced>>
        /\ \E step \in {"failed", "destroy", "done", "publish"} : Turns(c, step)
    BY <1>4, FindRowDoes DEF history
  <2> QED BY <2>1, AloneTurns, NotAway DEF Turns
<1>5. CASE Destroy(c)
  <2>1. /\ UNCHANGED <<member, raced>> /\ rows' = rows \ {Subject(c)}
        /\ \E step \in {"done", "publish"} : Turns(c, step)
    BY <1>5, DestroyDoes
  <2>2. \A u \in Users, d \in Calls : LooksAway(d, u)' => LooksAway(d, u)
    BY <2>1 DEF Turns, LooksAway
  <2> QED BY <2>1, <2>2, AloneQuiet
<1>6. CASE ReadOrganization(c)
  <2>1. /\ UNCHANGED <<rows, member, raced>>
        /\ \E step \in {"membership", "erase", "write", "drop", "failed"} : Turns(c, step)
    BY <1>6, ReadOrganizationDoes DEF history
  <2> QED BY <2>1, AloneTurns, NotAway DEF Turns
<1>7. CASE DropExpired(c)
  BY <1>7, DropExpiredDoes, AloneTurns, NotAway DEF Turns
<1>8. CASE StoreInvitation(c)
  BY <1>8, StoreInvitationDoes, AloneTurns, NotAway DEF Turns
<1>9. CASE EraseInvitation(c)
  BY <1>9, EraseInvitationDoes, AloneTurns, NotAway DEF Turns
<1>10. CASE FindMembership(c)
  <2>1. /\ UNCHANGED <<rows, member, raced>> /\ call'[c].user = call[c].user
        /\ call'[c].fresh => MembershipsOf(call[c].user) = {}
        /\ \E step : Turns(c, step)
    BY <1>10, FindMembershipDoes DEF Steady, history
  <2> QED BY <2>1, AloneTurns DEF LooksAway
<1>11. CASE SaveAccepted(c)
  <2>1. /\ UNCHANGED <<rows, member, raced>> /\ call'[c].user = call[c].user /\ call'[c].op = call[c].op
        /\ pc[c] = "save"
        /\ \/ Turns(c, "begin") /\ call[c].fresh /\ call'[c].fresh
           \/ Turns(c, "done")
    BY <1>11, SaveAcceptedDoes DEF Steady
  <2>2. \A u \in Users : LooksAway(c, u)' => LooksAway(c, u)
    BY <2>1 DEF LooksAway, Turns
  <2> QED BY <2>1, <2>2, AloneTurns
<1>12. CASE FindOneMembership(c)
  <2>1. /\ UNCHANGED <<rows, member, raced>>
        /\ \E step \in {"destroy", "saveRole", "failed"} : Turns(c, step)
    BY <1>12, FindOneMembershipDoes DEF history
  <2> QED BY <2>1, AloneTurns, NotAway DEF Turns
<1>13. CASE SaveRole(c)
  <2>1. /\ UNCHANGED <<rows, raced>> /\ Turns(c, "done")
        /\ \A i \in Ids : member'[i].user = member[i].user /\ member'[i].org = member[i].org
    BY <1>13, SaveRoleDoes DEF history
  <2>2. \A u \in Users, d \in Calls : LooksAway(d, u)' => LooksAway(d, u)
    BY <2>1 DEF Turns, LooksAway
  <2> QED BY <2>1, <2>2, AloneQuiet
<1> QED BY <1>1, <1>2, <1>3, <1>4, <1>5, <1>6, <1>7, <1>8, <1>9, <1>10, <1>11, <1>12, <1>13 DEF Step

LEMMA AloneNext ==
  ASSUME Typed, Alone, [Next]_vars
  PROVE  Alone'
<1>1. ASSUME NEW c \in Calls, Resolvers(c) PROVE Alone'
  <2>1. /\ UNCHANGED <<rows, member, raced>>
        /\ \E step : Turns(c, step) /\ (call'[c].op = "add" => step = "org")
    BY <1>1, ResolversDo DEF Starts, Begins, history
  <2> QED BY <2>1, AloneTurns DEF LooksAway, Turns
<1>2. ASSUME NEW c \in Calls, Fail(c) PROVE Alone'
  BY <1>2, FailDoes, AloneTurns, NotAway DEF Turns
<1>3. CASE Restart
  <2>1. UNCHANGED <<rows, member, raced>>
    BY <1>3, RestartDoes
  <2>2. \A u \in Users, d \in Calls : ~LooksAway(d, u)'
    BY <1>3, RestartDoes DEF LooksAway, Running
  <2> QED BY <2>1, <2>2, AloneQuiet
<1>4. ASSUME NEW t \in Calls, Lapse(t) PROVE Alone'
  BY <1>4, LapseDoes, AloneQuiet DEF LooksAway, history
<1>5. CASE UNCHANGED vars
  BY <1>5, AloneQuiet DEF LooksAway, vars
<1> QED BY <1>1, <1>2, <1>3, <1>4, <1>5, AloneStep DEF Next

-----------------------------------------------------------------------------
(* Rows and what is told of them.                                           *)

\* A row is made by the call it is named after.
LEMMA MakersOwn ==
  ASSUME Typed, NEW c \in Calls, NEW x \in Tables \X Ids, MayMake(c, x)
  PROVE  x[2] = c
<1>1. CASE pc[c] = "idle" /\ x[2] = c
  BY <1>1
<1>2. CASE Creates(c) /\ x = Subject(c) /\ pc[c] \in {"begin", "commit", "org", "membership", "save"}
  BY <1>2 DEF Typed, Fits, Subject, Row
<1>3. CASE x = <<"userOrganization", c>>
  BY <1>3
<1> QED BY <1>1, <1>2, <1>3 DEF MayMake

LEMMA SubjectKept ==
  ASSUME NEW c \in Calls, call'[c].kind = call[c].kind, call'[c].id = call[c].id
  PROVE  Subject(c)' = Subject(c)
BY DEF Subject, Row

\* What another call may make, holds and says of a row.
LEMMA OthersRows ==
  ASSUME NEW c \in Calls, NEW step, Turns(c, step)
  PROVE  \A d \in Calls \ {c}, x \in Tables \X Ids :
           /\ MayMake(d, x)' <=> MayMake(d, x)
           /\ HoldsRow(d, x)' <=> HoldsRow(d, x)
           /\ Buries(d, x)' <=> Buries(d, x)
           /\ Subject(d)' = Subject(d) /\ pc'[d] = pc[d]
BY DEF Turns, MayMake, HoldsRow, Buries, Subject, Row, Creates

\* A call that is where nothing is made makes nothing.
LEMMA MakesNothing ==
  ASSUME NEW c \in Calls,
         pc'[c] \notin {"idle", "begin", "commit", "publish", "org", "membership", "save"}
  PROVE  \A x \in Tables \X Ids : ~MayMake(c, x)'
BY DEF MayMake

\* A step of one call that makes, destroys and tells nothing.
LEMMA RowTurns ==
  ASSUME Typed, Ended, Heard, NEW c \in Calls, NEW step, Turns(c, step),
         UNCHANGED <<rows, told>>, crossed \subseteq crossed', unsaid \subseteq unsaid',
         \A x \in Tables \X Ids : MayMake(c, x)' => MayMake(c, x),
         pc[c] = "publish" => call[c].op = "find" \/ Subject(c) \in unsaid',
         step = "publish" => call'[c].op # "delete",
         step \in {"destroy", "publish", "saveRole"} =>
           \A x \in Tables \X Ids : Subject(c)' = x => x \in rows \/ (step = "publish" /\ x \in crossed')
  PROVE  Ended' /\ Heard'
<1>1. pc'[c] = step
  BY DEF Turns
<1>2. \A d \in Calls \ {c}, x \in Tables \X Ids :
        /\ MayMake(d, x)' <=> MayMake(d, x)
        /\ HoldsRow(d, x)' <=> HoldsRow(d, x)
        /\ Buries(d, x)' <=> Buries(d, x)
        /\ Subject(d)' = Subject(d) /\ pc'[d] = pc[d]
  BY OthersRows
<1>3. \A x : Told(x)' = Told(x)
  BY ToldKept
<1>4. \A x \in Tables \X Ids : ~Buries(c, x)'
  BY <1>1 DEF Buries
<1>5. \A e \in Calls, x \in Tables \X Ids : MayMake(e, x)' => MayMake(e, x)
  BY <1>2
<1>6. \A x \in Tables \X Ids : HoldsRow(c, x)' => x \in rows \/ (step = "publish" /\ x \in crossed')
  BY <1>1 DEF HoldsRow
<1>7. Ended'
  <2>1. ASSUME NEW x \in Tables \X Ids, x \in rows
        PROVE  "deleted" \notin Told(x)' /\ \A d \in Calls : ~Buries(d, x)'
    BY <1>2, <1>3, <1>4, <2>1 DEF Ended
  <2>2. ASSUME NEW x \in Tables \X Ids, NEW e \in Calls, MayMake(e, x)'
        PROVE  /\ x \notin rows /\ "deleted" \notin Told(x)'
               /\ \A d \in Calls : Subject(d)' = x => pc'[d] \notin {"destroy", "saveRole"} /\ ~Buries(d, x)'
    <3>1. MayMake(e, x)
      BY <1>5, <2>2
    <3>2. x \notin rows
      BY <3>1 DEF Ended
    <3>3. Subject(c)' = x => pc'[c] \notin {"destroy", "saveRole"}
      BY <1>1, <3>2
    <3> QED BY <1>2, <1>3, <1>4, <3>1, <3>3 DEF Ended
  <2> QED BY <2>1, <2>2 DEF Ended
<1>8. Heard'
  <2>1. SUFFICES ASSUME NEW x \in Tables \X Ids, x \notin crossed', x \notin unsaid'
        PROVE  /\ x \notin rows => \A d \in Calls : HoldsRow(d, x)' => Buries(d, x)'
               /\ x \notin rows /\ ~BeingTold(x)' /\ (x[2] = Old \/ Told(x) # {"none"}) => "deleted" \in Told(x)
               /\ \A e \in Calls : MayMake(e, x)' => Told(x) = {"none"} /\ \A d \in Calls : ~HoldsRow(d, x)'
    BY <1>3 DEF Heard
  <2>2. x \in (Tables \X Ids) \ (crossed \cup unsaid)
    BY <2>1
  <2>3. x \notin rows => ~HoldsRow(c, x)'
    BY <1>6, <2>1
  <2>4. x \notin rows => \A d \in Calls : HoldsRow(d, x)' => Buries(d, x)'
    BY <1>2, <2>2, <2>3 DEF Heard
  <2>5. x \notin rows /\ BeingTold(x) => BeingTold(x)'
    <3>1. x \notin rows => ~(Subject(c) = x /\ pc[c] = "publish")
      BY <2>1, <2>2 DEF Heard, HoldsRow, Buries
    <3> QED BY <1>2, <3>1 DEF BeingTold
  <2>6. x \notin rows /\ ~BeingTold(x)' /\ (x[2] = Old \/ Told(x) # {"none"}) => "deleted" \in Told(x)
    BY <2>2, <2>5 DEF Heard
  <2>7. ASSUME NEW e \in Calls, MayMake(e, x)'
        PROVE  Told(x) = {"none"} /\ \A d \in Calls : ~HoldsRow(d, x)'
    <3>1. MayMake(e, x) /\ x \notin rows
      BY <1>5, <2>7 DEF Ended
    <3> QED BY <1>2, <2>2, <2>3, <3>1 DEF Heard
  <2> QED BY <2>4, <2>6, <2>7
<1> QED BY <1>7, <1>8

\* The same of a step to where no row is made, held or spoken of.
LEMMA RowLeaves ==
  ASSUME Typed, Ended, Heard, NEW c \in Calls,
         NEW step \in {"failed", "done", "drop", "write", "erase", "one", "find"}, Turns(c, step),
         UNCHANGED <<rows, told>>, crossed \subseteq crossed', unsaid \subseteq unsaid',
         pc[c] = "publish" => call[c].op = "find" \/ Subject(c) \in unsaid'
  PROVE  Ended' /\ Heard'
<1>1. \A x \in Tables \X Ids : ~MayMake(c, x)'
  BY MakesNothing DEF Turns
<1> QED BY <1>1, RowTurns

\* The same of a step of a call that keeps what it is about and what it may make.
LEMMA RowGoesOn ==
  ASSUME Typed, Ended, Heard, NEW c \in Calls,
         NEW step \in {"begin", "commit", "membership", "save"}, Turns(c, step),
         pc[c] \in {"begin", "org", "membership", "save"}, Steady(c),
         step = "commit" => pc[c] = "begin",
         step = "begin" => call[c].op = "add",
         UNCHANGED <<rows, told>>, crossed \subseteq crossed', unsaid \subseteq unsaid'
  PROVE  Ended' /\ Heard'
<1>1. Subject(c)' = Subject(c) /\ pc'[c] = step
  BY SubjectKept DEF Steady, Turns
<1>2. \A x \in Tables \X Ids : MayMake(c, x)' => MayMake(c, x)
  BY <1>1 DEF MayMake, Creates, Steady
<1> QED BY <1>2, RowTurns

LEMMA RowsCommit ==
  ASSUME Typed, Ended, Heard, NEW c \in Calls, Commit(c)
  PROVE  Ended' /\ Heard'
<1>1. pc[c] = "commit" /\ call'[c] = call[c] /\ Turns(c, "publish") /\ told' = told /\ unsaid' = unsaid
  BY CommitDoes
<1>2. Subject(c)' = Subject(c) /\ pc'[c] = "publish" /\ call[c].op \in {"create", "update", "add"}
  BY <1>1, SubjectKept DEF Turns, Typed, Fits
<1>3. \A x \in Tables \X Ids : MayMake(c, x)' => MayMake(c, x)
  BY <1>1, <1>2 DEF MayMake
<1>4. CASE call[c].op = "update"
  <2>1. /\ rows' = rows /\ crossed \subseteq crossed'
        /\ Subject(c) \in rows \/ Subject(c) \in crossed'
    BY <1>4, CommitUpdates
  <2> QED BY <1>1, <1>2, <1>3, <1>4, <2>1, RowTurns
<1>5. CASE call[c].op # "update"
  <2>1. call[c].id = c /\ rows' = rows \cup {Subject(c)} /\ crossed' = crossed
    BY <1>5, CommitMakes
  <2>2. MayMake(c, Subject(c))
    BY <1>1, <1>2, <1>5 DEF MayMake, Creates
  <2>3. \A d \in Calls \ {c}, x \in Tables \X Ids :
          /\ MayMake(d, x)' <=> MayMake(d, x)
          /\ HoldsRow(d, x)' <=> HoldsRow(d, x)
          /\ Buries(d, x)' <=> Buries(d, x)
          /\ Subject(d)' = Subject(d) /\ pc'[d] = pc[d]
    BY <1>1, OthersRows
  <2>4. \A x : Told(x)' = Told(x)
    BY <1>1, ToldKept
  <2>5. \A x \in Tables \X Ids : ~Buries(c, x)' /\ (HoldsRow(c, x)' => x = Subject(c))
    BY <1>1, <1>2, <1>5 DEF Buries, HoldsRow
  <2>6. Subject(c) \in Tables \X Ids /\ Subject(c)[2] = c
    BY <2>1, SubjectFacts
  <2>7. \A e \in Calls, x \in Tables \X Ids : MayMake(e, x)' => MayMake(e, x) /\ x # Subject(c)
    <3>1. \A e \in Calls \ {c} : ~MayMake(e, Subject(c))
      BY <2>6, MakersOwn
    <3>2. ~MayMake(c, Subject(c))'
      BY <1>1, <1>2, KindFacts DEF MayMake, Subject, Row
    <3>3. \A x \in Tables \X Ids : MayMake(c, x)' => x # Subject(c)
      <4>1. ASSUME NEW x \in Tables \X Ids, MayMake(c, x)', x = Subject(c) PROVE FALSE
        BY <1>1, <1>2, <4>1, KindFacts DEF MayMake, Subject, Row
      <4> QED BY <4>1
    <3> QED BY <1>3, <2>3, <3>1, <3>3
  <2>8. Ended'
    <3>1. ASSUME NEW x \in Tables \X Ids, x \in rows'
          PROVE  "deleted" \notin Told(x)' /\ \A d \in Calls : ~Buries(d, x)'
      <4>1. x \in rows \/ MayMake(c, x)
        BY <2>1, <2>2, <3>1
      <4>2. "deleted" \notin Told(x) /\ \A d \in Calls : ~Buries(d, x)
        BY <4>1 DEF Ended, Buries
      <4> QED BY <2>3, <2>4, <2>5, <4>2
    <3>2. ASSUME NEW x \in Tables \X Ids, NEW e \in Calls, MayMake(e, x)'
          PROVE  /\ x \notin rows' /\ "deleted" \notin Told(x)'
                 /\ \A d \in Calls : Subject(d)' = x => pc'[d] \notin {"destroy", "saveRole"} /\ ~Buries(d, x)'
      <4>1. MayMake(e, x) /\ x # Subject(c)
        BY <2>7, <3>2
      <4> QED BY <1>2, <2>1, <2>3, <2>4, <2>5, <4>1 DEF Ended
    <3> QED BY <3>1, <3>2 DEF Ended
  <2>9. Heard'
    <3>1. SUFFICES ASSUME NEW x \in Tables \X Ids, x \notin crossed, x \notin unsaid
          PROVE  /\ x \notin rows' => \A d \in Calls : HoldsRow(d, x)' => Buries(d, x)'
                 /\ x \notin rows' /\ ~BeingTold(x)' /\ (x[2] = Old \/ Told(x) # {"none"}) => "deleted" \in Told(x)
                 /\ \A e \in Calls : MayMake(e, x)' => Told(x) = {"none"} /\ \A d \in Calls : ~HoldsRow(d, x)'
      BY <1>1, <2>1, <2>4 DEF Heard
    <3>2. x \in (Tables \X Ids) \ (crossed \cup unsaid)
      BY <3>1
    <3>3. x \notin rows' => x \notin rows /\ x # Subject(c)
      BY <2>1
    <3>4. x \notin rows' => \A d \in Calls : HoldsRow(d, x)' => Buries(d, x)'
      BY <2>3, <2>5, <3>2, <3>3 DEF Heard
    <3>5. x # Subject(c) /\ BeingTold(x) => BeingTold(x)'
      BY <2>3 DEF BeingTold
    <3>6. x \notin rows' /\ ~BeingTold(x)' /\ (x[2] = Old \/ Told(x) # {"none"}) => "deleted" \in Told(x)
      BY <3>2, <3>3, <3>5 DEF Heard
    <3>7. ASSUME NEW e \in Calls, MayMake(e, x)'
          PROVE  Told(x) = {"none"} /\ \A d \in Calls : ~HoldsRow(d, x)'
      <4>1. MayMake(e, x) /\ x # Subject(c)
        BY <2>7, <3>7
      <4> QED BY <2>3, <2>5, <3>2, <4>1 DEF Heard
    <3> QED BY <3>4, <3>6, <3>7
  <2> QED BY <2>8, <2>9
<1> QED BY <1>4, <1>5

LEMMA RowsPublish ==
  ASSUME Typed, Ended, Heard, NEW c \in Calls, Publish(c)
  PROVE  Ended' /\ Heard'
<1> DEFINE v == EventOf(call[c].op)
<1>1. pc[c] = "publish" /\ Tells(c, v) /\ UNCHANGED <<rows, crossed, unsaid>>
  BY PublishDoes DEF history
<1>2. v = "deleted" <=> Buries(c, Subject(c))
  BY <1>1, EventsOfCalls DEF Typed, TypeOK, Arguments, Buries
<1> HIDE DEF v
<1>3. PICK step \in {"begin", "done"} : Turns(c, step) /\ (step = "begin" => Again(c))
  BY PublishGoesOn
<1>4. \A d \in Calls \ {c}, x \in Tables \X Ids :
        /\ MayMake(d, x)' <=> MayMake(d, x)
        /\ HoldsRow(d, x)' <=> HoldsRow(d, x)
        /\ Buries(d, x)' <=> Buries(d, x)
        /\ Subject(d)' = Subject(d) /\ pc'[d] = pc[d]
  BY <1>3, OthersRows
<1>5. \A x \in Tables \X Ids : ~Buries(c, x)' /\ ~HoldsRow(c, x)' /\ pc'[c] \notin {"destroy", "saveRole", "publish"}
  BY <1>3 DEF Buries, HoldsRow, Turns
<1>6. \A x \in Tables \X Ids : MayMake(c, x)' => MayMake(c, x)
  <2>1. CASE step = "begin"
    <3>1. /\ call'[c].op = "create" /\ call'[c].kind = "userOrganization" /\ call'[c].id = c
          /\ pc'[c] = "begin"
      BY <1>1, <1>3, <2>1, PublishGoesOn DEF Again, Typed, Fits, Turns
    <3>2. Subject(c)' = <<"userOrganization", c>>
      BY <3>1, KindFacts DEF Subject, Row
    <3> QED BY <1>1, <1>3, <2>1, <3>1, <3>2 DEF MayMake, Again
  <2>2. CASE step = "done"
    BY <1>3, <2>2, MakesNothing DEF Turns
  <2> QED BY <2>1, <2>2
<1>7. \A e \in Calls, x \in Tables \X Ids : MayMake(e, x)' => MayMake(e, x)
  BY <1>4, <1>6
<1>8. Subject(c) \in Tables \X Ids /\ HoldsRow(c, Subject(c))
  BY <1>1, SubjectFacts DEF HoldsRow
<1>9. \A x \in Tables \X Ids :
        /\ x = Subject(c) => v \in Told(x)' /\ Told(x)' \subseteq Told(x) \cup {v}
        /\ x # Subject(c) => Told(x)' = Told(x)
  BY <1>1 DEF Tells
<1>10. Ended'
  <2>1. ASSUME NEW x \in Tables \X Ids, x \in rows
        PROVE  "deleted" \notin Told(x)' /\ \A d \in Calls : ~Buries(d, x)'
    <3>1. "deleted" \notin Told(x) /\ \A d \in Calls : ~Buries(d, x)
      BY <2>1 DEF Ended
    <3> QED BY <1>2, <1>4, <1>5, <1>9, <3>1
  <2>2. ASSUME NEW x \in Tables \X Ids, NEW e \in Calls, MayMake(e, x)'
        PROVE  /\ x \notin rows /\ "deleted" \notin Told(x)'
               /\ \A d \in Calls : Subject(d)' = x => pc'[d] \notin {"destroy", "saveRole"} /\ ~Buries(d, x)'
    <3>1. /\ x \notin rows /\ "deleted" \notin Told(x)
          /\ \A d \in Calls : Subject(d) = x => pc[d] \notin {"destroy", "saveRole"} /\ ~Buries(d, x)
      BY <1>7, <2>2 DEF Ended
    <3>2. "deleted" \notin Told(x)'
      BY <1>2, <1>9, <3>1
    <3> QED BY <1>4, <1>5, <3>1, <3>2
  <2> QED BY <1>1, <2>1, <2>2 DEF Ended
<1>11. Heard'
  <2>1. SUFFICES ASSUME NEW x \in Tables \X Ids, x \notin crossed, x \notin unsaid
        PROVE  /\ x \notin rows => \A d \in Calls : HoldsRow(d, x)' => Buries(d, x)'
               /\ x \notin rows /\ ~BeingTold(x)' /\ (x[2] = Old \/ Told(x)' # {"none"}) => "deleted" \in Told(x)'
               /\ \A e \in Calls : MayMake(e, x)' => Told(x)' = {"none"} /\ \A d \in Calls : ~HoldsRow(d, x)'
    BY <1>1 DEF Heard
  <2>2. x \in (Tables \X Ids) \ (crossed \cup unsaid)
    BY <2>1
  <2>3. x \notin rows => \A d \in Calls : HoldsRow(d, x)' => Buries(d, x)'
    BY <1>4, <1>5, <2>2 DEF Heard
  <2>4. CASE x = Subject(c)
    <3>1. x \notin rows => "deleted" \in Told(x)'
      BY <1>2, <1>8, <1>9, <2>2, <2>4 DEF Heard
    <3>2. \A e \in Calls : ~MayMake(e, x)'
      BY <1>7, <1>8, <2>2, <2>4 DEF Heard
    <3> QED BY <2>3, <3>1, <3>2
  <2>5. CASE x # Subject(c)
    <3>1. Told(x)' = Told(x)
      BY <1>9, <2>5
    <3>2. BeingTold(x) => BeingTold(x)'
      BY <1>4, <2>5 DEF BeingTold
    <3>3. x \notin rows /\ ~BeingTold(x)' /\ (x[2] = Old \/ Told(x)' # {"none"}) => "deleted" \in Told(x)'
      BY <2>2, <3>1, <3>2 DEF Heard
    <3>4. \A e \in Calls : MayMake(e, x)' => Told(x)' = {"none"} /\ \A d \in Calls : ~HoldsRow(d, x)'
      BY <1>4, <1>5, <1>7, <2>2, <3>1 DEF Heard
    <3> QED BY <2>3, <3>3, <3>4
  <2> QED BY <2>4, <2>5
<1> QED BY <1>10, <1>11

LEMMA RowsDestroy ==
  ASSUME Typed, Ended, Heard, NEW c \in Calls, Destroy(c)
  PROVE  Ended' /\ Heard'
<1>1. /\ pc[c] = "destroy" /\ call'[c] = call[c]
      /\ rows' = rows \ {Subject(c)} /\ unsaid' = unsaid
      /\ crossed \subseteq crossed'
      /\ \A d \in Calls \ {c} : HoldsRow(d, Subject(c)) => Subject(c) \in crossed'
      /\ \/ call[c].op = "remove" /\ Tells(c, "deleted") /\ Turns(c, "done")
         \/ call[c].op = "delete" /\ told' = told /\ Turns(c, "publish")
  BY DestroyDoes
<1>2. PICK step \in {"done", "publish"} : Turns(c, step)
  BY <1>1
<1>3. \A d \in Calls \ {c}, x \in Tables \X Ids :
        /\ MayMake(d, x)' <=> MayMake(d, x)
        /\ HoldsRow(d, x)' <=> HoldsRow(d, x)
        /\ Buries(d, x)' <=> Buries(d, x)
        /\ Subject(d)' = Subject(d) /\ pc'[d] = pc[d]
  BY <1>2, OthersRows
<1>4. Subject(c)' = Subject(c) /\ pc'[c] \notin {"destroy", "saveRole"}
  BY <1>1, <1>2, SubjectKept DEF Turns
<1>5. \A x \in Tables \X Ids : ~MayMake(c, x)'
  BY <1>1, <1>2 DEF Turns, MayMake
<1>6. \A x \in Tables \X Ids : HoldsRow(c, x)' => x = Subject(c) /\ Buries(c, x)'
  BY <1>1, <1>4 DEF HoldsRow, Buries, Turns
<1>7. \A x \in Tables \X Ids : Buries(c, x)' => x = Subject(c)
  BY <1>4 DEF Buries
<1>8. \A x \in Tables \X Ids : x # Subject(c) => Told(x)' = Told(x)
  <2>1. CASE told' = told
    BY <2>1, ToldKept
  <2>2. CASE Tells(c, "deleted")
    BY <2>2 DEF Tells
  <2> QED BY <1>1, <2>1, <2>2
<1>9. Subject(c) \in Tables \X Ids
  BY SubjectFacts
<1>10. \A e \in Calls, x \in Tables \X Ids : MayMake(e, x)' => MayMake(e, x) /\ x # Subject(c)
  BY <1>1, <1>3, <1>5, <1>9 DEF Ended
<1>11. Ended'
  <2>1. ASSUME NEW x \in Tables \X Ids, x \in rows'
        PROVE  "deleted" \notin Told(x)' /\ \A d \in Calls : ~Buries(d, x)'
    <3>1. x \in rows /\ x # Subject(c)
      BY <1>1, <2>1
    <3> QED BY <1>3, <1>7, <1>8, <3>1 DEF Ended
  <2>2. ASSUME NEW x \in Tables \X Ids, NEW e \in Calls, MayMake(e, x)'
        PROVE  /\ x \notin rows' /\ "deleted" \notin Told(x)'
               /\ \A d \in Calls : Subject(d)' = x => pc'[d] \notin {"destroy", "saveRole"} /\ ~Buries(d, x)'
    <3>1. MayMake(e, x) /\ x # Subject(c)
      BY <1>10, <2>2
    <3>2. /\ x \notin rows /\ "deleted" \notin Told(x)
          /\ \A d \in Calls : Subject(d) = x => pc[d] \notin {"destroy", "saveRole"} /\ ~Buries(d, x)
      BY <3>1 DEF Ended
    <3> QED BY <1>1, <1>3, <1>4, <1>7, <1>8, <3>1, <3>2
  <2> QED BY <2>1, <2>2 DEF Ended
<1>12. Heard'
  <2>1. SUFFICES ASSUME NEW x \in Tables \X Ids, x \notin crossed', x \notin unsaid
        PROVE  /\ x \notin rows' => \A d \in Calls : HoldsRow(d, x)' => Buries(d, x)'
               /\ x \notin rows' /\ ~BeingTold(x)' /\ (x[2] = Old \/ Told(x)' # {"none"}) => "deleted" \in Told(x)'
               /\ \A e \in Calls : MayMake(e, x)' => Told(x)' = {"none"} /\ \A d \in Calls : ~HoldsRow(d, x)'
    BY <1>1 DEF Heard
  <2>2. x \in (Tables \X Ids) \ (crossed \cup unsaid)
    BY <1>1, <2>1
  <2>3. CASE x = Subject(c)
    <3>1. \A d \in Calls : HoldsRow(d, x)' => Buries(d, x)'
      BY <1>1, <1>3, <1>6, <2>1, <2>3
    <3>2. "deleted" \in Told(x)' \/ BeingTold(x)'
      BY <1>1, <1>4, <2>3 DEF Tells, BeingTold, Turns
    <3>3. \A e \in Calls : ~MayMake(e, x)'
      BY <1>10, <2>3
    <3> QED BY <3>1, <3>2, <3>3
  <2>4. CASE x # Subject(c)
    <3>1. Told(x)' = Told(x) /\ (x \notin rows' => x \notin rows)
      BY <1>1, <1>8, <2>4
    <3>2. BeingTold(x) => BeingTold(x)'
      BY <1>3, <2>4 DEF BeingTold
    <3>3. x \notin rows' => \A d \in Calls : HoldsRow(d, x)' => Buries(d, x)'
      BY <1>3, <1>6, <2>2, <3>1 DEF Heard
    <3>4. x \notin rows' /\ ~BeingTold(x)' /\ (x[2] = Old \/ Told(x)' # {"none"}) => "deleted" \in Told(x)'
      BY <2>2, <3>1, <3>2 DEF Heard
    <3>5. \A e \in Calls : MayMake(e, x)' => Told(x)' = {"none"} /\ \A d \in Calls : ~HoldsRow(d, x)'
      BY <1>3, <1>6, <1>10, <2>2, <2>4, <3>1 DEF Heard
    <3> QED BY <3>3, <3>4, <3>5
  <2> QED BY <2>3, <2>4
<1> QED BY <1>11, <1>12

LEMMA RowsSaveRole ==
  ASSUME Typed, Ended, Heard, NEW c \in Calls, SaveRole(c)
  PROVE  Ended' /\ Heard'
<1>1. /\ pc[c] = "saveRole" /\ call'[c] = call[c] /\ Turns(c, "done") /\ Tells(c, "updated")
      /\ UNCHANGED <<rows, crossed, unsaid>>
  BY SaveRoleDoes DEF history
<1>2. \A d \in Calls \ {c}, x \in Tables \X Ids :
        /\ MayMake(d, x)' <=> MayMake(d, x)
        /\ HoldsRow(d, x)' <=> HoldsRow(d, x)
        /\ Buries(d, x)' <=> Buries(d, x)
        /\ Subject(d)' = Subject(d) /\ pc'[d] = pc[d]
  BY <1>1, OthersRows
<1>3. \A x \in Tables \X Ids : ~MayMake(c, x)' /\ ~HoldsRow(c, x)' /\ ~Buries(c, x)'
  BY <1>1 DEF Turns, MayMake, HoldsRow, Buries
<1>4. pc'[c] = "done" /\ HoldsRow(c, Subject(c)) /\ ~Buries(c, Subject(c))
  BY <1>1 DEF Turns, HoldsRow, Buries
<1>5. \A x \in Tables \X Ids : /\ "deleted" \in Told(x)' => "deleted" \in Told(x)
                               /\ x # Subject(c) => Told(x)' = Told(x)
  BY <1>1 DEF Tells
<1>6. Subject(c) \in Tables \X Ids
  BY SubjectFacts
<1>7. \A e \in Calls, x \in Tables \X Ids : MayMake(e, x)' => MayMake(e, x) /\ x # Subject(c)
  BY <1>1, <1>2, <1>3, <1>6 DEF Ended
<1>8. Ended'
  <2>1. ASSUME NEW x \in Tables \X Ids, x \in rows
        PROVE  "deleted" \notin Told(x)' /\ \A d \in Calls : ~Buries(d, x)'
    BY <1>2, <1>3, <1>5, <2>1 DEF Ended
  <2>2. ASSUME NEW x \in Tables \X Ids, NEW e \in Calls, MayMake(e, x)'
        PROVE  /\ x \notin rows /\ "deleted" \notin Told(x)'
               /\ \A d \in Calls : Subject(d)' = x => pc'[d] \notin {"destroy", "saveRole"} /\ ~Buries(d, x)'
    <3>1. /\ x \notin rows /\ "deleted" \notin Told(x)
          /\ \A d \in Calls : Subject(d) = x => pc[d] \notin {"destroy", "saveRole"} /\ ~Buries(d, x)
      BY <1>7, <2>2 DEF Ended
    <3> QED BY <1>2, <1>3, <1>4, <1>5, <3>1
  <2> QED BY <1>1, <2>1, <2>2 DEF Ended
<1>9. Heard'
  <2>1. SUFFICES ASSUME NEW x \in Tables \X Ids, x \notin crossed, x \notin unsaid
        PROVE  /\ x \notin rows => \A d \in Calls : HoldsRow(d, x)' => Buries(d, x)'
               /\ x \notin rows /\ ~BeingTold(x)' /\ (x[2] = Old \/ Told(x)' # {"none"}) => "deleted" \in Told(x)'
               /\ \A e \in Calls : MayMake(e, x)' => Told(x)' = {"none"} /\ \A d \in Calls : ~HoldsRow(d, x)'
    BY <1>1 DEF Heard
  <2>2. x \in (Tables \X Ids) \ (crossed \cup unsaid)
    BY <2>1
  <2>3. x \notin rows => x # Subject(c)
    BY <1>4, <2>2 DEF Heard
  <2>4. BeingTold(x) => BeingTold(x)'
    BY <1>1, <1>2 DEF BeingTold
  <2>5. x \notin rows => \A d \in Calls : HoldsRow(d, x)' => Buries(d, x)'
    BY <1>2, <1>3, <2>2 DEF Heard
  <2>6. x \notin rows /\ ~BeingTold(x)' /\ (x[2] = Old \/ Told(x)' # {"none"}) => "deleted" \in Told(x)'
    BY <1>5, <2>2, <2>3, <2>4 DEF Heard
  <2>7. \A e \in Calls : MayMake(e, x)' => Told(x)' = {"none"} /\ \A d \in Calls : ~HoldsRow(d, x)'
    BY <1>2, <1>3, <1>5, <1>7, <2>2 DEF Heard
  <2> QED BY <2>5, <2>6, <2>7
<1> QED BY <1>8, <1>9

LEMMA RowsRestart ==
  ASSUME Typed, Ended, Heard, Restart
  PROVE  Ended' /\ Heard'
<1>1. /\ UNCHANGED <<rows, told, crossed>> /\ unsaid \subseteq unsaid'
      /\ \A c \in Calls : /\ Running(c) => pc'[c] = "failed"
                          /\ ~Running(c) => pc'[c] = pc[c]
                          /\ pc[c] = "publish" /\ call[c].op # "find" => Subject(c) \in unsaid'
  BY RestartDoes
<1>2. \A c \in Calls, x \in Tables \X Ids :
        /\ MayMake(c, x)' => MayMake(c, x)
        /\ ~HoldsRow(c, x)' /\ ~Buries(c, x)'
        /\ pc'[c] \notin {"destroy", "saveRole", "publish"}
  BY <1>1 DEF Running, MayMake, HoldsRow, Buries
<1>3. \A x : Told(x)' = Told(x)
  BY <1>1, ToldKept
<1>4. Ended'
  BY <1>1, <1>2, <1>3 DEF Ended
<1>5. Heard'
  <2>1. SUFFICES ASSUME NEW x \in Tables \X Ids, x \notin crossed, x \notin unsaid'
        PROVE  /\ x \notin rows => \A d \in Calls : HoldsRow(d, x)' => Buries(d, x)'
               /\ x \notin rows /\ ~BeingTold(x)' /\ (x[2] = Old \/ Told(x) # {"none"}) => "deleted" \in Told(x)
               /\ \A e \in Calls : MayMake(e, x)' => Told(x) = {"none"} /\ \A d \in Calls : ~HoldsRow(d, x)'
    BY <1>1, <1>3 DEF Heard
  <2>2. x \in (Tables \X Ids) \ (crossed \cup unsaid)
    BY <1>1, <2>1
  <2>3. x \notin rows => ~BeingTold(x)
    <3>1. ASSUME NEW d \in Calls, x \notin rows, Subject(d) = x, pc[d] = "publish" PROVE FALSE
      <4>1. Buries(d, x)
        BY <2>2, <3>1 DEF Heard, HoldsRow
      <4> QED BY <1>1, <2>1, <3>1, <4>1 DEF Buries
    <3> QED BY <3>1 DEF BeingTold
  <2> QED BY <1>2, <2>2, <2>3 DEF Heard
<1> QED BY <1>4, <1>5

LEMMA RowsStep ==
  ASSUME Typed, Ended, Heard, NEW c \in Calls, Step(c)
  PROVE  Ended' /\ Heard'
<1>1. CASE BeginTransaction(c)
  <2>1. /\ pc[c] = "begin" /\ Steady(c) /\ UNCHANGED <<rows, told, crossed, unsaid>>
        /\ Turns(c, "commit") \/ Turns(c, "failed")
    BY <1>1, BeginTransactionDoes DEF history, Steady
  <2> QED BY <2>1, RowGoesOn, RowLeaves
<1>2. CASE Commit(c)
  BY <1>2, RowsCommit
<1>3. CASE Publish(c)
  BY <1>3, RowsPublish
<1>4. CASE FindRow(c)
  <2>1. /\ pc[c] = "find" /\ call'[c] = call[c] /\ UNCHANGED <<rows, told, crossed, unsaid>>
        /\ \E step : /\ Turns(c, step)
                     /\ \/ step \in {"failed", "done"}
                        \/ step = "destroy" /\ Subject(c) \in rows /\ call[c].op = "delete"
                        \/ step = "publish" /\ Subject(c) \in rows /\ call[c].op = "find"
    BY <1>4, FindRowDoes DEF history
  <2>2. PICK step : /\ Turns(c, step)
                    /\ \/ step \in {"failed", "done"}
                       \/ step = "destroy" /\ Subject(c) \in rows /\ call[c].op = "delete"
                       \/ step = "publish" /\ Subject(c) \in rows /\ call[c].op = "find"
    BY <2>1
  <2>3. CASE step \in {"failed", "done"}
    BY <2>1, <2>2, <2>3, RowLeaves
  <2>4. CASE step \in {"destroy", "publish"}
    <3>1. Subject(c)' = Subject(c) /\ Subject(c) \in rows
      BY <2>1, <2>2, <2>4, SubjectKept
    <3>2. \A x \in Tables \X Ids : ~MayMake(c, x)'
      BY <2>1, <2>2, <2>4 DEF MayMake, Turns
    <3> QED BY <2>1, <2>2, <2>4, <3>1, <3>2, RowTurns
  <2> QED BY <2>2, <2>3, <2>4
<1>5. CASE Destroy(c)
  BY <1>5, RowsDestroy
<1>6. CASE ReadOrganization(c)
  <2>1. /\ pc[c] = "org" /\ Steady(c) /\ UNCHANGED <<rows, told, crossed, unsaid>>
        /\ \E step \in {"membership", "erase", "write", "drop", "failed"} : Turns(c, step)
    BY <1>6, ReadOrganizationDoes DEF history
  <2> QED BY <2>1, RowGoesOn, RowLeaves
<1>7. CASE DropExpired(c)
  BY <1>7, DropExpiredDoes, RowLeaves DEF Writes
<1>8. CASE StoreInvitation(c)
  BY <1>8, StoreInvitationDoes, RowLeaves DEF Writes
<1>9. CASE EraseInvitation(c)
  BY <1>9, EraseInvitationDoes, RowLeaves DEF Writes
<1>10. CASE FindMembership(c)
  <2>1. /\ pc[c] = "membership" /\ Steady(c) /\ UNCHANGED <<rows, told, crossed, unsaid>>
        /\ \E step \in {"save", "begin", "done"} : Turns(c, step)
    BY <1>10, FindMembershipDoes DEF history
  <2>2. call[c].op = "add"
    BY <2>1 DEF Typed, Fits
  <2> QED BY <2>1, <2>2, RowGoesOn, RowLeaves
<1>11. CASE SaveAccepted(c)
  <2>1. /\ pc[c] = "save" /\ Steady(c) /\ UNCHANGED <<rows, told, unsaid>> /\ crossed \subseteq crossed'
        /\ \E step \in {"begin", "done"} : Turns(c, step)
    BY <1>11, SaveAcceptedDoes DEF Writes
  <2>2. call[c].op = "add"
    BY <2>1 DEF Typed, Fits
  <2> QED BY <2>1, <2>2, RowGoesOn, RowLeaves
<1>12. CASE FindOneMembership(c)
  <2>1. /\ pc[c] = "one" /\ UNCHANGED <<rows, told, crossed, unsaid>>
        /\ call'[c].kind = call[c].kind
        /\ \E step : /\ Turns(c, step)
                     /\ \/ step = "failed"
                        \/ step \in {"destroy", "saveRole"} /\ Row("userOrganization", call'[c].id) \in rows
    BY <1>12, FindOneMembershipDoes DEF history
  <2>2. PICK step : /\ Turns(c, step)
                    /\ \/ step = "failed"
                       \/ step \in {"destroy", "saveRole"} /\ Row("userOrganization", call'[c].id) \in rows
    BY <2>1
  <2>3. CASE step = "failed"
    BY <2>1, <2>2, <2>3, RowLeaves
  <2>4. CASE step \in {"destroy", "saveRole"}
    <3>1. call[c].kind = "userOrganization"
      BY <2>1 DEF Typed, Fits
    <3>2. Subject(c)' \in rows
      BY <2>1, <2>2, <2>4, <3>1 DEF Subject
    <3>3. \A x \in Tables \X Ids : ~MayMake(c, x)'
      BY <2>2, <2>4, MakesNothing DEF Turns
    <3> QED BY <2>1, <2>2, <2>4, <3>2, <3>3, RowTurns
  <2> QED BY <2>2, <2>3, <2>4
<1>13. CASE SaveRole(c)
  BY <1>13, RowsSaveRole
<1> QED BY <1>1, <1>2, <1>3, <1>4, <1>5, <1>6, <1>7, <1>8, <1>9, <1>10, <1>11, <1>12, <1>13 DEF Step

LEMMA RowsStay ==
  ASSUME Ended, Heard, UNCHANGED <<rows, told, crossed, unsaid, pc, call>>
  PROVE  Ended' /\ Heard'
<1>1. \A d \in Calls, x \in Tables \X Ids :
        /\ MayMake(d, x)' <=> MayMake(d, x)
        /\ HoldsRow(d, x)' <=> HoldsRow(d, x)
        /\ Buries(d, x)' <=> Buries(d, x)
        /\ Subject(d)' = Subject(d) /\ pc'[d] = pc[d]
  BY DEF MayMake, HoldsRow, Buries, Subject, Row, Creates
<1>2. \A x \in Tables \X Ids : BeingTold(x)' <=> BeingTold(x)
  BY <1>1 DEF BeingTold
<1>3. \A x : Told(x)' = Told(x)
  BY ToldKept
<1>4. Ended'
  BY <1>1, <1>3 DEF Ended
<1>5. Heard'
  BY <1>1, <1>2, <1>3 DEF Heard
<1> QED BY <1>4, <1>5

LEMMA RowsNext ==
  ASSUME Typed, Ended, Heard, [Next]_vars
  PROVE  Ended' /\ Heard'
<1>1. ASSUME NEW c \in Calls, Resolvers(c) PROVE Ended' /\ Heard'
  <2>1. PICK op \in Ops, kind \in Kinds, id \in Ids, user \in Users \cup {None}, first \in Places :
          Begins(c, op, kind, id, user, first) /\ Starts(c, op, kind, id, user, first)
    BY <1>1, ResolversDo
  <2>2. /\ pc[c] = "idle" /\ Turns(c, first) /\ UNCHANGED <<rows, told, crossed, unsaid>>
        /\ call'[c].op = op /\ call'[c].kind = kind /\ call'[c].id = id
    BY <2>1 DEF Starts, history
  <2>3. first \in {"begin", "find", "org", "one", "failed"}
    BY <2>1 DEF Begins, Ops
  <2>4. \A x \in Tables \X Ids : MayMake(c, x)' => MayMake(c, x)
    <3>1. op \in {"create", "add"} => id = c
      BY <2>1 DEF Begins
    <3>2. Creates(c)' => Subject(c)'[2] = c
      BY <2>2, <3>1 DEF Creates, Subject, Row
    <3>3. pc'[c] # "idle"
      BY <2>2, <2>3 DEF Turns
    <3> QED BY <2>2, <3>2, <3>3 DEF MayMake
  <2> QED BY <2>2, <2>3, <2>4, RowTurns
<1>2. ASSUME NEW c \in Calls, Fail(c) PROVE Ended' /\ Heard'
  BY <1>2, FailDoes, RowLeaves
<1>3. CASE Restart
  BY <1>3, RowsRestart
<1>4. ASSUME NEW t \in Calls, Lapse(t) PROVE Ended' /\ Heard'
  <2>1. UNCHANGED <<rows, told, crossed, unsaid, pc, call>>
    BY <1>4, LapseDoes DEF history
  <2> QED BY <2>1, RowsStay
<1>5. CASE UNCHANGED vars
  BY <1>5, RowsStay DEF vars
<1> QED BY <1>1, <1>2, <1>3, <1>4, <1>5, RowsStep DEF Next

-----------------------------------------------------------------------------
(* Invitations.                                                             *)

LEMMA SentTurns ==
  ASSUME Typed, Sent, NEW c \in Calls, NEW step, Turns(c, step), pc[c] # "done",
         \/ mailed' = mailed
         \/ mailed' = mailed \cup {c} /\ step = "done" /\ call'[c].user \in Users,
         spent' \subseteq spent \cup mailed \cup {None},
         \A u \in Users : column'[u] \in mailed' \cup {None},
         \A u \in Users : call'[c].copy[u] \in mailed \cup {None}
  PROVE  Sent'
<1>1. mailed \subseteq Calls /\ mailed \subseteq mailed'
  BY DEF Typed, TypeOK
<1>2. \A t \in mailed' : pc'[t] = "done" /\ call'[t].user \in Users
  BY <1>1 DEF Sent, Turns
<1>3. spent' \subseteq mailed' \cup {None}
  BY <1>1 DEF Sent
<1>4. \A d \in Calls, u \in Users : call'[d].copy[u] \in mailed' \cup {None}
  BY <1>1 DEF Sent, Turns
<1> QED BY <1>2, <1>3, <1>4 DEF Sent

\* What another call holds of the column, as long as the column stays.
LEMMA OthersFaithful ==
  ASSUME NEW c \in Calls, NEW step, Turns(c, step), NEW d \in Calls \ {c},
         column' = column, lapsed' = lapsed, Faithful(d)
  PROVE  Faithful(d)'
BY DEF Turns, Faithful

\* The rows of the organization are never made again.
LEMMA OrganizationStays ==
  ASSUME Typed, NEW c \in Calls, Step(c), Row("organization", Old) \in rows'
  PROVE  Row("organization", Old) \in rows
<1>1. CASE Commit(c)
  <2>1. CASE call[c].op = "update"
    BY <1>1, <2>1, CommitUpdates
  <2>2. CASE call[c].op # "update"
    <3>1. Subject(c)[2] = c /\ rows' = rows \cup {Subject(c)}
      BY <1>1, <2>2, CommitMakes, SubjectFacts
    <3>2. Row("organization", Old)[2] = Old
      BY DEF Row
    <3> QED BY <3>1, <3>2, OldAssumption
  <2> QED BY <2>1, <2>2
<1>2. CASE ~Commit(c)
  BY <1>2 DEF Step, BeginTransaction, Publish, FindRow, Destroy, ReadOrganization, DropExpired,
     StoreInvitation, EraseInvitation, FindMembership, SaveAccepted, FindOneMembership, SaveRole
<1> QED BY <1>1, <1>2

\* A step of one call that writes no column.
LEMMA ExactTurns ==
  ASSUME Typed, Sent, Exact, NEW c \in Calls, NEW step, Turns(c, step), pc[c] # "done",
         UNCHANGED <<lapsed, mailed, spent>>, crossed \subseteq crossed',
         column' = column \/ Column \in crossed',
         Row("organization", Old) \in rows' => Row("organization", Old) \in rows,
         Column \notin crossed' /\ Row("organization", Old) \in rows' => Faithful(c)'
  PROVE  Exact'
<1> SUFFICES ASSUME Column \notin crossed', Row("organization", Old) \in rows'
             PROVE  /\ \A u \in Users : column'[u] # None =>
                         column'[u] \in mailed /\ call'[column'[u]].user = u /\ column'[u] \notin spent
                    /\ \A t \in mailed \ (spent \cup lapsed) : column'[call'[t].user] = t
                    /\ \A d \in Calls : Faithful(d)'
  <2>1. Row("organization", Old)' = Row("organization", Old) /\ Column' = Column
    BY DEF Row, Column
  <2> QED BY <2>1 DEF Exact
<1>1. Column \notin crossed /\ Row("organization", Old) \in rows /\ column' = column
  OBVIOUS
<1>2. \A t \in mailed : t # c /\ call'[t] = call[t]
  BY DEF Sent, Turns, Typed, TypeOK
<1>3. \A d \in Calls \ {c} : Faithful(d)'
  BY <1>1, OthersFaithful DEF Exact
<1> QED BY <1>1, <1>2, <1>3 DEF Exact

\* A step to where no copy is held.
LEMMA HoldsNothing ==
  ASSUME NEW c \in Calls, pc'[c] \notin {"drop", "write", "membership", "save", "erase"}
  PROVE  Faithful(c)'
BY DEF Faithful

\* A step that writes the column: nobody else has a copy.
LEMMA ExactWrites ==
  ASSUME Typed, NEW c \in Calls, NEW step, NEW token, Turns(c, step), Writes(c, token), rows' = rows,
         /\ Column \notin crossed /\ Row("organization", Old) \in rows
         /\ column'[call[c].user] = token
         /\ \A v \in Users \ {call[c].user} : column'[v] = call[c].copy[v]
         => /\ Faithful(c)'
            /\ \A u \in Users : column'[u] # None =>
                 column'[u] \in mailed' /\ call'[column'[u]].user = u /\ column'[u] \notin spent'
            /\ \A t \in mailed' \ (spent' \cup lapsed') : column'[call'[t].user] = t
  PROVE  Exact'
<1> SUFFICES ASSUME Column \notin crossed', Row("organization", Old) \in rows
             PROVE  /\ \A u \in Users : column'[u] # None =>
                         column'[u] \in mailed' /\ call'[column'[u]].user = u /\ column'[u] \notin spent'
                    /\ \A t \in mailed' \ (spent' \cup lapsed') : column'[call'[t].user] = t
                    /\ \A d \in Calls : Faithful(d)'
  <2>1. Row("organization", Old)' = Row("organization", Old) /\ Column' = Column
    BY DEF Row, Column
  <2> QED BY <2>1 DEF Exact
<1>1. Column \notin crossed /\ \A d \in Calls \ {c} : ~HoldsColumn(d)
  BY DEF Writes
<1>2. /\ column'[call[c].user] = token
      /\ \A v \in Users \ {call[c].user} : column'[v] = call[c].copy[v]
  BY DEF Writes
<1>3. \A d \in Calls \ {c} : Faithful(d)'
  BY <1>1, HoldsNothing DEF HoldsColumn, Turns
<1> QED BY <1>1, <1>2, <1>3

\* What a call that drops, stores, erases or saves knows before.
LEMMA WriterFacts ==
  ASSUME Typed, Sent, NEW c \in Calls, pc[c] \in {"drop", "write", "erase", "save"}
  PROVE  /\ call[c].user \in Users /\ c \notin mailed
         /\ \A t \in mailed : t \in Calls /\ t # None
         /\ call[c].copy[call[c].user] \in mailed \cup {None}
         /\ \A u \in Users : call[c].copy[u] \in mailed \cup {None}
<1>1. call[c].user \in Users /\ c \notin mailed
  BY DEF Typed, Fits, Sent
<1>2. \A t \in mailed : t \in Calls /\ t # None
  BY NoneAssumption DEF Typed, TypeOK
<1> QED BY <1>1, <1>2 DEF Sent

\* The column after a write holds what was mailed.
LEMMA WritesMailed ==
  ASSUME Typed, Sent, NEW c \in Calls, pc[c] \in {"drop", "write", "erase", "save"},
         NEW token \in mailed' \cup {None}, mailed \subseteq mailed', Writes(c, token)
  PROVE  \A u \in Users : column'[u] \in mailed' \cup {None}
<1>1. CASE Row("organization", Old) \in rows
  BY <1>1, WriterFacts DEF Writes
<1>2. CASE Row("organization", Old) \notin rows
  BY <1>2 DEF Writes, Sent
<1> QED BY <1>1, <1>2

LEMMA InvitationsDrop ==
  ASSUME Typed, Sent, Exact, NEW c \in Calls, DropExpired(c)
  PROVE  Sent' /\ Exact'
<1>1. /\ pc[c] = "drop" /\ call'[c] = call[c] /\ Turns(c, "write") /\ Writes(c, None)
      /\ UNCHANGED <<rows, lapsed, mailed, spent>>
  BY DropExpiredDoes
<1>2. /\ call[c].user \in Users /\ c \notin mailed
      /\ \A t \in mailed : t \in Calls /\ t # None
      /\ \A u \in Users : call[c].copy[u] \in mailed \cup {None}
  BY <1>1, WriterFacts
<1>3. \A u \in Users : column'[u] \in mailed \cup {None}
  BY <1>1, WritesMailed
<1>4. Sent'
  BY <1>1, <1>2, <1>3, SentTurns
<1>5. ASSUME Column \notin crossed, Row("organization", Old) \in rows,
             column'[call[c].user] = None,
             \A v \in Users \ {call[c].user} : column'[v] = call[c].copy[v]
      PROVE  /\ Faithful(c)'
             /\ \A u \in Users : column'[u] # None =>
                  column'[u] \in mailed' /\ call'[column'[u]].user = u /\ column'[u] \notin spent'
             /\ \A t \in mailed' \ (spent' \cup lapsed') : column'[call'[t].user] = t
  <2>1. /\ \A v \in Users : call[c].copy[v] = column[v]
        /\ call[c].copy[call[c].user] \in lapsed
    BY <1>1, <1>5 DEF Exact, Faithful
  <2>2. Faithful(c)'
    BY <1>1, <1>5 DEF Faithful, Turns
  <2>3. \A t \in mailed : t # c /\ call'[t] = call[t] /\ call[t].user \in Users
    BY <1>1, <1>2 DEF Turns, Sent
  <2>4. \A u \in Users : column'[u] # None => column'[u] = column[u]
    BY <1>5, <2>1
  <2>5. \A u \in Users : column'[u] # None =>
          column'[u] \in mailed' /\ call'[column'[u]].user = u /\ column'[u] \notin spent'
    BY <1>1, <1>5, <2>3, <2>4 DEF Exact
  <2>6. ASSUME NEW t \in mailed \ (spent \cup lapsed) PROVE column'[call'[t].user] = t
    <3>1. column[call[t].user] = t
      BY <1>5 DEF Exact
    <3>2. call[t].user # call[c].user
      BY <2>1, <3>1, <1>2
    <3> QED BY <1>5, <2>1, <2>3, <3>1, <3>2
  <2> QED BY <1>1, <2>2, <2>5, <2>6
<1> QED BY <1>1, <1>4, <1>5, ExactWrites

LEMMA InvitationsStore ==
  ASSUME Typed, Sent, Exact, NEW c \in Calls, StoreInvitation(c)
  PROVE  Sent' /\ Exact'
<1>1. /\ pc[c] = "write" /\ Turns(c, "done") /\ Steady(c) /\ Forgets(c) /\ Writes(c, c)
      /\ mailed' = mailed \cup {c}
      /\ UNCHANGED <<rows, lapsed, spent>>
  BY StoreInvitationDoes
<1>2. /\ call[c].user \in Users /\ c \notin mailed
      /\ \A t \in mailed : t \in Calls /\ t # None
      /\ \A u \in Users : call[c].copy[u] \in mailed \cup {None}
      /\ call'[c].user = call[c].user
  BY <1>1, WriterFacts DEF Steady
<1>3. \A u \in Users : column'[u] \in mailed' \cup {None}
  BY <1>1, WritesMailed
<1>4. Sent'
  BY <1>1, <1>2, <1>3, SentTurns DEF Forgets
<1>5. ASSUME Column \notin crossed, Row("organization", Old) \in rows,
             column'[call[c].user] = c,
             \A v \in Users \ {call[c].user} : column'[v] = call[c].copy[v]
      PROVE  /\ Faithful(c)'
             /\ \A u \in Users : column'[u] # None =>
                  column'[u] \in mailed' /\ call'[column'[u]].user = u /\ column'[u] \notin spent'
             /\ \A t \in mailed' \ (spent' \cup lapsed') : column'[call'[t].user] = t
  <2>1. /\ \A v \in Users \ {call[c].user} : call[c].copy[v] = column[v]
        /\ column[call[c].user] = None
    BY <1>1, <1>5 DEF Exact, Faithful
  <2>2. Faithful(c)'
    BY <1>1, HoldsNothing DEF Turns
  <2>3. \A t \in mailed : t # c /\ call'[t] = call[t] /\ call[t].user \in Users
    BY <1>1, <1>2 DEF Turns, Sent
  <2>4. c \notin spent /\ c # None
    BY <1>2, NoneAssumption DEF Sent
  <2>5. \A u \in Users \ {call[c].user} : column'[u] = column[u]
    BY <1>5, <2>1
  <2>6. ASSUME NEW u \in Users, column'[u] # None
        PROVE  column'[u] \in mailed' /\ call'[column'[u]].user = u /\ column'[u] \notin spent'
    <3>1. CASE u = call[c].user
      BY <1>1, <1>2, <1>5, <2>4, <3>1
    <3>2. CASE u # call[c].user
      <4>1. column'[u] = column[u]
        BY <2>5, <3>2
      <4>2. column[u] \in mailed /\ call[column[u]].user = u /\ column[u] \notin spent
        BY <1>5, <2>6, <4>1 DEF Exact
      <4> QED BY <1>1, <2>3, <4>1, <4>2
    <3> QED BY <3>1, <3>2
  <2>7. ASSUME NEW t \in mailed' \ (spent \cup lapsed) PROVE column'[call'[t].user] = t
    <3>1. CASE t = c
      BY <1>2, <1>5, <3>1
    <3>2. CASE t # c
      <4>1. t \in mailed /\ column[call[t].user] = t
        BY <1>1, <1>5, <2>7, <3>2 DEF Exact
      <4>2. call[t].user # call[c].user
        BY <1>2, <2>1, <4>1
      <4> QED BY <2>3, <2>5, <4>1, <4>2
    <3> QED BY <3>1, <3>2
  <2> QED BY <1>1, <2>2, <2>6, <2>7
<1> QED BY <1>1, <1>4, <1>5, ExactWrites

\* An invitation is withdrawn, or used: its token is spent and leaves the column.
LEMMA InvitationsSpend ==
  ASSUME Typed, Sent, Exact, NEW c \in Calls, NEW step, pc[c] \in {"erase", "save"}, Turns(c, step),
         step \in {"begin", "done"}, \A u \in Users : call'[c].copy[u] = None,
         Writes(c, None), spent' = spent \cup {call[c].copy[call[c].user]},
         UNCHANGED <<rows, lapsed, mailed>>
  PROVE  Sent' /\ Exact'
<1>2. /\ call[c].user \in Users /\ c \notin mailed
      /\ \A t \in mailed : t \in Calls /\ t # None
      /\ call[c].copy[call[c].user] \in mailed \cup {None}
  BY WriterFacts
<1>3. \A u \in Users : column'[u] \in mailed \cup {None}
  BY WritesMailed
<1>4. Sent'
  BY <1>2, <1>3, SentTurns
<1>5. ASSUME Column \notin crossed, Row("organization", Old) \in rows,
             column'[call[c].user] = None,
             \A v \in Users \ {call[c].user} : column'[v] = call[c].copy[v]
      PROVE  /\ Faithful(c)'
             /\ \A u \in Users : column'[u] # None =>
                  column'[u] \in mailed' /\ call'[column'[u]].user = u /\ column'[u] \notin spent'
             /\ \A t \in mailed' \ (spent' \cup lapsed') : column'[call'[t].user] = t
  <2>1. /\ \A v \in Users : call[c].copy[v] = column[v]
        /\ call[c].copy[call[c].user] # None
    BY <1>5 DEF Exact, Faithful
  <2>2. Faithful(c)'
    BY HoldsNothing DEF Turns
  <2>3. \A t \in mailed : t # c /\ call'[t] = call[t] /\ call[t].user \in Users
    BY <1>2 DEF Turns, Sent
  <2>4. ASSUME NEW u \in Users, column'[u] # None
        PROVE  column'[u] \in mailed' /\ call'[column'[u]].user = u /\ column'[u] \notin spent'
    <3>1. u # call[c].user /\ column'[u] = column[u]
      BY <1>5, <2>1, <2>4
    <3>2. column[u] \in mailed /\ call[column[u]].user = u /\ column[u] \notin spent
      BY <1>5, <2>4, <3>1 DEF Exact
    <3>3. column[u] # column[call[c].user]
      BY <1>2, <1>5, <2>1, <3>1, <3>2 DEF Exact
    <3> QED BY <1>2, <2>1, <2>3, <3>1, <3>2, <3>3
  <2>5. ASSUME NEW t \in mailed \ (spent' \cup lapsed) PROVE column'[call'[t].user] = t
    <3>1. column[call[t].user] = t /\ t # call[c].copy[call[c].user]
      BY <1>5, <2>5 DEF Exact
    <3>2. call[t].user # call[c].user
      BY <1>2, <2>1, <3>1
    <3> QED BY <1>5, <2>1, <2>3, <3>1, <3>2
  <2> QED BY <2>2, <2>4, <2>5
<1> QED BY <1>4, <1>5, ExactWrites

\* A step that leaves the column and the tokens where they are.
LEMMA InvitationsStay ==
  ASSUME Typed, Sent, Exact, NEW c \in Calls, NEW step, Turns(c, step), pc[c] # "done",
         UNCHANGED <<column, lapsed, mailed, spent>>, crossed \subseteq crossed',
         Row("organization", Old) \in rows' => Row("organization", Old) \in rows,
         step \notin {"drop", "write", "membership", "save", "erase"},
         \A u \in Users : call'[c].copy[u] \in {call[c].copy[u], None}
  PROVE  Sent' /\ Exact'
<1>1. Faithful(c)'
  BY HoldsNothing DEF Turns
<1>2. \A u \in Users : call'[c].copy[u] \in mailed \cup {None} /\ column'[u] \in mailed \cup {None}
  BY DEF Sent
<1> QED BY <1>1, <1>2, SentTurns, ExactTurns

LEMMA InvitationsCommit ==
  ASSUME Typed, Sent, Exact, NEW c \in Calls, Commit(c)
  PROVE  Sent' /\ Exact'
<1>1. /\ pc[c] = "commit" /\ call'[c] = call[c] /\ Turns(c, "publish")
      /\ UNCHANGED <<lapsed, mailed, spent>>
  BY CommitDoes
<1>2. Row("organization", Old) \in rows' => Row("organization", Old) \in rows
  BY OrganizationStays DEF Step
<1>3. /\ crossed \subseteq crossed'
      /\ column' = column \/ (Column \in crossed' /\ column' = NoInvitations)
  <2>1. CASE call[c].op = "update"
    BY <2>1, CommitUpdates
  <2>2. CASE call[c].op # "update"
    BY <2>2, CommitMakes
  <2> QED BY <2>1, <2>2
<1>4. Faithful(c)'
  BY <1>1, HoldsNothing DEF Turns
<1>5. \A u \in Users : column'[u] \in mailed \cup {None} /\ call'[c].copy[u] \in mailed \cup {None}
  BY <1>1, <1>3, NothingHeld DEF Sent
<1> QED BY <1>1, <1>2, <1>3, <1>4, <1>5, SentTurns, ExactTurns

LEMMA InvitationsRead ==
  ASSUME Typed, Sent, Exact, NEW c \in Calls, ReadOrganization(c)
  PROVE  Sent' /\ Exact'
<1>1. /\ pc[c] = "org" /\ Steady(c)
      /\ UNCHANGED <<rows, column, lapsed, mailed, spent, crossed>>
      /\ \/ \E step \in {"membership", "erase", "write", "drop"} :
              /\ Follows(c, step) /\ Turns(c, step)
              /\ call'[c].copy = column
         \/ Turns(c, "failed") /\ call'[c] = call[c]
  BY ReadOrganizationDoes DEF history
<1>2. CASE Turns(c, "failed") /\ call'[c] = call[c]
  BY <1>1, <1>2, InvitationsStay
<1>3. ASSUME NEW step \in {"membership", "erase", "write", "drop"},
             Follows(c, step), Turns(c, step), call'[c].copy = column
      PROVE  Sent' /\ Exact'
  <2>1. pc'[c] = step /\ call'[c].user = call[c].user
    BY <1>1, <1>3 DEF Turns, Steady
  <2>2. Faithful(c)'
    BY <1>1, <1>3, <2>1 DEF Follows, Faithful
  <2>3. \A u \in Users : column'[u] \in mailed \cup {None} /\ call'[c].copy[u] \in mailed \cup {None}
    BY <1>1, <1>3 DEF Sent
  <2> QED BY <1>1, <1>3, <2>2, <2>3, SentTurns, ExactTurns
<1> QED BY <1>1, <1>2, <1>3

LEMMA InvitationsFindMembership ==
  ASSUME Typed, Sent, Exact, NEW c \in Calls, FindMembership(c)
  PROVE  Sent' /\ Exact'
<1>1. /\ pc[c] = "membership" /\ Steady(c)
      /\ UNCHANGED <<rows, column, lapsed, mailed, spent, crossed>>
      /\ \/ /\ call[c].copy[call[c].user] # None
            /\ Turns(c, "save") /\ call'[c].copy = call[c].copy
         \/ Turns(c, "begin") /\ call'[c].copy = NoInvitations
         \/ Turns(c, "done") /\ call'[c].copy = NoInvitations
  BY FindMembershipDoes DEF history
<1>2. CASE /\ call[c].copy[call[c].user] # None
           /\ Turns(c, "save") /\ call'[c].copy = call[c].copy
  <2>1. pc'[c] = "save" /\ call'[c].user = call[c].user
    BY <1>1, <1>2 DEF Turns, Steady
  <2>2. Column \notin crossed' /\ Row("organization", Old) \in rows' => Faithful(c)'
    <3>1. SUFFICES ASSUME Column \notin crossed, Row("organization", Old) \in rows
                   PROVE  Faithful(c)'
      BY <1>1
    <3>2. \A v \in Users : call[c].copy[v] = column[v]
      BY <1>1, <3>1 DEF Exact, Faithful
    <3> QED BY <1>1, <1>2, <2>1, <3>2 DEF Faithful
  <2>3. \A u \in Users : column'[u] \in mailed \cup {None} /\ call'[c].copy[u] \in mailed \cup {None}
    BY <1>1, <1>2 DEF Sent
  <2> QED BY <1>1, <1>2, <2>2, <2>3, SentTurns, ExactTurns
<1>3. ASSUME NEW step \in {"begin", "done"}, Turns(c, step), call'[c].copy = NoInvitations
      PROVE  Sent' /\ Exact'
  <2>1. \A u \in Users : call'[c].copy[u] \in {call[c].copy[u], None}
    BY <1>3, NothingHeld
  <2> QED BY <1>1, <1>3, <2>1, InvitationsStay
<1> QED BY <1>1, <1>2, <1>3

LEMMA InvitationsStep ==
  ASSUME Typed, Sent, Exact, NEW c \in Calls, Step(c)
  PROVE  Sent' /\ Exact'
<1>0. Row("organization", Old) \in rows' => Row("organization", Old) \in rows
  BY OrganizationStays
<1>1. CASE BeginTransaction(c)
  <2>1. /\ pc[c] = "begin" /\ call'[c] = call[c]
        /\ UNCHANGED <<column, lapsed, mailed, spent, crossed>>
        /\ Turns(c, "commit") \/ Turns(c, "failed")
    BY <1>1, BeginTransactionDoes DEF history
  <2> QED BY <1>0, <2>1, InvitationsStay
<1>2. CASE Commit(c)
  BY <1>2, InvitationsCommit
<1>3. CASE Publish(c)
  <2>1. /\ pc[c] = "publish"
        /\ UNCHANGED <<column, lapsed, mailed, spent, crossed>>
        /\ \A u \in Users : call'[c].copy[u] \in {call[c].copy[u], None}
        /\ Turns(c, "begin") \/ Turns(c, "done")
    BY <1>3, PublishDoes, PublishGoesOn DEF history, Forgets
  <2> QED BY <1>0, <2>1, InvitationsStay
<1>4. CASE FindRow(c)
  <2>1. /\ pc[c] = "find" /\ call'[c] = call[c]
        /\ UNCHANGED <<column, lapsed, mailed, spent, crossed>>
        /\ \E step \in {"failed", "destroy", "done", "publish"} : Turns(c, step)
    BY <1>4, FindRowDoes DEF history
  <2> QED BY <1>0, <2>1, InvitationsStay
<1>5. CASE Destroy(c)
  <2>1. /\ pc[c] = "destroy" /\ call'[c] = call[c]
        /\ UNCHANGED <<column, lapsed, mailed, spent>> /\ crossed \subseteq crossed'
        /\ \E step \in {"done", "publish"} : Turns(c, step)
    BY <1>5, DestroyDoes
  <2> QED BY <1>0, <2>1, InvitationsStay
<1>6. CASE ReadOrganization(c)
  BY <1>6, InvitationsRead
<1>7. CASE DropExpired(c)
  BY <1>7, InvitationsDrop
<1>8. CASE StoreInvitation(c)
  BY <1>8, InvitationsStore
<1>9. CASE EraseInvitation(c)
  BY <1>9, EraseInvitationDoes, InvitationsSpend DEF Forgets
<1>10. CASE FindMembership(c)
  BY <1>10, InvitationsFindMembership
<1>11. CASE SaveAccepted(c)
  <2>1. /\ pc[c] = "save" /\ \A u \in Users : call'[c].copy[u] = None
        /\ Turns(c, "begin") \/ Turns(c, "done")
        /\ Writes(c, None)
        /\ spent' = spent \cup {call[c].copy[call[c].user]}
        /\ UNCHANGED <<rows, lapsed, mailed>>
    BY <1>11, SaveAcceptedDoes
  <2> QED BY <2>1, InvitationsSpend
<1>12. CASE FindOneMembership(c)
  <2>1. /\ pc[c] = "one" /\ call'[c].copy = call[c].copy
        /\ UNCHANGED <<column, lapsed, mailed, spent, crossed>>
        /\ \E step \in {"destroy", "saveRole", "failed"} : Turns(c, step)
    BY <1>12, FindOneMembershipDoes DEF history
  <2> QED BY <1>0, <2>1, InvitationsStay
<1>13. CASE SaveRole(c)
  <2>1. /\ pc[c] = "saveRole" /\ call'[c] = call[c] /\ Turns(c, "done")
        /\ UNCHANGED <<column, lapsed, mailed, spent, crossed>>
    BY <1>13, SaveRoleDoes DEF history
  <2> QED BY <1>0, <2>1, InvitationsStay
<1> QED BY <1>1, <1>2, <1>3, <1>4, <1>5, <1>6, <1>7, <1>8, <1>9, <1>10, <1>11, <1>12, <1>13 DEF Step

LEMMA InvitationsNext ==
  ASSUME Typed, Sent, Exact, [Next]_vars
  PROVE  Sent' /\ Exact'
<1>1. ASSUME NEW c \in Calls, Resolvers(c) PROVE Sent' /\ Exact'
  <2>1. PICK op \in Ops, kind \in Kinds, id \in Ids, user \in Users \cup {None}, first \in Places :
          Begins(c, op, kind, id, user, first) /\ Starts(c, op, kind, id, user, first)
    BY <1>1, ResolversDo
  <2>2. /\ pc[c] = "idle" /\ Turns(c, first) /\ call'[c].copy = call[c].copy
        /\ UNCHANGED <<rows, column, lapsed, mailed, spent, crossed>>
    BY <2>1 DEF Starts, history
  <2>3. first \in {"begin", "find", "org", "one", "failed"}
    BY <2>1 DEF Begins, Ops
  <2> QED BY <2>2, <2>3, InvitationsStay
<1>2. ASSUME NEW c \in Calls, Fail(c) PROVE Sent' /\ Exact'
  <2>1. /\ pc[c] # "done" /\ Turns(c, "failed") /\ \A u \in Users : call'[c].copy[u] = None
        /\ UNCHANGED <<rows, column, lapsed, mailed, spent, crossed>>
    BY <1>2, FailDoes DEF Forgets, Running
  <2> QED BY <2>1, InvitationsStay
<1>3. CASE Restart
  <2>1. /\ UNCHANGED <<rows, column, lapsed, mailed, spent, crossed>>
        /\ \A c \in Calls : /\ pc[c] = "done" => pc'[c] = "done"
                            /\ pc'[c] \in {"idle", "done", "failed"}
                            /\ call'[c].user = call[c].user
                            /\ \A u \in Users : call'[c].copy[u] = None
    BY <1>3, RestartDoes DEF Running, Steady, Forgets
  <2>2. mailed \subseteq Calls
    BY DEF Typed, TypeOK
  <2>3. Sent'
    BY <2>1, <2>2 DEF Sent
  <2>4. \A c \in Calls : Faithful(c)'
    BY <2>1, HoldsNothing
  <2>5. Row("organization", Old)' = Row("organization", Old) /\ Column' = Column
    BY DEF Row, Column
  <2> QED BY <2>1, <2>2, <2>3, <2>4, <2>5 DEF Exact
<1>4. ASSUME NEW t \in Calls, Lapse(t) PROVE Sent' /\ Exact'
  <2>1. lapsed' = lapsed \cup {t} /\ UNCHANGED <<rows, column, pc, call, mailed, spent, crossed>>
    BY <1>4, LapseDoes DEF history
  <2>2. \A c \in Calls : Faithful(c) => Faithful(c)'
    BY <2>1 DEF Faithful
  <2>3. Row("organization", Old)' = Row("organization", Old) /\ Column' = Column
    BY DEF Row, Column
  <2>4. Sent'
    BY <2>1 DEF Sent
  <2>5. Exact'
    BY <2>1, <2>2, <2>3 DEF Exact
  <2> QED BY <2>4, <2>5
<1>5. CASE UNCHANGED vars
  <2>1. UNCHANGED <<rows, column, lapsed, pc, call, mailed, spent, crossed>>
    BY <1>5 DEF vars
  <2>2. \A c \in Calls : Faithful(c) => Faithful(c)'
    BY <2>1 DEF Faithful
  <2>3. Row("organization", Old)' = Row("organization", Old) /\ Column' = Column
    BY DEF Row, Column
  <2>4. Sent'
    BY <2>1 DEF Sent
  <2>5. Exact'
    BY <2>1, <2>2, <2>3 DEF Exact
  <2> QED BY <2>4, <2>5
<1> QED BY <1>1, <1>2, <1>3, <1>4, <1>5, InvitationsStep DEF Next

-----------------------------------------------------------------------------
(* The invariant, and the properties it implies.                            *)

LEMMA TypedNext ==
  ASSUME Typed, [Next]_vars
  PROVE  Typed'
<1>1. ASSUME NEW c \in Calls, Resolvers(c) PROVE Typed'
  BY <1>1, ResolversDo, TypedStart
<1>2. ASSUME NEW c \in Calls, Step(c) PROVE Typed'
  BY <1>2, TypedBeginTransaction, TypedCommit, TypedPublish, TypedFindRow, TypedDestroy,
     TypedReadOrganization, TypedDropExpired, TypedStoreInvitation, TypedEraseInvitation,
     TypedFindMembership, TypedSaveAccepted, TypedFindOneMembership, TypedSaveRole DEF Step
<1>3. CASE UNCHANGED vars
  BY <1>3 DEF vars, Typed, TypeOK, Fits, Running, Creates
<1> QED BY <1>1, <1>2, <1>3, TypedFail, TypedRestart, TypedLapse DEF Next

LEMMA InitTyped ==
  ASSUME Init
  PROVE  Typed
<1>1. /\ \A c \in Calls : pc[c] = "idle"
      /\ pc \in [Calls -> Places]
  BY DEF Init, Places
<1>2. \A c \in Calls : Fits(c)
  BY <1>1 DEF Fits, Running
<1>3. call \in [Calls -> Arguments]
  <2>1. NoInvitations \in [Users -> Tokens]
    BY DEF NoInvitations, Tokens
  <2>2. [op |-> "find", kind |-> "tag", id |-> Old, user |-> None,
         copy |-> NoInvitations, fresh |-> FALSE] \in Arguments
    BY <2>1, KeysKnown, Kinded DEF Arguments, Ops
  <2> QED BY <2>2 DEF Init
<1>4. column \in [Users -> Tokens]
  BY DEF Init, NoInvitations, Tokens
<1>5. member \in [Ids -> [user: Users, org: Ids, role: Roles]]
  BY KeysKnown DEF Init, Roles
<1>6. /\ rows \subseteq Tables \X Ids /\ told \in [Kinds \X Ids -> Events]
      /\ lapsed \subseteq Calls /\ open \subseteq Calls
      /\ mailed \subseteq Calls /\ spent \subseteq Tokens /\ raced \subseteq Users
  BY KeysKnown DEF Init, Events
<1> QED BY <1>1, <1>2, <1>3, <1>4, <1>5, <1>6 DEF Typed, TypeOK

LEMMA InitInvariant ==
  ASSUME Init
  PROVE  IInv
<1>1. Typed
  BY InitTyped
<1>2. /\ \A c \in Calls : /\ pc[c] = "idle"
                          /\ call[c].copy = NoInvitations
      /\ rows = {<<t, Old>> : t \in Tables}
      /\ open = {} /\ mailed = {} /\ spent = {}
      /\ column = NoInvitations
      /\ \A k \in Kinds, i \in Ids : told[<<k, i>>] = "none"
  BY DEF Init
<1>3. \A x \in Tables \X Ids : Told(x) = {"none"}
  <2>1. ASSUME NEW x \in Tables \X Ids PROVE Told(x) = {"none"}
    <3>1. \E k \in Kinds : TableOf(k) = x[1]
      <4>1. x[1] \in Kinds /\ TableOf(x[1]) = x[1]
        BY DEF Kinds, Tables, TableOf
      <4> QED BY <4>1
    <3>2. x[2] \in Ids
      OBVIOUS
    <3>3. \A k \in Kinds : told[<<k, x[2]>>] = "none"
      BY <1>2, <3>2
    <3>4. Told(x) \subseteq {"none"}
      BY <3>3 DEF Told
    <3>5. "none" \in Told(x)
      BY <3>1, <3>3 DEF Told
    <3> QED BY <3>4, <3>5
  <2> QED BY <2>1
<1>4. \A c \in Calls, x \in Tables \X Ids :
        /\ ~Buries(c, x) /\ ~HoldsRow(c, x)
        /\ MayMake(c, x) => x[2] = c /\ x \notin rows
  BY <1>2, OldAssumption DEF Buries, HoldsRow, MayMake
<1>5. \A x \in Tables \X Ids : x \notin rows => x[2] # Old
  BY <1>2
<1>6. Ended
  BY <1>2, <1>3, <1>4 DEF Ended
<1>7. Heard
  BY <1>3, <1>4, <1>5 DEF Heard
<1>8. Alone
  <2>1. \A u \in Users : \A i \in MembershipsOf(u) : i = Old
    BY <1>2, KindFacts DEF MembershipsOf, Row
  <2>2. \A c \in Calls, u \in Users : ~LooksAway(c, u)
    BY <1>2 DEF LooksAway
  <2> QED BY <2>1, <2>2 DEF Alone
<1>9. Sent
  BY <1>2, NothingHeld DEF Sent
<1>10. Exact
  <2>1. \A c \in Calls : Faithful(c)
    BY <1>2 DEF Faithful
  <2> QED BY <1>2, <2>1, NothingHeld DEF Exact
<1>11. LeaksAreKnown
  BY <1>2 DEF LeaksAreKnown
<1> QED BY <1>1, <1>6, <1>7, <1>8, <1>9, <1>10, <1>11 DEF IInv

\* The inductive invariant: every step of a call, every failure, every restart and the
\* lapse of an invitation keeps it.
THEOREM Invariance == Spec => []IInv
<1>1. Init => IInv
  BY InitInvariant
<1>2. IInv /\ [Next]_vars => IInv'
  <2>1. SUFFICES ASSUME IInv, [Next]_vars PROVE IInv'
    OBVIOUS
  <2>2. Typed /\ Ended /\ Heard /\ Alone /\ Sent /\ Exact /\ LeaksAreKnown
    BY <2>1 DEF IInv
  <2>3. Typed'
    BY <2>1, <2>2, TypedNext
  <2>4. Ended' /\ Heard'
    BY <2>1, <2>2, RowsNext
  <2>5. Alone'
    BY <2>1, <2>2, AloneNext
  <2>6. Sent' /\ Exact'
    BY <2>1, <2>2, InvitationsNext
  <2>7. LeaksAreKnown'
    BY <2>1, <2>2, LeaksNext
  <2> QED BY <2>3, <2>4, <2>5, <2>6, <2>7 DEF IInv
<1> QED BY <1>1, <1>2, PTL DEF Spec

\* The variables keep their types: a membership that is made has a user, and a token
\* that is stored is one.
THEOREM TypeCorrect == Spec => []TypeOK
<1>1. IInv => TypeOK
  BY DEF IInv, Typed
<1> QED BY <1>1, Invariance, PTL

\* What is published about a record tells whether its row is there, however the calls
\* of create, update, delete and find interleave, fail or are cut off.
THEOREM EventsTellRowsAlways == Spec => []EventsTellRows
<1>1. IInv => EventsTellRows
  BY DEF IInv, Ended, Heard, EventsTellRows
<1> QED BY <1>1, Invariance, PTL

\* Nobody is a member of an organization twice but a user who was created or made a member
\* by an update without looking, or for whom two calls looked before either created.
THEOREM MemberOnceAlways == Spec => []MemberOnce
<1>1. IInv => MemberOnce
  <2>1. SUFFICES ASSUME IInv, NEW u \in Users \ raced
                 PROVE  Cardinality(MembershipsOf(u)) <= 1
    BY DEF MemberOnce
  <2>2. \A i, j \in MembershipsOf(u) : i = j
    BY <2>1 DEF IInv, Alone
  <2>3. CASE MembershipsOf(u) = {}
    BY <2>3, FS_EmptySet
  <2>4. CASE MembershipsOf(u) # {}
    <3>1. PICK i : MembershipsOf(u) = {i}
      BY <2>2, <2>4
    <3>2. Cardinality(MembershipsOf(u)) = 1
      BY <3>1, FS_Singleton
    <3> QED BY <3>2
  <2> QED BY <2>3, <2>4
<1> QED BY <1>1, Invariance, PTL

\* As long as no two calls held the column at once and no client replaced it, a token is
\* accepted exactly when it was sent, is not over and was neither used nor withdrawn.
THEOREM InvitationsExactAlways == Spec => []InvitationsExact
<1>1. IInv => InvitationsExact
  <2>1. SUFFICES ASSUME IInv, Column \notin crossed, NEW t \in Calls
                 PROVE  Accepts(t) <=> /\ t \in mailed \ (lapsed \cup spent)
                                       /\ Row("organization", Old) \in rows
    BY DEF InvitationsExact
  <2>2. CASE Row("organization", Old) \in rows
    <3>1. /\ \A u \in Users : column[u] # None =>
               column[u] \in mailed /\ call[column[u]].user = u /\ column[u] \notin spent
          /\ \A s \in mailed \ (spent \cup lapsed) : column[call[s].user] = s
          /\ \A s \in mailed : call[s].user \in Users
      BY <2>1, <2>2 DEF IInv, Exact, Sent
    <3>2. t # None
      BY <2>1, NoneAssumption
    <3> QED BY <2>2, <3>1, <3>2 DEF Accepts
  <2>3. CASE Row("organization", Old) \notin rows
    BY <2>3 DEF Accepts
  <2> QED BY <2>2, <2>3
<1> QED BY <1>1, Invariance, PTL

\* Only the resolvers that do not import saveAndPublishEntity leave a transaction open.
THEOREM LeaksAreKnownAlways == Spec => []LeaksAreKnown
<1>1. IInv => LeaksAreKnown
  BY DEF IInv
<1> QED BY <1>1, Invariance, PTL
=============================================================================
