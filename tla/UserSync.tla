------------------------------ MODULE UserSync ------------------------------
(***************************************************************************)
(* The synchronisation of Keycloak and PostgreSQL:                         *)
(* KeycloakPostgresSyncService of mu-auth/src/auth/services/               *)
(* keycloak-postgres-sync.service.ts, called by sync-admin.controller.ts,  *)
(* beside what else writes the two stores: administrators of Keycloak,     *)
(* AuthService, which creates the row of an account it registers or looks  *)
(* up, and PostgresUserService.                                            *)
(*                                                                         *)
(* A user name is unique in both stores and is never changed, and neither  *)
(* accounts nor rows are deleted: an account, its row and its mapping are  *)
(* known by the name.  What is copied between the stores is a pair, of the *)
(* attributes that have a column of their own and of the custom ones, each *)
(* with a value that survives the conversion both ways, or cleared.  Only  *)
(* columns without a default are modelled: the conversion gives the others *)
(* a value whatever the account lacks.                                     *)
(***************************************************************************)
EXTENDS Integers, FiniteSets

CONSTANTS
    Syncs,       \* calls of performFullSync
    Names,       \* user names
    Mailless,    \* names of accounts without an email address
    Columns,     \* attributes with a column of their own
    Values,      \* values of a column
    Extras,      \* values of the custom attributes together
    Cleared,     \* an attribute the account lacks, a column that is NULL
    MaxEdits,    \* bound: acts of users and administrators
    MaxFaults,   \* bound: calls of a store that fail, and crashes
    RowHash,     \* the hash of a row of users as it is read
    None

ASSUME MaillessAssumption == Mailless \subseteq Names
ASSUME BoundsAssumption == MaxEdits \in Nat /\ MaxFaults \in Nat

Core == [Columns -> Values \cup {Cleared}]
Custom == Extras \cup {Cleared}
Data == Core \X Custom

ASSUME NoneAssumption == None \notin Data \cup Core \cup Syncs \cup {RowHash}
ASSUME RowHashAssumption == RowHash \notin Core

VARIABLES
    kc,         \* Keycloak: the data of each account, or None
    pg,         \* table users
    mapping,    \* table sync_mappings: the hash of each mapping, or None
    log,        \* table sync_logs: the status of each call's entry
    isSyncing,  \* isSyncing, in the process
    pc, mode, job,  \* the calls in progress, and what each does of each name
    admin,      \* the call of cancelRunningSync
    adopting,   \* names AuthService is about to create a row for
    edits, faults,    \* bounds
    touched,    \* history: rows changed by updateUser, not by a synchronisation
    torn,       \* history: rows that were updated while their mapping was not
    overridden, \* history: a cancellation cleared the flag
    leaked,     \* history: a call threw before its try block
    quiet       \* history: names only this call has written since it began

stores == <<kc, pg, mapping>>
calls == <<pc, mode, job>>
flags == <<log, isSyncing, admin, overridden, leaked>>
marks == <<touched, torn, quiet>>
vars == <<stores, calls, flags, adopting, edits, faults, marks>>

\* generateSyncHash: the second argument of JSON.stringify lists the keys of
\* the outer object, and with it drops every custom attribute.
Digest(d) == d[1]

\* What is cleared in the new data is undefined there, and a column that is
\* given undefined keeps its value.
Merged(new, old) ==
    <<[c \in Columns |-> IF new[1][c] = Cleared THEN old[1][c] ELSE new[1][c]],
      IF new[2] = Cleared THEN old[2] ELSE new[2]>>

\* Data d has every column that is not cleared in h.
Carries(d, h) == \A c \in Columns : h[c] # Cleared => d[1][c] = h[c]

NoRow == [stored |-> FALSE, data |-> None, linked |-> FALSE, recent |-> FALSE]

\* A row with its keycloakId, or without; just written, or an hour ago.
Row(d, linked, recent) == [stored |-> TRUE, data |-> d, linked |-> linked, recent |-> recent]

Rows == {NoRow} \cup [stored : {TRUE}, data : Data, linked : BOOLEAN, recent : BOOLEAN]

\* The unique columns of users: username and email, which is '' without one.
Taken(n) == \E m \in Names : pg[m].stored /\ (m = n \/ {m, n} \subseteq Mailless)

PullStages == {"find", "row", "update", "remap", "create", "map"}
PushStages == {"push", "link", "record"}
Stages == PullStages \cup PushStages \cup {"none", "done"}
Jobs == [at : Stages, data : Data \cup {None}, linked : BOOLEAN, fine : BOOLEAN]
NoJob == [at |-> "none", data |-> None, linked |-> FALSE, fine |-> TRUE]

Running == {"log", "fetch", "pull", "rows", "push", "close", "broken", "finally"}
PCs == Running \cup {"idle", "wiped", "ended"}
Modes == {"plain", "dry", "force", "rebuild"}
Statuses == {"none", "running", "completed", "failed", "cancelled"}

Active(s) == pc[s] \in Running
Settled(s, stages) == \A n \in Names : job[s][n].at \notin stages

Goto(s, to) == pc' = [pc EXCEPT ![s] = to] /\ UNCHANGED <<mode, job>>
Await(s, n, stage) == job' = [job EXCEPT ![s][n].at = stage] /\ UNCHANGED <<pc, mode>>
Finish(s, n, fine) == job' = [job EXCEPT ![s][n] = [NoJob EXCEPT !.at = "done", !.fine = fine]]
                      /\ UNCHANGED <<pc, mode>>
Resolve(s, n) == Finish(s, n, job[s][n].fine)
Reject(s, n) == Finish(s, n, FALSE)

\* A call of a store fails before it has an effect: an answer that is lost
\* after the effect looks like the failure of the next call.
Fails == faults < MaxFaults /\ faults' = faults + 1
Works == UNCHANGED faults

\* Every call but s learns that someone else has written name n.
Disturb(s, n) == quiet' = [t \in Syncs |-> IF t = s THEN quiet[t] ELSE quiet[t] \ {n}]

-----------------------------------------------------------------------------
(* performFullSync, and the controller's calls of it.                      *)

\* Faulty variant: the flag is tested inside the try block.
RefuseInside(s) ==
    /\ pc[s] \in {"idle", "wiped"} /\ isSyncing
    /\ Goto(s, "finally")
    /\ Works /\ UNCHANGED <<stores, flags, adopting, edits, marks>>

Refuse(s) ==
    /\ pc[s] \in {"idle", "wiped"} /\ isSyncing
    /\ Goto(s, "ended")
    /\ Works /\ UNCHANGED <<stores, flags, adopting, edits, marks>>

\* Options are those of startFullSync, performDryRun and rebuildMappings.
Begin(s) ==
    /\ ~isSyncing
    /\ \/ pc[s] = "idle" /\ \E m \in {"plain", "dry", "force"} : mode' = [mode EXCEPT ![s] = m]
       \/ pc[s] = "wiped" /\ mode' = [mode EXCEPT ![s] = "rebuild"]
    /\ pc' = [pc EXCEPT ![s] = "log"]
    /\ isSyncing' = TRUE
    /\ quiet' = [quiet EXCEPT ![s] = Names]
    /\ Works /\ UNCHANGED <<stores, job, log, admin, overridden, leaked, adopting, edits,
                            touched, torn>>

\* rebuildMappings deletes every mapping, and then asks for a full sync.
Wipe(s) ==
    /\ pc[s] = "idle"
    /\ \/ /\ Works
          /\ mapping' = [n \in Names |-> None]
          /\ quiet' = [t \in Syncs |-> {}]
          /\ Goto(s, "wiped")
       \/ Fails /\ Goto(s, "ended") /\ UNCHANGED <<mapping, quiet>>
    /\ UNCHANGED <<kc, pg, flags, adopting, edits, touched, torn>>

\* createSyncLog is called after the flag is set and before the try block.
CreateSyncLog(s) ==
    /\ pc[s] = "log"
    /\ \/ /\ Works /\ Goto(s, "fetch")
          /\ log' = [log EXCEPT ![s] = "running"]
          /\ UNCHANGED leaked
       \/ Fails /\ Goto(s, "ended") /\ leaked' = TRUE /\ UNCHANGED log
    /\ UNCHANGED <<stores, isSyncing, admin, overridden, adopting, edits, marks>>

\* completeSyncLog(COMPLETED); what it throws is caught.
Close(s) ==
    /\ pc[s] = "close"
    /\ \/ Works /\ Goto(s, "finally") /\ log' = [log EXCEPT ![s] = "completed"]
       \/ Fails /\ Goto(s, "broken") /\ UNCHANGED log
    /\ UNCHANGED <<stores, isSyncing, admin, overridden, leaked, adopting, edits, marks>>

\* Faulty variant: the flag is cleared on the good path only.
CatchAndRethrow(s) ==
    /\ pc[s] = "broken"
    /\ Goto(s, "ended")
    /\ \/ Works /\ log' = [log EXCEPT ![s] = "failed"]
       \/ Fails /\ UNCHANGED log
    /\ UNCHANGED <<stores, isSyncing, admin, overridden, leaked, adopting, edits, marks>>

\* completeSyncLog(FAILED) in the catch block.
Catch(s) ==
    /\ pc[s] = "broken"
    /\ Goto(s, "finally")
    /\ \/ Works /\ log' = [log EXCEPT ![s] = "failed"]
       \/ Fails /\ UNCHANGED log
    /\ UNCHANGED <<stores, isSyncing, admin, overridden, leaked, adopting, edits, marks>>

\* The finally block; the call's local variables are gone.
Finally(s) ==
    /\ pc[s] = "finally"
    /\ pc' = [pc EXCEPT ![s] = "ended"]
    /\ mode' = [mode EXCEPT ![s] = "plain"]
    /\ job' = [job EXCEPT ![s] = [n \in Names |-> NoJob]]
    /\ isSyncing' = FALSE
    /\ quiet' = [quiet EXCEPT ![s] = {}]
    /\ Works /\ UNCHANGED <<stores, log, admin, overridden, leaked, adopting, edits,
                            touched, torn>>

-----------------------------------------------------------------------------
(* syncKeycloakToPostgres: the users of a batch are handled at once, and   *)
(* what one of them throws is noted.  Batches are taken to overlap.        *)

\* getAllKeycloakUsers.
Fetch(s) ==
    /\ pc[s] = "fetch"
    /\ \/ /\ Works
          /\ pc' = [pc EXCEPT ![s] = "pull"]
          /\ job' = [job EXCEPT ![s] =
                       [n \in Names |-> IF kc[n] = None THEN NoJob
                                        ELSE [NoJob EXCEPT !.at = "find", !.data = kc[n]]]]
          /\ UNCHANGED mode
       \/ Fails /\ Goto(s, "broken")
    /\ UNCHANGED <<stores, flags, adopting, edits, marks>>

\* A dry run settles where another call goes on to write.
Proceed(s, n, stage) == IF mode[s] = "dry" THEN Resolve(s, n) ELSE Await(s, n, stage)

Forced(s) == mode[s] \in {"force", "rebuild"}

\* Faulty variant: a name that has a mapping is taken to be up to date.
FindMapped(s, n) ==
    /\ job[s][n].at = "find"
    /\ \/ /\ Works
          /\ IF mapping[n] = None THEN Proceed(s, n, "create")
             ELSE IF ~Forced(s) THEN Resolve(s, n) ELSE Await(s, n, "row")
       \/ Fails /\ Reject(s, n)
    /\ UNCHANGED <<stores, flags, adopting, edits, marks>>

FindMapping(s, n) ==
    /\ job[s][n].at = "find"
    /\ \/ /\ Works
          /\ IF mapping[n] = None THEN Proceed(s, n, "create")
             ELSE IF mapping[n] = Digest(job[s][n].data) /\ ~Forced(s)
                  THEN Resolve(s, n) ELSE Await(s, n, "row")
       \/ Fails /\ Reject(s, n)
    /\ UNCHANGED <<stores, flags, adopting, edits, marks>>

FindRow(s, n) ==
    /\ job[s][n].at = "row"
    /\ \/ Works /\ Proceed(s, n, IF pg[n].stored THEN "update" ELSE "create")
       \/ Fails /\ Reject(s, n)
    /\ UNCHANGED <<stores, flags, adopting, edits, marks>>

\* Faulty variant: the mapping is brought up to date though the row is not.
UpdateOrNot(s, n) ==
    /\ job[s][n].at = "update"
    /\ Await(s, n, "remap")
    /\ \/ /\ Works
          /\ pg' = [pg EXCEPT ![n] = Row(Merged(job[s][n].data, pg[n].data), TRUE, TRUE)]
          /\ Disturb(s, n)
       \/ Fails /\ UNCHANGED <<pg, quiet>>
    /\ UNCHANGED <<kc, mapping, flags, adopting, edits, touched, torn>>

\* updateExistingUser: the data holds the keycloakId as well.
UpdateExistingUser(s, n) ==
    /\ job[s][n].at = "update"
    /\ \/ /\ Works /\ Await(s, n, "remap")
          /\ pg' = [pg EXCEPT ![n] = Row(Merged(job[s][n].data, pg[n].data), TRUE, TRUE)]
          /\ Disturb(s, n)
       \/ Fails /\ Reject(s, n) /\ UNCHANGED <<pg, quiet>>
    /\ UNCHANGED <<kc, mapping, flags, adopting, edits, touched, torn>>

\* syncMapping.update, by the mapping's id: a mapping that is gone is an error.
UpdateMapping(s, n) ==
    /\ job[s][n].at = "remap"
    /\ \/ /\ Works /\ mapping[n] # None
          /\ mapping' = [mapping EXCEPT ![n] = Digest(job[s][n].data)]
          /\ Resolve(s, n)
          /\ UNCHANGED torn
       \/ /\ IF mapping[n] = None THEN Works ELSE Fails
          /\ Reject(s, n)
          /\ torn' = torn \cup {n}
          /\ UNCHANGED mapping
    /\ UNCHANGED <<kc, pg, flags, adopting, edits, touched, quiet>>

\* Faulty variant: a user that could not be created is given its mapping.
CreateOrNot(s, n) ==
    /\ job[s][n].at = "create"
    /\ Await(s, n, "map")
    /\ \/ /\ Works /\ ~Taken(n)
          /\ pg' = [pg EXCEPT ![n] = Row(job[s][n].data, TRUE, TRUE)]
          /\ Disturb(s, n)
       \/ (IF Taken(n) THEN Works ELSE Fails) /\ UNCHANGED <<pg, quiet>>
    /\ UNCHANGED <<kc, mapping, flags, adopting, edits, touched, torn>>

\* createNewUser: createUser runs in a transaction of its own.
CreateNewUser(s, n) ==
    /\ job[s][n].at = "create"
    /\ \/ /\ Works /\ ~Taken(n)
          /\ pg' = [pg EXCEPT ![n] = Row(job[s][n].data, TRUE, TRUE)]
          /\ Disturb(s, n)
          /\ Await(s, n, "map")
       \/ /\ IF Taken(n) THEN Works ELSE Fails
          /\ Reject(s, n)
          /\ UNCHANGED <<pg, quiet>>
    /\ UNCHANGED <<kc, mapping, flags, adopting, edits, touched, torn>>

\* Faulty variant: the mapping holds the data and not its hash.
CreateRawMapping(s, n) ==
    /\ job[s][n].at \in {"map", "record"}
    /\ \/ /\ Works /\ mapping[n] = None
          /\ mapping' = [mapping EXCEPT ![n] = job[s][n].data]
          /\ Resolve(s, n)
       \/ /\ IF mapping[n] = None THEN Fails ELSE Works
          /\ Reject(s, n)
          /\ UNCHANGED mapping
    /\ UNCHANGED <<kc, pg, flags, adopting, edits, marks>>

\* syncMapping.create, from Keycloak or ("record") towards it; there the hash
\* is of the row as it was read, which no account's data has.
CreateMapping(s, n) ==
    /\ job[s][n].at \in {"map", "record"}
    /\ \/ /\ Works /\ mapping[n] = None
          /\ mapping' = [mapping EXCEPT ![n] =
                           IF job[s][n].at = "map" THEN Digest(job[s][n].data) ELSE RowHash]
          /\ Resolve(s, n)
       \/ /\ IF mapping[n] = None THEN Fails ELSE Works
          /\ Reject(s, n)
          /\ UNCHANGED mapping
    /\ UNCHANGED <<kc, pg, flags, adopting, edits, marks>>

Pulled(s) ==
    /\ pc[s] = "pull" /\ Settled(s, PullStages)
    /\ Goto(s, "rows")
    /\ Works /\ UNCHANGED <<stores, flags, adopting, edits, marks>>

-----------------------------------------------------------------------------
(* syncPostgresToKeycloak: one row after the other, as they were read.     *)

\* findMany: the rows without a keycloakId and those of the last hour.
FindRows(s) ==
    /\ pc[s] = "rows"
    /\ \/ /\ Works
          /\ pc' = [pc EXCEPT ![s] = "push"]
          /\ job' = [job EXCEPT ![s] =
                [n \in Names |->
                   IF pg[n].stored /\ (~pg[n].linked \/ pg[n].recent)
                   THEN [@[n] EXCEPT !.at = "push", !.data = pg[n].data, !.linked = pg[n].linked]
                   ELSE [@[n] EXCEPT !.at = "none"]]]
          /\ UNCHANGED mode
       \/ Fails /\ Goto(s, "broken")
    /\ UNCHANGED <<stores, flags, adopting, edits, marks>>

\* updateKeycloakUser for a row with a keycloakId; createKeycloakUser for one
\* without, which Keycloak refuses when the name is in use.
Push(s, n) ==
    LET refused == IF job[s][n].linked THEN kc[n] = None ELSE kc[n] # None
    IN  /\ job[s][n].at = "push"
        /\ Settled(s, {"link", "record"})
        /\ \/ /\ mode[s] = "dry" /\ Works
              /\ Resolve(s, n)
              /\ UNCHANGED <<kc, quiet>>
           \/ /\ mode[s] # "dry" /\ Works /\ ~refused
              /\ kc' = [kc EXCEPT ![n] = job[s][n].data]
              /\ Disturb(s, n)
              /\ IF job[s][n].linked THEN Resolve(s, n) ELSE Await(s, n, "link")
           \/ /\ mode[s] # "dry"
              /\ IF refused THEN Works ELSE Fails
              /\ Reject(s, n)
              /\ UNCHANGED <<kc, quiet>>
        /\ UNCHANGED <<pg, mapping, flags, adopting, edits, touched, torn>>

\* user.update writes the new account's id into the row.
Link(s, n) ==
    /\ job[s][n].at = "link"
    /\ \/ /\ Works /\ Await(s, n, "record")
          /\ pg' = [pg EXCEPT ![n].linked = TRUE, ![n].recent = TRUE]
          /\ Disturb(s, n)
       \/ Fails /\ Reject(s, n) /\ UNCHANGED <<pg, quiet>>
    /\ UNCHANGED <<kc, mapping, flags, adopting, edits, touched, torn>>

\* syncRolesAndOrganizations follows; it swallows what it throws.
Pushed(s) ==
    /\ pc[s] = "push" /\ Settled(s, PushStages)
    /\ Goto(s, "close")
    /\ Works /\ UNCHANGED <<stores, flags, adopting, edits, marks>>

-----------------------------------------------------------------------------
(* cancelRunningSync: a test, an updateMany, and the flag.                 *)

AskCancel ==
    /\ admin = "idle" /\ isSyncing
    /\ edits < MaxEdits /\ edits' = edits + 1
    /\ admin' = "asked"
    /\ Works /\ UNCHANGED <<stores, calls, log, isSyncing, overridden, leaked, adopting,
                            marks>>

MarkCancelled ==
    /\ admin = "asked"
    /\ \/ /\ Works /\ admin' = "marked"
          /\ log' = [s \in Syncs |-> IF log[s] = "running" THEN "cancelled" ELSE log[s]]
       \/ Fails /\ admin' = "idle" /\ UNCHANGED log
    /\ UNCHANGED <<stores, calls, isSyncing, overridden, leaked, adopting, edits, marks>>

ClearFlag ==
    /\ admin = "marked"
    /\ admin' = "idle"
    /\ isSyncing' = FALSE
    /\ overridden' = TRUE
    /\ Works /\ UNCHANGED <<stores, calls, log, leaked, adopting, edits, marks>>

-----------------------------------------------------------------------------
(* What else happens to the stores and to the process.                     *)

\* An account is created or changed in Keycloak.
WriteAccount(n) ==
    /\ edits < MaxEdits /\ edits' = edits + 1
    /\ \E d \in Data \ {kc[n]} : kc' = [kc EXCEPT ![n] = d]
    /\ Disturb(None, n)
    /\ Works /\ UNCHANGED <<pg, mapping, calls, flags, adopting, touched, torn>>

\* AuthService: registerUser and getUserInfo start a creation in the
\* background, from part of what Keycloak knows and with enabled set.
StartAdoption(n) ==
    /\ kc[n] # None /\ n \notin adopting
    /\ edits < MaxEdits /\ edits' = edits + 1
    /\ adopting' = adopting \cup {n}
    /\ Works /\ UNCHANGED <<stores, calls, flags, marks>>

Adopt(n) ==
    /\ n \in adopting
    /\ adopting' = adopting \ {n}
    /\ \/ /\ Works /\ ~Taken(n)
          /\ \E d \in Data : pg' = [pg EXCEPT ![n] = Row(d, TRUE, TRUE)]
          /\ Disturb(None, n)
       \/ (IF Taken(n) THEN Works ELSE Fails) /\ UNCHANGED <<pg, quiet>>
    /\ UNCHANGED <<kc, mapping, calls, flags, edits, touched, torn>>

\* PostgresUserService.createUser without a keycloakId, and updateUser.
CreateUser(n) ==
    /\ edits < MaxEdits /\ edits' = edits + 1
    /\ ~Taken(n)
    /\ \E d \in Data : pg' = [pg EXCEPT ![n] = Row(d, FALSE, TRUE)]
    /\ Disturb(None, n)
    /\ Works /\ UNCHANGED <<kc, mapping, calls, flags, adopting, touched, torn>>

UpdateUser(n) ==
    /\ edits < MaxEdits /\ edits' = edits + 1
    /\ pg[n].stored
    /\ \E d \in Data : pg' = [pg EXCEPT ![n].data = d, ![n].recent = TRUE]
    /\ touched' = touched \cup {n}
    /\ Disturb(None, n)
    /\ Works /\ UNCHANGED <<kc, mapping, calls, flags, adopting, torn>>

\* deleteSyncMapping of the controller.
DeleteMapping(n) ==
    /\ edits < MaxEdits /\ edits' = edits + 1
    /\ mapping[n] # None
    /\ mapping' = [mapping EXCEPT ![n] = None]
    /\ Disturb(None, n)
    /\ Works /\ UNCHANGED <<kc, pg, calls, flags, adopting, touched, torn>>

HourPasses(n) ==
    /\ pg[n].recent
    /\ pg' = [pg EXCEPT ![n].recent = FALSE]
    /\ Works /\ UNCHANGED <<kc, mapping, calls, flags, adopting, edits, marks>>

\* The process stops and starts again: what it held in memory is gone.
Restart ==
    /\ Fails
    /\ isSyncing \/ adopting # {} \/ \E s \in Syncs : Active(s)
    /\ pc' = [s \in Syncs |-> IF pc[s] = "idle" THEN "idle" ELSE "ended"]
    /\ job' = [s \in Syncs |-> [n \in Names |-> NoJob]]
    /\ torn' = torn \cup {n \in Names : \E s \in Syncs : job[s][n].at = "remap"}
    /\ isSyncing' = FALSE /\ leaked' = FALSE /\ admin' = "idle" /\ adopting' = {}
    /\ quiet' = [s \in Syncs |-> {}]
    /\ mode' = [s \in Syncs |-> "plain"]
    /\ UNCHANGED <<stores, log, overridden, edits, touched>>

-----------------------------------------------------------------------------

Init ==
    /\ kc \in [Names -> Data \cup {None}]
    /\ pg \in [Names -> {NoRow} \cup {Row(d, FALSE, FALSE) : d \in Data}]
    /\ \A m, n \in Mailless : pg[m].stored /\ pg[n].stored => m = n
    /\ mapping = [n \in Names |-> None]
    /\ log = [s \in Syncs |-> "none"]
    /\ isSyncing = FALSE
    /\ pc = [s \in Syncs |-> "idle"]
    /\ mode = [s \in Syncs |-> "plain"]
    /\ job = [s \in Syncs |-> [n \in Names |-> NoJob]]
    /\ admin = "idle"
    /\ adopting = {}
    /\ edits = 0 /\ faults = 0
    /\ touched = {} /\ torn = {}
    /\ overridden = FALSE /\ leaked = FALSE
    /\ quiet = [s \in Syncs |-> {}]

Pull(s, n) ==
    \/ FindMapping(s, n) \/ FindRow(s, n)
    \/ UpdateExistingUser(s, n) \/ UpdateMapping(s, n)
    \/ CreateNewUser(s, n)

Step(s) ==
    \/ Wipe(s) \/ Refuse(s) \/ Begin(s) \/ CreateSyncLog(s)
    \/ Fetch(s) \/ Pulled(s) \/ FindRows(s) \/ Pushed(s)
    \/ Close(s) \/ Catch(s) \/ Finally(s)
    \/ \E n \in Names : Pull(s, n) \/ CreateMapping(s, n) \/ Push(s, n) \/ Link(s, n)

Outside ==
    \/ AskCancel \/ MarkCancelled \/ ClearFlag
    \/ \E n \in Names : \/ WriteAccount(n) \/ StartAdoption(n) \/ Adopt(n)
                        \/ CreateUser(n) \/ UpdateUser(n) \/ DeleteMapping(n)
                        \/ HourPasses(n)
    \/ Restart

Next == Outside \/ \E s \in Syncs : Step(s)

Spec == Init /\ [][Next]_vars

-----------------------------------------------------------------------------
(* Properties.                                                             *)

TypeOfStores ==
    /\ kc \in [Names -> Data \cup {None}]
    /\ pg \in [Names -> Rows]
    /\ mapping \in [Names -> Core \cup {RowHash, None}]

TypeOfCalls ==
    /\ pc \in [Syncs -> PCs]
    /\ mode \in [Syncs -> Modes]
    /\ job \in [Syncs -> [Names -> Jobs]]

TypeOfFlags ==
    /\ log \in [Syncs -> Statuses]
    /\ isSyncing \in BOOLEAN /\ overridden \in BOOLEAN /\ leaked \in BOOLEAN
    /\ admin \in {"idle", "asked", "marked"}

TypeOfMarks ==
    /\ adopting \subseteq Names /\ touched \subseteq Names /\ torn \subseteq Names
    /\ quiet \in [Syncs -> SUBSET Names]

TypeOfBounds == edits \in 0 .. MaxEdits /\ faults \in 0 .. MaxFaults

\* Types of the variables.
TypeOK == TypeOfStores /\ TypeOfCalls /\ TypeOfFlags /\ TypeOfMarks /\ TypeOfBounds

\* Two synchronisations never run at once, whatever fails and however calls
\* are refused, as long as no administrator has cancelled one (line 73).
OneAtATime ==
    ~overridden => \A s, t \in Syncs : Active(s) /\ Active(t) => s = t

\* A call that is refused with "Sync already in progress" is refused because
\* of one (line 74): unless a cancellation interfered, or the entry of the log
\* could not be created, the flag is up exactly while a call is at work.
FlagTells ==
    ~overridden /\ ~leaked => (isSyncing <=> \E s \in Syncs : Active(s))

\* A mapping is never left pointing at nothing (validateDataIntegrity counts
\* such orphans as errors): its row exists, holds the account's id, and the
\* account exists, at every instant and after any failure.
NoOrphans ==
    \A n \in Names : mapping[n] # None => kc[n] # None /\ pg[n].stored /\ pg[n].linked

\* The hash of a mapping tells what its row holds, so that a synchronisation
\* that finds nothing new in the account may pass over it (line 233): each
\* column has the value that was hashed, but for those the account had cleared,
\* which keep what they had.  For rows nobody else has written, whose mapping
\* was not lost or cut off between the two updates, and while no cancelled call
\* goes on beside another.
HashTellsRow ==
    \A n \in Names :
        /\ mapping[n] \in Core /\ ~overridden
        /\ n \notin touched \cup torn
        /\ \A s \in Syncs : job[s][n].at # "remap"
        => Carries(pg[n].data, mapping[n])

\* After a call that handled a name without an error, while nobody else wrote
\* it, the row has every column of the account that is not cleared there; and if
\* the row was pushed back, whatever the account had cleared is there again, and
\* the two are equal as far as the hash can see.  A row that updateUser changed
\* must have been changed within the hour.
SyncCatchesUp ==
    \A s \in Syncs, n \in Names :
        /\ pc[s] = "close" /\ mode[s] # "dry" /\ ~overridden
        /\ n \in quiet[s] /\ job[s][n].fine
        /\ kc[n] # None \/ pg[n].stored
        /\ n \notin touched \cup torn \/ job[s][n].at = "done"
        => /\ kc[n] # None /\ pg[n].stored
           /\ Carries(pg[n].data, Digest(kc[n]))
           /\ job[s][n].at = "done" => Digest(kc[n]) = Digest(pg[n].data)

\* "Recréer tous les mappings" (sync-admin.controller.ts:331): when a rebuild
\* has answered and nothing failed, every account with a row has its mapping.
RebuildRestores ==
    \A s \in Syncs, n \in Names :
        /\ pc[s] = "close" /\ mode[s] = "rebuild" /\ faults = 0
        /\ n \in quiet[s] /\ kc[n] # None /\ pg[n].linked
        => mapping[n] # None
=============================================================================
