------------------------------ MODULE Recovery ------------------------------
(***************************************************************************)
(* Backup codes and trusted devices: the rest of MFAServiceImpl of         *)
(* smp-auth-ts, under the keys that Mfa leaves aside, with the routes.     *)
(*                                                                         *)
(* A call goes from one await to the next.  A call of Redis that fails     *)
(* throws, and a write that throws may have been carried out; the calls on *)
(* sets swallow their failure.  The keys of two users are disjoint: one    *)
(* user stands for all.                                                    *)
(***************************************************************************)
EXTENDS Naturals

CONSTANTS
    Calls,         \* calls in progress
    Codes,         \* the codes of a set: ten
    Devices,       \* identifiers the generator may draw
    Prints,        \* fingerprints
    None,
    MaxSets,       \* bound: sets of codes that are generated
    RedisMayFail,  \* may a call of Redis fail?
    Works          \* bound: what one behaviour does: "codes" or "devices"

ASSUME NoneAssumption == None \notin Codes \cup Devices \cup Prints
ASSUME BoundsAssumption ==
    MaxSets \in Nat /\ RedisMayFail \in BOOLEAN /\ Works \subseteq {"codes", "devices"}

VARIABLES
    backup,      \* mfa:backup_codes:<user>
    sets,        \* how many sets of codes were drawn
    newest,      \* history: the set that was generated last, 0 for none
    held,        \* history: sets of which a call held a copy when they were replaced
    passed,      \* history: codes that passed
    repeated,    \* history: those that passed again
    mixed,       \* history: sets of which two calls held a copy at once
    device,      \* mfa:device:<id>
    listed,      \* mfa:user:<user>:devices
    print,       \* the fingerprint of each device, None before it is drawn
    past,        \* devices whose expiresAt is past
    revoked,     \* history: devices whose revocation was answered
    raced,       \* history: devices deleted while a call held a copy of them
    calls,
    work         \* bound

codes == <<backup, sets, newest, held, passed, repeated>>
devices == <<device, listed, print, past, revoked>>
vars == <<codes, devices, mixed, raced, calls, work>>

NoCodes == [set |-> 0, used |-> {}]

\* A device is written with a time to live ("lapsing") or without ("lasting").
Kept == {"no", "lapsing", "lasting"}

Idle == [op |-> "none", stage |-> "idle",
         set |-> 0, code |-> None, used |-> {},          \* a code, and the set as read
         device |-> None, print |-> None, todo |-> {},   \* a device, those to be read
         barred |-> {}]          \* history: what was revoked when the call began

\* What a call awaits.
Stages == {"idle", "writing", "loading", "marking", "storing", "listing", "indexing",
           "reading", "touching", "looking", "deleting", "unlisting"}
Call == [op : {"none", "generate", "use", "trust", "check", "list", "revoke"},
         stage : Stages, set : 0..MaxSets, code : Codes \cup {None}, used : SUBSET Codes,
         device : Devices \cup {None}, print : Prints \cup {None},
         todo : SUBSET Devices, barred : SUBSET Devices]

Become(i, q) == calls' = [calls EXCEPT ![i] = q]
Goto(i, stage) == Become(i, [calls[i] EXCEPT !.stage = stage])
End(i) == Become(i, Idle)
At(i, stage) == calls[i].stage = stage

Begin(i, w, q) == work = w /\ At(i, "idle") /\ Become(i, q)

\* The call throws.
Throw(i) == RedisMayFail /\ End(i)

----------------------------------------------------------------------------
(* Backup codes.                                                           *)

\* generateBackupCodes, for a user or at the end of the set-up of a second
\* authenticator, whose answer leaves the codes out.
\* Bound: no more than MaxSets.
StartGenerate(i) ==
    /\ sets < MaxSets
    /\ sets' = sets + 1
    /\ Begin(i, "codes", [Idle EXCEPT !.op = "generate", !.stage = "writing", !.set = sets + 1])
    /\ UNCHANGED <<backup, newest, held, passed, repeated, devices>>

\* The new set replaces what is stored, whether the answer arrives or not.
Generate(i) ==
    /\ At(i, "writing")
    /\ \/ /\ backup' = [set |-> calls[i].set, used |-> {}]
          /\ newest' = calls[i].set
          /\ held' = held \cup {calls[j].set : j \in {j \in Calls : At(j, "marking")}}
          /\ End(i)
       \/ Throw(i) /\ UNCHANGED <<backup, newest, held>>
    /\ UNCHANGED <<sets, passed, repeated, devices>>

\* useBackupCode, with a code of any set drawn so far.
StartUse(i) ==
    /\ \E s \in 1..sets, k \in Codes :
          Begin(i, "codes", [Idle EXCEPT !.op = "use", !.stage = "loading", !.set = s, !.code = k])
    /\ UNCHANGED <<codes, devices>>

\* Faulty variant: a used code is found like any other.
LoadUnchecked(i) ==
    /\ At(i, "loading")
    /\ IF backup.set = calls[i].set
       THEN Become(i, [calls[i] EXCEPT !.stage = "marking", !.used = backup.used])
       ELSE End(i)
    /\ UNCHANGED <<codes, devices>>

\* Faulty variant: the code is only looked for among those used.
LoadUnlisted(i) ==
    /\ At(i, "loading")
    /\ \/ /\ calls[i].code \notin (IF backup.set = calls[i].set THEN backup.used ELSE {})
          /\ Become(i, [calls[i] EXCEPT !.stage = "marking", !.used = backup.used])
       \/ End(i)
    /\ UNCHANGED <<codes, devices>>

\* The code is looked for among those stored and those used.
Load(i) ==
    /\ At(i, "loading")
    /\ \/ /\ backup.set = calls[i].set /\ calls[i].code \notin backup.used
          /\ Become(i, [calls[i] EXCEPT !.stage = "marking", !.used = backup.used])
       \/ /\ backup.set # calls[i].set \/ calls[i].code \in backup.used \/ RedisMayFail
          /\ End(i)
    /\ UNCHANGED <<codes, devices>>

\* What was read is written back with the mark, over a set generated meanwhile.
Mark(i) ==
    /\ At(i, "marking")
    /\ LET s == calls[i].set
           k == calls[i].code
           Write == backup' = [set |-> s, used |-> calls[i].used \cup {k}] IN
       \/ /\ Write
          /\ passed' = passed \cup {<<s, k>>}
          /\ repeated' = repeated \cup ({<<s, k>>} \cap passed)
          /\ End(i)
       \/ /\ Throw(i)
          /\ (Write \/ UNCHANGED backup)
          /\ UNCHANGED <<passed, repeated>>
    /\ UNCHANGED <<sets, newest, held, devices>>

----------------------------------------------------------------------------
(* Trusted devices.                                                        *)

\* trustDevice, for a user or at the end of verifyMFAChallenge.
StartTrust(i) ==
    /\ \E d \in Devices, p \in Prints :
          /\ print[d] = None
          /\ print' = [print EXCEPT ![d] = p]
          /\ Begin(i, "devices", [Idle EXCEPT !.op = "trust", !.stage = "storing", !.device = d])
    /\ UNCHANGED <<codes, device, listed, past, revoked>>

Store(i) ==
    /\ At(i, "storing")
    /\ \/ device' = [device EXCEPT ![calls[i].device] = "lapsing"] /\ Goto(i, "listing")
       \/ /\ Throw(i)
          /\ \/ device' = [device EXCEPT ![calls[i].device] = "lapsing"]
             \/ UNCHANGED device
    /\ UNCHANGED <<codes, listed, print, past, revoked>>

Enlist(i) ==
    /\ At(i, "listing")
    /\ \/ listed' = listed \cup {calls[i].device}
       \/ RedisMayFail /\ UNCHANGED listed
    /\ End(i)
    /\ UNCHANGED <<codes, device, print, past, revoked>>

\* isDeviceTrusted, before the challenge of a login; getTrustedDevices.
StartCheck(i) ==
    /\ \E p \in Prints :
          Begin(i, "devices", [Idle EXCEPT !.op = "check", !.stage = "indexing",
                                           !.print = p, !.barred = revoked])
    /\ UNCHANGED <<codes, devices>>

StartList(i) ==
    /\ Begin(i, "devices", [Idle EXCEPT !.op = "list", !.stage = "indexing"])
    /\ UNCHANGED <<codes, devices>>

\* The loop over the devices goes on, or the call answers.
NextDevice(q) ==
    IF q.todo = {} THEN Idle ELSE [q EXCEPT !.stage = "reading", !.device = None]

Index(i) ==
    /\ At(i, "indexing")
    /\ \E found \in {listed} \cup (IF RedisMayFail THEN {{}} ELSE {}) :
          Become(i, NextDevice([calls[i] EXCEPT !.todo = found]))
    /\ UNCHANGED <<codes, devices>>

\* A check ends at the first device that matches and is in time; a list
\* revokes those that are not in time.
ReadDevice(i) ==
    /\ At(i, "reading")
    /\ \/ \E d \in calls[i].todo :
          LET q == [calls[i] EXCEPT !.todo = @ \ {d}, !.device = d]
              found == device[d] # "no"
              trusted == q.op = "check" /\ found /\ print[d] = q.print /\ d \notin past
              overdue == q.op = "list" /\ found /\ d \in past IN
          \/ trusted /\ Become(i, [q EXCEPT !.stage = "touching", !.todo = {}])
          \/ overdue /\ Become(i, [q EXCEPT !.stage = "looking"])
          \/ ~trusted /\ ~overdue /\ Become(i, NextDevice(q))
       \/ Throw(i)
    /\ UNCHANGED <<codes, devices>>

\* lastUsedAt is written without a time to live; then the device is trusted.
Touch(i) ==
    /\ At(i, "touching")
    /\ \/ device' = [device EXCEPT ![calls[i].device] = "lasting"]
       \/ RedisMayFail /\ UNCHANGED device
    /\ End(i)
    /\ UNCHANGED <<codes, listed, print, past, revoked>>

\* revokeTrustedDevice, of a device that was drawn.
StartRevoke(i) ==
    /\ \E d \in Devices :
          /\ print[d] # None /\ \A j \in Calls : calls[j].op = "trust" => calls[j].device # d
          /\ Begin(i, "devices", [Idle EXCEPT !.op = "revoke", !.stage = "looking", !.device = d])
    /\ UNCHANGED <<codes, devices>>

\* A revocation ends; a list goes on.
Revoked(i) ==
    /\ Become(i, IF calls[i].op = "list" THEN NextDevice(calls[i]) ELSE Idle)
    /\ revoked' = revoked \cup {calls[i].device}

Look(i) ==
    /\ At(i, "looking")
    /\ \/ device[calls[i].device] # "no" /\ Goto(i, "deleting") /\ UNCHANGED revoked
       \/ device[calls[i].device] = "no" /\ Revoked(i)
       \/ Throw(i) /\ UNCHANGED revoked
    /\ UNCHANGED <<codes, device, listed, print, past>>

\* Faulty variant: the device is only taken off the list.
DeleteNothing(i) ==
    /\ At(i, "deleting")
    /\ Goto(i, "unlisting")
    /\ UNCHANGED <<codes, devices>>

\* Faulty variant: the device is taken off the list first.
DeleteUnlisted(i) ==
    /\ At(i, "deleting")
    /\ listed' = listed \ {calls[i].device}
    /\ \/ device' = [device EXCEPT ![calls[i].device] = "no"] /\ Revoked(i)
       \/ Throw(i) /\ UNCHANGED <<device, revoked>>
    /\ UNCHANGED <<codes, print, past>>

Delete(i) ==
    /\ At(i, "deleting")
    /\ \/ device' = [device EXCEPT ![calls[i].device] = "no"] /\ Goto(i, "unlisting")
       \/ /\ Throw(i)
          /\ \/ device' = [device EXCEPT ![calls[i].device] = "no"]
             \/ UNCHANGED device
    /\ UNCHANGED <<codes, listed, print, past, revoked>>

Unlist(i) ==
    /\ At(i, "unlisting")
    /\ \/ listed' = listed \ {calls[i].device}
       \/ RedisMayFail /\ UNCHANGED listed
    /\ Revoked(i)
    /\ UNCHANGED <<codes, device, print, past>>

----------------------------------------------------------------------------
(* Time.                                                                   *)

\* The codes live for a year.
LapseCodes ==
    /\ backup.set # 0
    /\ backup' = NoCodes
    /\ UNCHANGED <<sets, newest, held, passed, repeated, devices, calls>>

\* The key of a device has the time to live of expiresAt, unless a check has
\* written it again.
Deadline(d) ==
    /\ print[d] # None /\ d \notin past
    /\ past' = past \cup {d}
    /\ device' = [device EXCEPT ![d] = IF @ = "lapsing" THEN "no" ELSE @]
    /\ UNCHANGED <<codes, listed, print, revoked, calls>>

----------------------------------------------------------------------------
(* The overlaps, as history.                                               *)

Marks(i, s) == At(i, "marking") /\ calls[i].set = s

\* Device d is deleted by the step while a check is about to write its copy.
Races(d) ==
    /\ device[d] # "no" /\ device'[d] = "no"
    /\ \E i \in Calls : At(i, "touching") /\ calls[i].device = d

History ==
    /\ mixed' = mixed \cup {s \in 1..MaxSets :
                              (\E i, j \in Calls : i # j /\ Marks(i, s) /\ Marks(j, s))'}
    /\ raced' = raced \cup {d \in Devices : Races(d)}
    /\ UNCHANGED work

Init ==
    /\ backup = NoCodes /\ sets = 0 /\ newest = 0
    /\ held = {} /\ passed = {} /\ repeated = {} /\ mixed = {}
    /\ device = [d \in Devices |-> "no"] /\ listed = {}
    /\ print = [d \in Devices |-> None] /\ past = {}
    /\ revoked = {} /\ raced = {}
    /\ calls = [i \in Calls |-> Idle]
    /\ work \in Works

----------------------------------------------------------------------------
(* The routes, and the calls of the library that mu-auth exposes.          *)

BackupCodesRoutes(i) == StartGenerate(i)
DeviceRoutes(i) == StartTrust(i) \/ StartRevoke(i)
\* The queries getTrustedDevices and isDeviceTrusted both list the devices.
DeviceQueries(i) == StartList(i)
LoginWithMFA(i) == StartCheck(i)
Arrive(i) ==
    \/ BackupCodesRoutes(i) \/ StartUse(i)
    \/ DeviceRoutes(i) \/ DeviceQueries(i) \/ LoginWithMFA(i)

Advance(i) ==
    \/ Generate(i) \/ Load(i) \/ Mark(i)
    \/ Store(i) \/ Enlist(i) \/ Index(i) \/ ReadDevice(i) \/ Touch(i)
    \/ Look(i) \/ Delete(i) \/ Unlist(i)

Time == LapseCodes \/ \E d \in Devices : Deadline(d)

Next == ((\E i \in Calls : Arrive(i) \/ Advance(i)) \/ Time) /\ History

Spec == Init /\ [][Next]_vars

----------------------------------------------------------------------------
(* Properties.                                                             *)

TypeOK ==
    /\ backup \in [set : 0..MaxSets, used : SUBSET Codes]
    /\ sets \in 0..MaxSets /\ newest \in 0..MaxSets
    /\ held \in SUBSET (1..MaxSets)
    /\ passed \in SUBSET ((1..MaxSets) \X Codes) /\ repeated \in SUBSET passed
    /\ mixed \in SUBSET (1..MaxSets)
    /\ device \in [Devices -> Kept]
    /\ print \in [Devices -> Prints \cup {None}]
    /\ {listed, past, revoked, raced} \subseteq SUBSET Devices
    /\ calls \in [Calls -> Call]
    /\ work \in Works

\* useBackupCode: a code passes once, whatever fails, is generated or lapses,
\* unless two calls held copies of its set at the same time.
CodePassesOnce == \A c \in repeated : c[1] \in mixed

\* generateBackupCodes: when a set has replaced another, no code of the other
\* passes, whatever fails, lapses, or is written after: a use that was under way
\* writes the old set back, but only a call that held a copy of it at the
\* replacement can begin that.
ReplacedIsRefused ==
    \A i \in Calls : At(i, "marking") => calls[i].set \in {newest} \cup held

\* revokeTrustedDevice: a login that begins after a revocation was answered
\* does not find the device trusted, even when the list could not be written,
\* unless a login was about to write the device when it was deleted.
RevokedIsRefused ==
    \A i \in Calls : At(i, "touching") => calls[i].device \notin calls[i].barred \ raced

\* isDeviceTrusted takes the time to live off: a device that stays until it is
\* deleted is on the list that getTrustedDevices clears, unless the same race stored
\* it again.
NothingForgotten == \A d \in Devices : device[d] = "lasting" => d \in listed \cup raced
=============================================================================
