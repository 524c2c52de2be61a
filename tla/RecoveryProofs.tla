--------------------------- MODULE RecoveryProofs ---------------------------
(***************************************************************************)
(* Theorems about Recovery, for every value of its constants: its types,   *)
(* and its four properties.                                                *)
(***************************************************************************)
EXTENDS Recovery, TLAPS

-----------------------------------------------------------------------------
(* The inductive invariant.                                                *)

Trusting == {"storing", "listing"}
Naming == {"storing", "listing", "touching", "looking", "deleting", "unlisting"}
Coding == {"writing", "loading", "marking"}

\* A call has what its stage needs.
Fits(q) ==
    /\ q.stage = "writing" => q.op = "generate"
    /\ q.stage \in Coding => q.set \in 1..sets
    /\ q.stage \in {"loading", "marking"} => q.code \in Codes
    /\ q.stage \in Naming => q.device \in Devices
    /\ q.op = "trust" <=> q.stage \in Trusting

Fitting ==
    /\ backup.set <= sets
    /\ \A c \in passed : c[1] <= sets
    /\ \A i \in Calls : Fits(calls[i])

TInv == TypeOK /\ Fitting

\* A set that is not written yet is with one call, and none of its codes passed.
WritersApart ==
    \A i \in Calls : At(i, "writing") =>
        /\ backup.set # calls[i].set
        /\ \A c \in passed : c[1] # calls[i].set
        /\ \A j \in Calls : At(j, "marking") \/ (At(j, "writing") /\ j # i) =>
               calls[j].set # calls[i].set

\* Unless two calls held a copy of its set, a code that passed is among those
\* used, where the set is stored and where a call is about to store it.
PassedIsUsed ==
    /\ \A i, j \in Calls : Marks(i, calls[i].set) /\ Marks(j, calls[i].set) /\ i # j =>
           calls[i].set \in mixed
    /\ \A i \in Calls : At(i, "marking") => calls[i].code \notin calls[i].used
    /\ \A c \in passed : c[1] \notin mixed =>
           /\ backup.set = c[1] => c[2] \in backup.used
           /\ \A i \in Calls : Marks(i, c[1]) => c[2] \in calls[i].used

\* A set that is stored, or about to be, has not been replaced, or was held.
StoredIsNew == backup.set \in {0, newest} \cup held
NewInv == StoredIsNew /\ ReplacedIsRefused

CInv == WritersApart /\ PassedIsUsed /\ CodePassesOnce /\ NewInv

\* A device that a call is about to store for the first time is its own.
Apart(i, d) ==
    /\ d \notin listed \cup revoked
    /\ \A j \in Calls \ {i} : calls[j].device # d
    /\ \A j \in Calls : d \notin calls[j].todo

NewDevices ==
    /\ \A i \in Calls : calls[i].stage \in Trusting => Apart(i, calls[i].device)
    /\ \A d \in Devices : print[d] = None =>
           /\ Apart(None, d) /\ device[d] = "no"
           /\ \A i \in Calls : calls[i].device # d

\* What was deleted stays away, but for a check that was about to write it.
Away(d) == device[d] = "no" \/ d \in raced
RevokedIsAway ==
    /\ \A d \in revoked : Away(d)
    /\ \A i \in Calls : At(i, "unlisting") => Away(calls[i].device)
    /\ \A i \in Calls : calls[i].barred \subseteq revoked

\* A check is about to write a device that is there, and that is listed.
TouchedIsThere ==
    /\ \A i \in Calls : At(i, "touching") =>
           /\ device[calls[i].device] # "no" \/ calls[i].device \in raced
           /\ calls[i].device \in listed \cup raced
    /\ \A i \in Calls : \A d \in calls[i].todo : d \in listed \/ Away(d)

DInv == NewDevices /\ RevokedIsAway /\ TouchedIsThere /\ NothingForgotten

-----------------------------------------------------------------------------
(* Calls, by what changes in them.                                         *)

Only(i) ==
    /\ calls' \in [Calls -> Call]
    /\ \A j \in Calls \ {i} : calls'[j] = calls[j]

LEMMA IdleFields ==
    /\ Idle \in Call
    /\ Idle.op = "none" /\ Idle.stage = "idle" /\ Idle.set = 0 /\ Idle.code = None
    /\ Idle.used = {} /\ Idle.device = None /\ Idle.print = None /\ Idle.todo = {}
    /\ Idle.barred = {}
<1>1. 0 \in 0..MaxSets
  BY BoundsAssumption
<1> QED BY <1>1 DEF Idle, Call, Stages

LEMMA Becoming ==
    ASSUME TypeOK, NEW i \in Calls, NEW q \in Call, Become(i, q)
    PROVE  Only(i) /\ calls'[i] = q
BY DEF TypeOK, Become, Only

LEMMA Ending ==
    ASSUME TypeOK, NEW i \in Calls, End(i)
    PROVE  Only(i) /\ calls'[i] = Idle
BY IdleFields, Becoming DEF End

LEMMA Going ==
    ASSUME TypeOK, NEW i \in Calls, NEW stage \in Stages, Goto(i, stage)
    PROVE  /\ Only(i)
           /\ calls'[i].stage = stage /\ calls'[i].op = calls[i].op
           /\ calls'[i].set = calls[i].set /\ calls'[i].code = calls[i].code
           /\ calls'[i].used = calls[i].used /\ calls'[i].device = calls[i].device
           /\ calls'[i].print = calls[i].print /\ calls'[i].todo = calls[i].todo
           /\ calls'[i].barred = calls[i].barred
<1> DEFINE q == [calls[i] EXCEPT !.stage = stage]
<1>1. calls[i] \in Call
  BY DEF TypeOK
<1>2. /\ q \in Call
      /\ q.stage = stage /\ q.op = calls[i].op
      /\ q.set = calls[i].set /\ q.code = calls[i].code
      /\ q.used = calls[i].used /\ q.device = calls[i].device
      /\ q.print = calls[i].print /\ q.todo = calls[i].todo
      /\ q.barred = calls[i].barred
  BY <1>1 DEF Call
<1>3. Become(i, q)
  BY DEF Goto
<1> HIDE DEF q
<1> QED BY <1>2, <1>3, Becoming

\* A call that goes on with the list of devices.
LEMMA Nexting ==
    ASSUME NEW q \in Call
    PROVE  /\ NextDevice(q) \in Call
           /\ NextDevice(q).stage \in {"idle", "reading"}
           /\ NextDevice(q).op \in {"none", q.op} /\ NextDevice(q).device = None
           /\ NextDevice(q).op = "none" => NextDevice(q).stage = "idle" \/ q.op = "none"
           /\ NextDevice(q).todo = q.todo
           /\ NextDevice(q).barred \in {{}, q.barred}
<1>1. CASE q.todo = {}
  BY <1>1, IdleFields DEF NextDevice
<1>2. CASE q.todo # {}
  <2> DEFINE v == [q EXCEPT !.stage = "reading", !.device = None]
  <2>1. v \in Call /\ v.stage = "reading" /\ v.op = q.op /\ v.device = None
        /\ v.todo = q.todo /\ v.barred = q.barred
    BY DEF Call, Stages
  <2>2. NextDevice(q) = v
    BY <1>2 DEF NextDevice
  <2> HIDE DEF v
  <2> QED BY <2>1, <2>2
<1> QED BY <1>1, <1>2

LEMMA Histories ==
    ASSUME TypeOK, History
    PROVE  /\ mixed \subseteq mixed' /\ mixed' \in SUBSET (1..MaxSets)
           /\ \A i, j \in Calls :
                  /\ i # j /\ calls'[i].stage = "marking" /\ calls'[j].stage = "marking"
                  /\ calls'[i].set = calls'[j].set /\ calls'[i].set \in 1..MaxSets
                  => calls'[i].set \in mixed'
           /\ raced \subseteq raced' /\ raced' \in SUBSET Devices
           /\ \A i \in Calls, d \in Devices :
                  /\ device[d] # "no" /\ device'[d] = "no"
                  /\ At(i, "touching") /\ calls[i].device = d
                  => d \in raced'
           /\ work' \in Works
<1>1. /\ mixed \subseteq mixed' /\ mixed' \in SUBSET (1..MaxSets)
      /\ \A i, j \in Calls :
             /\ i # j /\ calls'[i].stage = "marking" /\ calls'[j].stage = "marking"
             /\ calls'[i].set = calls'[j].set /\ calls'[i].set \in 1..MaxSets
             => calls'[i].set \in mixed'
  BY DEF History, Marks, At, TypeOK
<1>2. /\ raced \subseteq raced' /\ raced' \in SUBSET Devices
      /\ \A i \in Calls, d \in Devices :
             /\ device[d] # "no" /\ device'[d] = "no"
             /\ At(i, "touching") /\ calls[i].device = d
             => d \in raced'
  BY DEF History, Races, At, TypeOK
<1> QED BY <1>1, <1>2 DEF History, TypeOK

-----------------------------------------------------------------------------
(* What each step does.                                                    *)

\* A call begins about codes, or goes on, with no device of its own.
Bare(i) == calls'[i].device = None /\ calls'[i].todo = {} /\ calls'[i].barred = {}

LEMMA Generating ==
    ASSUME TInv, NEW i \in Calls, StartGenerate(i)
    PROVE  /\ Only(i) /\ Bare(i) /\ calls'[i].stage = "writing"
           /\ calls'[i].op = "generate" /\ calls'[i].set = sets'
           /\ sets' = sets + 1 /\ sets' \in 1..MaxSets
           /\ UNCHANGED <<backup, newest, held, passed, repeated, devices>>
<1>1. sets' = sets + 1 /\ sets' \in 1..MaxSets
  BY BoundsAssumption DEF StartGenerate, TInv, TypeOK
<1> DEFINE q == [Idle EXCEPT !.op = "generate", !.stage = "writing", !.set = sets + 1]
<1>2. Become(i, q)
  BY DEF StartGenerate, Begin
<1>a. sets + 1 \in 0..MaxSets
  BY <1>1, BoundsAssumption
<1>3. q \in Call /\ q.stage = "writing" /\ q.op = "generate" /\ q.set = sets + 1 /\ q.device = None
      /\ q.todo = {} /\ q.barred = {}
  BY <1>a DEF Idle, Call, Stages
<1> HIDE DEF q
<1>4. Only(i) /\ calls'[i] = q
  BY <1>2, <1>3, Becoming DEF TInv
<1> QED BY <1>1, <1>3, <1>4 DEF StartGenerate, Bare

LEMMA Using ==
    ASSUME TInv, NEW i \in Calls, StartUse(i)
    PROVE  /\ Only(i) /\ Bare(i) /\ calls'[i].stage = "loading"
           /\ calls'[i].op = "use" /\ calls'[i].set \in 1..sets /\ calls'[i].code \in Codes
           /\ UNCHANGED <<codes, devices>>
<1>1. PICK s \in 1..sets, k \in Codes :
          Become(i, [Idle EXCEPT !.op = "use", !.stage = "loading", !.set = s, !.code = k])
  BY DEF StartUse, Begin
<1> DEFINE q == [Idle EXCEPT !.op = "use", !.stage = "loading", !.set = s, !.code = k]
<1>2. s \in 0..MaxSets
  BY BoundsAssumption DEF TInv, TypeOK
<1>3. q \in Call /\ q.stage = "loading" /\ q.op = "use" /\ q.set = s /\ q.code = k
      /\ q.device = None /\ q.todo = {} /\ q.barred = {}
  BY <1>2 DEF Idle, Call, Stages
<1> HIDE DEF q
<1>4. Only(i) /\ calls'[i] = q
  BY <1>1, <1>3, Becoming DEF q, TInv
<1> QED BY <1>3, <1>4 DEF StartUse, Bare

LEMMA Loading ==
    ASSUME TInv, NEW i \in Calls, Load(i)
    PROVE  /\ Only(i) /\ calls[i].stage = "loading"
           /\ UNCHANGED <<codes, devices>>
           /\ \/ calls'[i] = Idle
              \/ /\ backup.set = calls[i].set /\ calls[i].code \notin backup.used
                 /\ calls'[i].stage = "marking" /\ calls'[i].op = calls[i].op
                 /\ calls'[i].set = calls[i].set /\ calls'[i].code = calls[i].code
                 /\ calls'[i].used = backup.used /\ calls'[i].device = calls[i].device
                 /\ calls'[i].todo = calls[i].todo /\ calls'[i].barred = calls[i].barred
<1>1. CASE End(i)
  BY <1>1, Ending DEF Load, At, TInv
<1>2. CASE /\ backup.set = calls[i].set /\ calls[i].code \notin backup.used
           /\ Become(i, [calls[i] EXCEPT !.stage = "marking", !.used = backup.used])
  <2> DEFINE q == [calls[i] EXCEPT !.stage = "marking", !.used = backup.used]
  <2>1. calls[i] \in Call /\ backup.used \in SUBSET Codes
    BY DEF TInv, TypeOK
  <2>2. /\ q \in Call /\ q.stage = "marking" /\ q.op = calls[i].op
        /\ q.set = calls[i].set /\ q.code = calls[i].code
        /\ q.used = backup.used /\ q.device = calls[i].device
        /\ q.todo = calls[i].todo /\ q.barred = calls[i].barred
    BY <2>1 DEF Call, Stages
  <2> HIDE DEF q
  <2>3. Only(i) /\ calls'[i] = q
    BY <1>2, <2>2, Becoming DEF q, TInv
  <2> QED BY <1>2, <2>2, <2>3 DEF Load, At
<1> QED BY <1>1, <1>2 DEF Load

LEMMA GenerateEnds ==
    ASSUME TInv, NEW i \in Calls, Generate(i)
    PROVE  /\ Only(i) /\ calls'[i] = Idle /\ calls[i].stage = "writing"
           /\ \/ UNCHANGED <<backup, newest, held>>
              \/ /\ backup' = [set |-> calls[i].set, used |-> {}]
                 /\ newest' = calls[i].set
                 /\ held' = held \cup {calls[j].set : j \in {j \in Calls : At(j, "marking")}}
           /\ UNCHANGED <<sets, passed, repeated, devices>>
<1>1. End(i)
  BY DEF Generate, Throw
<1>2. Only(i) /\ calls'[i] = Idle
  BY <1>1, Ending DEF TInv
<1> QED BY <1>2 DEF Generate, At, Throw

\* What a call that marks a code writes, if anything.
LEMMA MarkEnds ==
    ASSUME TInv, NEW i \in Calls, Mark(i)
    PROVE  /\ Only(i) /\ calls'[i] = Idle /\ calls[i].stage = "marking"
           /\ \/ UNCHANGED <<backup, passed, repeated>>
              \/ /\ backup' = [set |-> calls[i].set, used |-> calls[i].used \cup {calls[i].code}]
                 /\ \/ UNCHANGED <<passed, repeated>>
                    \/ /\ passed' = passed \cup {<<calls[i].set, calls[i].code>>}
                       /\ repeated' = repeated \cup ({<<calls[i].set, calls[i].code>>} \cap passed)
           /\ UNCHANGED <<sets, newest, held, devices>>
<1>1. End(i)
  BY DEF Mark, Throw
<1>2. Only(i) /\ calls'[i] = Idle
  BY <1>1, Ending DEF TInv
<1> QED BY <1>2 DEF Mark, At, Throw

LEMMA StartingTrust ==
    ASSUME TInv, NEW i \in Calls, StartTrust(i)
    PROVE  /\ Only(i) /\ calls'[i].stage = "storing" /\ calls'[i].op = "trust"
           /\ calls'[i].device \in Devices /\ calls'[i].todo = {} /\ calls'[i].barred = {}
           /\ print[calls'[i].device] = None
           /\ \E p \in Prints : print' = [print EXCEPT ![calls'[i].device] = p]
           /\ UNCHANGED <<codes, device, listed, past, revoked>>
<1>1. PICK d \in Devices, p \in Prints :
          /\ print[d] = None /\ print' = [print EXCEPT ![d] = p]
          /\ Become(i, [Idle EXCEPT !.op = "trust", !.stage = "storing", !.device = d])
  BY DEF StartTrust, Begin
<1> DEFINE q == [Idle EXCEPT !.op = "trust", !.stage = "storing", !.device = d]
<1>2. 0 \in 0..MaxSets
  BY BoundsAssumption
<1>3. q \in Call /\ q.stage = "storing" /\ q.op = "trust" /\ q.device = d
      /\ q.todo = {} /\ q.barred = {}
  BY <1>2 DEF Idle, Call, Stages
<1> HIDE DEF q
<1>4. Only(i) /\ calls'[i] = q
  BY <1>1, <1>3, Becoming DEF q, TInv
<1> QED BY <1>1, <1>3, <1>4 DEF StartTrust

LEMMA StartingOthers ==
    ASSUME TInv, NEW i \in Calls, StartCheck(i) \/ StartList(i)
    PROVE  /\ Only(i) /\ calls'[i].stage = "indexing" /\ calls'[i].op \in {"check", "list"}
           /\ calls'[i].device = None /\ calls'[i].todo = {} /\ calls'[i].barred \subseteq revoked
           /\ UNCHANGED <<codes, devices>>
<1>0. 0 \in 0..MaxSets
  BY BoundsAssumption
<1>1. CASE StartCheck(i)
  <2>1. PICK p \in Prints :
            Become(i, [Idle EXCEPT !.op = "check", !.stage = "indexing",
                                   !.print = p, !.barred = revoked])
    BY <1>1 DEF StartCheck, Begin
  <2> DEFINE q == [Idle EXCEPT !.op = "check", !.stage = "indexing",
                               !.print = p, !.barred = revoked]
  <2>2. revoked \in SUBSET Devices
    BY DEF TInv, TypeOK
  <2>3. q \in Call /\ q.stage = "indexing" /\ q.op = "check" /\ q.device = None
        /\ q.todo = {} /\ q.barred = revoked
    BY <1>0, <2>2 DEF Idle, Call, Stages
  <2> HIDE DEF q
  <2>4. Only(i) /\ calls'[i] = q
    BY <2>1, <2>3, Becoming DEF q, TInv
  <2> QED BY <1>1, <2>3, <2>4 DEF StartCheck
<1>2. CASE StartList(i)
  <2> DEFINE q == [Idle EXCEPT !.op = "list", !.stage = "indexing"]
  <2>1. q \in Call /\ q.stage = "indexing" /\ q.op = "list" /\ q.device = None
        /\ q.todo = {} /\ q.barred = {}
    BY <1>0 DEF Idle, Call, Stages
  <2>2. Become(i, q)
    BY <1>2 DEF StartList, Begin
  <2> HIDE DEF q
  <2>3. Only(i) /\ calls'[i] = q
    BY <2>1, <2>2, Becoming DEF TInv
  <2> QED BY <1>2, <2>1, <2>3 DEF StartList
<1> QED BY <1>1, <1>2

LEMMA StartingRevoke ==
    ASSUME TInv, NEW i \in Calls, StartRevoke(i)
    PROVE  /\ Only(i) /\ calls'[i].stage = "looking" /\ calls'[i].op = "revoke"
           /\ calls'[i].device \in Devices /\ calls'[i].todo = {} /\ calls'[i].barred = {}
           /\ print[calls'[i].device] # None
           /\ \A j \in Calls : calls[j].op = "trust" => calls[j].device # calls'[i].device
           /\ UNCHANGED <<codes, devices>>
<1>1. PICK d \in Devices :
          /\ print[d] # None /\ \A j \in Calls : calls[j].op = "trust" => calls[j].device # d
          /\ Become(i, [Idle EXCEPT !.op = "revoke", !.stage = "looking", !.device = d])
  BY DEF StartRevoke, Begin
<1> DEFINE q == [Idle EXCEPT !.op = "revoke", !.stage = "looking", !.device = d]
<1>2. 0 \in 0..MaxSets
  BY BoundsAssumption
<1>3. q \in Call /\ q.stage = "looking" /\ q.op = "revoke" /\ q.device = d
      /\ q.todo = {} /\ q.barred = {}
  BY <1>2 DEF Idle, Call, Stages
<1> HIDE DEF q
<1>4. Only(i) /\ calls'[i] = q
  BY <1>1, <1>3, Becoming DEF q, TInv
<1> QED BY <1>1, <1>3, <1>4 DEF StartRevoke

\* A call that ends, or that goes on as it is at another stage.
Gone(i) == Only(i) /\ calls'[i] = Idle
Kin(i) ==
    /\ Only(i) /\ calls'[i].op = calls[i].op /\ calls'[i].todo = calls[i].todo
    /\ calls'[i].device = calls[i].device /\ calls'[i].barred = calls[i].barred

LEMMA Storing ==
    ASSUME TInv, NEW i \in Calls, Store(i)
    PROVE  /\ calls[i].stage = "storing"
           /\ Gone(i) \/ (Kin(i) /\ calls'[i].stage = "listing")
           /\ device' \in {device, [device EXCEPT ![calls[i].device] = "lapsing"]}
           /\ UNCHANGED <<codes, listed, print, past, revoked>>
<1>1. CASE Goto(i, "listing")
  <2>1. "listing" \in Stages
    BY DEF Stages
  <2> QED BY <1>1, <2>1, Going DEF Store, At, Kin, TInv
<1>2. CASE End(i)
  BY <1>2, Ending DEF Store, At, Gone, TInv
<1> QED BY <1>1, <1>2 DEF Store, Throw

LEMMA Enlisting ==
    ASSUME TInv, NEW i \in Calls, Enlist(i)
    PROVE  /\ calls[i].stage = "listing" /\ Gone(i)
           /\ listed' \in {listed, listed \cup {calls[i].device}}
           /\ UNCHANGED <<codes, device, print, past, revoked>>
BY Ending DEF Enlist, At, Gone, TInv

LEMMA Indexing ==
    ASSUME TInv, NEW i \in Calls, Index(i)
    PROVE  /\ Only(i) /\ calls[i].stage = "indexing"
           /\ calls'[i].stage \in {"idle", "reading"} /\ calls'[i].device = None
           /\ calls'[i].op \in {"none", calls[i].op}
           /\ calls'[i].todo \subseteq listed
           /\ calls'[i].barred \in {{}, calls[i].barred}
           /\ UNCHANGED <<codes, devices>>
<1>1. PICK found \in SUBSET listed : Become(i, NextDevice([calls[i] EXCEPT !.todo = found]))
  BY DEF Index
<1> DEFINE q == [calls[i] EXCEPT !.todo = found]
<1>2. calls[i] \in Call /\ found \in SUBSET Devices
  BY DEF TInv, TypeOK
<1>3. q \in Call /\ q.op = calls[i].op /\ q.todo = found /\ q.barred = calls[i].barred
  BY <1>2 DEF Call
<1> HIDE DEF q
<1>4. Only(i) /\ calls'[i] = NextDevice(q)
  BY <1>1, <1>3, Nexting, Becoming DEF q, TInv
<1> QED BY <1>3, <1>4, Nexting DEF Index, At

LEMMA Reading ==
    ASSUME TInv, NEW i \in Calls, ReadDevice(i)
    PROVE  /\ Only(i) /\ calls[i].stage = "reading"
           /\ calls'[i].op \in {"none", calls[i].op}
           /\ calls'[i].todo \subseteq calls[i].todo
           /\ calls'[i].barred \in {{}, calls[i].barred}
           /\ \/ calls'[i].stage \in {"idle", "reading"} /\ calls'[i].device = None
              \/ /\ calls'[i].stage = "touching" /\ calls'[i].device \in calls[i].todo
                 /\ device[calls'[i].device] # "no"
              \/ calls'[i].stage = "looking" /\ calls'[i].device \in calls[i].todo
           /\ UNCHANGED <<codes, devices>>
<1>1. CASE End(i)
  BY <1>1, Ending, IdleFields DEF ReadDevice, At, TInv
<1>2. ASSUME ~ End(i)
      PROVE  \E d \in calls[i].todo :
                 LET q == [calls[i] EXCEPT !.todo = @ \ {d}, !.device = d] IN
                 \/ device[d] # "no" /\ Become(i, [q EXCEPT !.stage = "touching", !.todo = {}])
                 \/ Become(i, [q EXCEPT !.stage = "looking"])
                 \/ Become(i, NextDevice(q))
  BY <1>2, Zenon DEF ReadDevice, Throw
<1>3. CASE ~ End(i)
  <2>1. PICK d \in calls[i].todo :
            LET q == [calls[i] EXCEPT !.todo = @ \ {d}, !.device = d] IN
            \/ device[d] # "no" /\ Become(i, [q EXCEPT !.stage = "touching", !.todo = {}])
            \/ Become(i, [q EXCEPT !.stage = "looking"])
            \/ Become(i, NextDevice(q))
    BY <1>2, <1>3
  <2> DEFINE q == [calls[i] EXCEPT !.todo = @ \ {d}, !.device = d]
             t == [q EXCEPT !.stage = "touching", !.todo = {}]
             l == [q EXCEPT !.stage = "looking"]
  <2>2. calls[i] \in Call /\ d \in Devices
    BY DEF TInv, TypeOK, Call
  <2>3. /\ q \in Call /\ q.op = calls[i].op /\ q.device = d
        /\ q.todo = calls[i].todo \ {d} /\ q.barred = calls[i].barred
    BY <2>2 DEF Call
  <2>4. \/ device[d] # "no" /\ Become(i, t)
        \/ Become(i, l)
        \/ Become(i, NextDevice(q))
    BY <2>1
  <2> HIDE DEF q
  <2>5. /\ t \in Call /\ t.op = q.op /\ t.device = q.device /\ t.todo = {}
        /\ t.barred = q.barred /\ t.stage = "touching"
        /\ l \in Call /\ l.op = q.op /\ l.device = q.device /\ l.todo = q.todo
        /\ l.barred = q.barred /\ l.stage = "looking"
    BY <2>3 DEF Call, Stages
  <2> HIDE DEF t, l
  <2>6. CASE device[d] # "no" /\ Become(i, t)
    <3>1. Only(i) /\ calls'[i] = t
      BY <2>5, <2>6, Becoming DEF TInv
    <3> QED BY <2>3, <2>5, <2>6, <3>1 DEF ReadDevice, At
  <2>7. CASE Become(i, l)
    <3>1. Only(i) /\ calls'[i] = l
      BY <2>5, <2>7, Becoming DEF TInv
    <3> QED BY <2>3, <2>5, <3>1 DEF ReadDevice, At
  <2>8. CASE Become(i, NextDevice(q))
    <3>1. Only(i) /\ calls'[i] = NextDevice(q)
      BY <2>3, <2>8, Nexting, Becoming DEF TInv
    <3> QED BY <2>3, <3>1, Nexting DEF ReadDevice, At
  <2> QED BY <2>4, <2>6, <2>7, <2>8
<1> QED BY <1>1, <1>3

LEMMA Touching ==
    ASSUME TInv, NEW i \in Calls, Touch(i)
    PROVE  /\ calls[i].stage = "touching" /\ Gone(i)
           /\ device' \in {device, [device EXCEPT ![calls[i].device] = "lasting"]}
           /\ UNCHANGED <<codes, listed, print, past, revoked>>
BY Ending DEF Touch, At, Gone, TInv

\* A call that has revoked a device.
Leaving(i) ==
    /\ Only(i) /\ calls'[i].stage \in {"idle", "reading"} /\ calls'[i].device = None
    /\ calls'[i].op \in {"none", calls[i].op}
    /\ calls'[i].todo \subseteq calls[i].todo
    /\ calls'[i].barred \in {{}, calls[i].barred}

LEMMA Revoking ==
    ASSUME TInv, NEW i \in Calls, Revoked(i)
    PROVE  Leaving(i) /\ revoked' = revoked \cup {calls[i].device}
<1>1. calls[i] \in Call
  BY DEF TInv, TypeOK
<1>2. PICK q \in {NextDevice(calls[i]), Idle} : Become(i, q)
  BY DEF Revoked
<1>3. q \in Call /\ Only(i) /\ calls'[i] = q
  BY <1>1, <1>2, Nexting, IdleFields, Becoming DEF TInv
<1> QED BY <1>1, <1>2, <1>3, Nexting, IdleFields DEF Revoked, Leaving

LEMMA Looking ==
    ASSUME TInv, NEW i \in Calls, Look(i)
    PROVE  /\ calls[i].stage = "looking"
           /\ \/ (Gone(i) \/ (Kin(i) /\ calls'[i].stage = "deleting")) /\ revoked' = revoked
              \/ /\ device[calls[i].device] = "no" /\ Leaving(i)
                 /\ revoked' = revoked \cup {calls[i].device}
           /\ UNCHANGED <<codes, device, listed, print, past>>
<1>1. CASE Goto(i, "deleting") /\ UNCHANGED revoked
  <2>1. "deleting" \in Stages
    BY DEF Stages
  <2> QED BY <1>1, <2>1, Going DEF Look, At, Kin, TInv
<1>2. CASE End(i) /\ UNCHANGED revoked
  BY <1>2, Ending DEF Look, At, Gone, TInv
<1>3. CASE device[calls[i].device] = "no" /\ Revoked(i)
  BY <1>3, Revoking DEF Look, At
<1> QED BY <1>1, <1>2, <1>3 DEF Look, Throw

LEMMA Deleting ==
    ASSUME TInv, NEW i \in Calls, Delete(i)
    PROVE  /\ calls[i].stage = "deleting"
           /\ \/ /\ Kin(i) /\ calls'[i].stage = "unlisting"
                 /\ device' = [device EXCEPT ![calls[i].device] = "no"]
              \/ /\ Gone(i)
                 /\ device' \in {device, [device EXCEPT ![calls[i].device] = "no"]}
           /\ UNCHANGED <<codes, listed, print, past, revoked>>
<1>1. CASE Goto(i, "unlisting") /\ device' = [device EXCEPT ![calls[i].device] = "no"]
  <2>1. "unlisting" \in Stages
    BY DEF Stages
  <2> QED BY <1>1, <2>1, Going DEF Delete, At, Kin, TInv
<1>2. CASE Throw(i)
  BY <1>2, Ending DEF Delete, At, Gone, TInv, Throw
<1> QED BY <1>1, <1>2 DEF Delete

LEMMA Unlisting ==
    ASSUME TInv, NEW i \in Calls, Unlist(i)
    PROVE  /\ calls[i].stage = "unlisting" /\ Leaving(i)
           /\ revoked' = revoked \cup {calls[i].device}
           /\ listed' \in {listed, listed \ {calls[i].device}}
           /\ UNCHANGED <<codes, device, print, past>>
BY Revoking DEF Unlist, At

LEMMA Steps ==
    ASSUME Next
    PROVE  /\ History
           /\ \/ \E i \in Calls : StartGenerate(i) \/ Generate(i) \/ Mark(i)
              \/ \E i \in Calls : StartUse(i) \/ Load(i)
              \/ \E i \in Calls : StartTrust(i) \/ Store(i) \/ Enlist(i)
              \/ \E i \in Calls : StartCheck(i) \/ StartList(i) \/ Index(i) \/ ReadDevice(i)
              \/ \E i \in Calls : StartRevoke(i) \/ Look(i) \/ Delete(i) \/ Unlist(i)
              \/ \E i \in Calls : Touch(i)
              \/ LapseCodes
              \/ \E d \in Devices : Deadline(d)
BY DEF Next, Arrive, BackupCodesRoutes, DeviceRoutes, DeviceQueries, LoginWithMFA, Advance, Time

-----------------------------------------------------------------------------
(* Types.                                                                  *)

LEMMA FittingStays ==
    ASSUME TInv, NEW i \in Calls, Only(i), sets' \in Nat, sets <= sets', Fits(calls[i])',
           backup'.set <= sets', \A c \in passed' : c[1] <= sets'
    PROVE  Fitting'
<1>1. ASSUME NEW j \in Calls \ {i}
      PROVE  Fits(calls[j])'
  <2>1. Fits(calls[j]) /\ calls'[j] = calls[j] /\ sets \in Nat
    BY DEF Only, TInv, Fitting, TypeOK
  <2>2. 1..sets \subseteq 1..sets'
    BY <2>1
  <2> QED BY <2>1, <2>2 DEF Fits
<1> QED BY <1>1 DEF Fitting

LEMMA IdleFits ==
    ASSUME TInv, NEW i \in Calls, calls'[i] = Idle
    PROVE  Fits(calls[i])'
BY IdleFields DEF Fits, Coding, Trusting, Naming

\* What the steps about codes do to what is kept.
CodesTyped ==
    /\ backup \in [set : 0..MaxSets, used : SUBSET Codes]
    /\ sets \in 0..MaxSets /\ newest \in 0..MaxSets
    /\ held \in SUBSET (1..MaxSets)
    /\ passed \in SUBSET ((1..MaxSets) \X Codes) /\ repeated \in SUBSET passed
DevicesTyped ==
    /\ device \in [Devices -> Kept] /\ print \in [Devices -> Prints \cup {None}]
    /\ listed \in SUBSET Devices /\ past \in SUBSET Devices /\ revoked \in SUBSET Devices

LEMMA Typed ==
    ASSUME TInv
    PROVE  /\ CodesTyped /\ DevicesTyped /\ calls \in [Calls -> Call]
           /\ \A i \in Calls : calls[i] \in Call /\ Fits(calls[i])
           /\ backup.set <= sets /\ \A c \in passed : c[1] <= sets
BY DEF TInv, TypeOK, CodesTyped, DevicesTyped, Fitting

LEMMA Together ==
    ASSUME TInv, History, CodesTyped', DevicesTyped', calls' \in [Calls -> Call], Fitting'
    PROVE  TInv'
BY Histories DEF TInv, TypeOK, CodesTyped, DevicesTyped

LEMMA SameCodes ==
    ASSUME TInv, UNCHANGED codes
    PROVE  /\ CodesTyped' /\ sets' \in Nat /\ sets <= sets'
           /\ backup'.set <= sets' /\ \A c \in passed' : c[1] <= sets'
BY Typed DEF codes, CodesTyped

LEMMA SameDevices ==
    ASSUME TInv, UNCHANGED devices
    PROVE  DevicesTyped'
BY Typed DEF devices, DevicesTyped

LEMMA TypesOfGenerate ==
    ASSUME TInv, NEW i \in Calls, StartGenerate(i)
    PROVE  CodesTyped' /\ DevicesTyped' /\ calls' \in [Calls -> Call] /\ Fitting'
<1>1. CodesTyped'
  <2>1. /\ UNCHANGED <<backup, newest, held, passed, repeated>> /\ sets' \in 1..MaxSets
        /\ CodesTyped
    BY Typed, Generating
  <2>2. sets' \in 0..MaxSets
    BY <2>1
  <2> QED BY <2>1, <2>2 DEF CodesTyped
<1>2. Fits(calls[i])'
  <2>1. sets' \in 1..sets'
    BY Generating
  <2> QED BY <2>1, Generating DEF Fits, Coding, Trusting, Naming
<1>3. sets' \in Nat /\ sets <= sets' /\ backup'.set <= sets' /\ \A c \in passed' : c[1] <= sets'
  <2>1. /\ sets \in Nat /\ sets' = sets + 1 /\ backup.set \in Nat
        /\ \A c \in passed : c[1] \in Nat /\ c[1] <= sets
    BY Typed, Generating DEF CodesTyped
  <2>2. backup' = backup /\ passed' = passed /\ backup.set <= sets
    BY Typed, Generating
  <2> QED BY <2>1, <2>2
<1> QED BY <1>1, <1>2, <1>3, Generating, FittingStays, SameDevices DEF Only

LEMMA TypesOfWriting ==
    ASSUME TInv, NEW i \in Calls, Generate(i)
    PROVE  CodesTyped' /\ DevicesTyped' /\ calls' \in [Calls -> Call] /\ Fitting'
<1>1. calls[i].set \in 1..sets /\ calls[i].set \in 0..MaxSets
  BY Typed, GenerateEnds DEF Fits, Call, Coding
<1>2. newest' \in 0..MaxSets /\ held' \in SUBSET (1..MaxSets)
  <2>1. CASE UNCHANGED <<newest, held>>
    BY <2>1, Typed DEF CodesTyped
  <2>2. CASE /\ newest' = calls[i].set
             /\ held' = held \cup {calls[j].set : j \in {j \in Calls : At(j, "marking")}}
    <3>1. \A j \in Calls : At(j, "marking") => calls[j].set \in 1..MaxSets
      <4>1. \A j \in Calls : At(j, "marking") => calls[j].set \in 1..sets
        BY Typed DEF Fits, Coding, At
      <4>2. sets \in 0..MaxSets
        BY Typed DEF CodesTyped
      <4> QED BY <4>1, <4>2, BoundsAssumption
    <3> QED BY <1>1, <2>2, <3>1, Typed DEF CodesTyped
  <2> QED BY <2>1, <2>2, GenerateEnds
<1>3. backup' \in [set : 0..MaxSets, used : SUBSET Codes] /\ backup'.set <= sets
  <2>1. CASE backup' = backup
    BY <2>1, Typed DEF CodesTyped
  <2>2. CASE backup' = [set |-> calls[i].set, used |-> {}]
    BY <1>1, <2>2
  <2> QED BY <2>1, <2>2, GenerateEnds
<1>4. CodesTyped'
  BY <1>1, <1>2, <1>3, Typed, GenerateEnds DEF CodesTyped
<1>5. Fits(calls[i])'
  BY GenerateEnds, IdleFits
<1>6. sets' = sets /\ sets \in Nat /\ \A c \in passed' : c[1] <= sets'
  <2>1. UNCHANGED <<sets, passed>>
    BY GenerateEnds
  <2> QED BY <2>1, Typed DEF CodesTyped
<1>7. Only(i) /\ UNCHANGED devices
  BY GenerateEnds
<1>8. Fitting'
  BY <1>3, <1>5, <1>6, <1>7, FittingStays
<1> QED BY <1>4, <1>7, <1>8, SameDevices DEF Only

LEMMA TypesOfMark ==
    ASSUME TInv, NEW i \in Calls, Mark(i)
    PROVE  CodesTyped' /\ DevicesTyped' /\ calls' \in [Calls -> Call] /\ Fitting'
<1>1. /\ calls[i].set \in 1..sets /\ calls[i].set \in 1..MaxSets
      /\ calls[i].used \cup {calls[i].code} \in SUBSET Codes
  <2>1. calls[i] \in Call /\ Fits(calls[i]) /\ calls[i].stage = "marking"
    BY Typed, MarkEnds
  <2>2. calls[i].set \in 1..sets /\ calls[i].code \in Codes
    BY <2>1 DEF Fits, Coding
  <2>3. sets \in 0..MaxSets
    BY Typed DEF CodesTyped
  <2>4. calls[i].set \in 1..MaxSets
    BY <2>2, <2>3, BoundsAssumption
  <2> QED BY <2>1, <2>2, <2>4 DEF Call
<1>2. newest' \in 0..MaxSets /\ held' \in SUBSET (1..MaxSets)
  BY Typed, MarkEnds DEF CodesTyped
<1>3. backup' \in [set : 0..MaxSets, used : SUBSET Codes] /\ backup'.set <= sets
  <2>1. CASE backup' = backup
    BY <2>1, Typed DEF CodesTyped
  <2>2. CASE backup' = [set |-> calls[i].set, used |-> calls[i].used \cup {calls[i].code}]
    <3>1. calls[i].set \in 0..MaxSets /\ calls[i].set <= sets
      BY <1>1
    <3> QED BY <1>1, <2>2, <3>1
  <2> QED BY <2>1, <2>2, MarkEnds
<1>4. /\ passed' \in SUBSET ((1..MaxSets) \X Codes) /\ repeated' \in SUBSET passed'
      /\ \A c \in passed' : c[1] <= sets
  <2>1. <<calls[i].set, calls[i].code>> \in (1..MaxSets) \X Codes /\ calls[i].set <= sets
    BY <1>1
  <2>2. CASE UNCHANGED <<passed, repeated>>
    BY <2>2, Typed DEF CodesTyped
  <2>3. CASE /\ passed' = passed \cup {<<calls[i].set, calls[i].code>>}
             /\ repeated' = repeated \cup ({<<calls[i].set, calls[i].code>>} \cap passed)
    BY <2>1, <2>3, Typed DEF CodesTyped
  <2> QED BY <2>2, <2>3, MarkEnds
<1>5. CodesTyped'
  BY <1>2, <1>3, <1>4, Typed, MarkEnds DEF CodesTyped
<1>6. Fits(calls[i])'
  BY MarkEnds, IdleFits
<1> QED BY <1>3, <1>4, <1>5, <1>6, Typed, MarkEnds, FittingStays, SameDevices DEF Only, CodesTyped

\* The other steps of calls leave the codes.
LEMMA TypesOfOthers ==
    ASSUME TInv, NEW i \in Calls, Only(i), UNCHANGED codes, DevicesTyped',
           \/ calls'[i].stage = "idle" /\ calls'[i].op # "trust"
           \/ Fits(calls[i])'
    PROVE  CodesTyped' /\ DevicesTyped' /\ calls' \in [Calls -> Call] /\ Fitting'
<1>1. Fits(calls[i])'
  BY DEF Fits, Coding, Trusting, Naming
<1> QED BY <1>1, SameCodes, FittingStays DEF Only

LEMMA TypesOfSteps ==
    ASSUME TInv, NEW i \in Calls,
           \/ StartUse(i) \/ Load(i) \/ StartTrust(i) \/ Store(i) \/ Enlist(i)
           \/ StartCheck(i) \/ StartList(i) \/ Index(i) \/ ReadDevice(i)
           \/ StartRevoke(i) \/ Look(i) \/ Delete(i) \/ Unlist(i) \/ Touch(i)
    PROVE  CodesTyped' /\ DevicesTyped' /\ calls' \in [Calls -> Call] /\ Fitting'
<1> USE DEF Trusting, Naming, Coding
<1>1. calls[i] \in Call /\ Fits(calls[i]) /\ DevicesTyped
  BY Typed
<1>2. "no" \in Kept /\ "lapsing" \in Kept /\ "lasting" \in Kept
  BY DEF Kept
<1>3. CASE StartUse(i)
  <2>1. Fits(calls[i])'
    BY <1>3, Using DEF Fits, codes
  <2> QED BY <1>3, <2>1, Using, SameDevices, TypesOfOthers
<1>4. CASE Load(i)
  <2>1. Fits(calls[i])'
    <3>1. CASE calls'[i] = Idle
      BY <3>1, IdleFits
    <3>2. CASE calls'[i] # Idle
      BY <1>1, <1>4, <3>2, Loading DEF Fits, codes
    <3> QED BY <3>1, <3>2
  <2> QED BY <1>4, <2>1, Loading, SameDevices, TypesOfOthers
<1>5. CASE StartTrust(i)
  <2>1. Fits(calls[i])'
    BY <1>5, StartingTrust DEF Fits
  <2>2. DevicesTyped'
    BY <1>1, <1>5, StartingTrust DEF DevicesTyped
  <2> QED BY <1>5, <2>1, <2>2, StartingTrust, TypesOfOthers
<1>6. CASE Store(i) \/ Enlist(i) \/ Delete(i) \/ Touch(i)
  <2>1. calls[i].device \in Devices
    BY <1>1, <1>6, Storing, Enlisting, Deleting, Touching DEF Fits
  <2>2. DevicesTyped'
    <3>1. CASE Store(i)
      BY <1>1, <1>2, <3>1, Storing DEF DevicesTyped
    <3>2. CASE Enlist(i)
      BY <1>1, <2>1, <3>2, Enlisting DEF DevicesTyped
    <3>3. CASE Delete(i)
      BY <1>1, <1>2, <3>3, Deleting DEF DevicesTyped
    <3>4. CASE Touch(i)
      BY <1>1, <1>2, <3>4, Touching DEF DevicesTyped
    <3> QED BY <1>6, <3>1, <3>2, <3>3, <3>4
  <2>3. CASE Gone(i)
    BY <1>6, <2>2, <2>3, Storing, Enlisting, Deleting, Touching, IdleFields, TypesOfOthers DEF Gone
  <2>4. CASE Kin(i) /\ Store(i) /\ calls'[i].stage = "listing"
    <3>1. Fits(calls[i])'
      BY <1>1, <2>1, <2>4, Storing DEF Fits, Kin
    <3> QED BY <2>2, <2>4, <3>1, Storing, TypesOfOthers DEF Kin
  <2>5. CASE Kin(i) /\ Delete(i) /\ calls'[i].stage = "unlisting"
    <3>1. Fits(calls[i])'
      BY <1>1, <2>1, <2>5, Deleting DEF Fits, Kin
    <3> QED BY <2>2, <2>5, <3>1, Deleting, TypesOfOthers DEF Kin
  <2> QED BY <1>6, <2>3, <2>4, <2>5, Storing, Enlisting, Deleting, Touching
<1>7. CASE StartCheck(i) \/ StartList(i)
  <2>1. Fits(calls[i])'
    BY <1>7, StartingOthers DEF Fits
  <2> QED BY <1>7, <2>1, StartingOthers, SameDevices, TypesOfOthers
<1>8. CASE Index(i)
  <2>1. Fits(calls[i])'
    BY <1>1, <1>8, Indexing DEF Fits
  <2> QED BY <1>8, <2>1, Indexing, SameDevices, TypesOfOthers
<1>9. CASE ReadDevice(i)
  <2>1. calls[i].todo \subseteq Devices
    BY <1>1 DEF Call
  <2>2. Fits(calls[i])'
    BY <1>1, <1>9, <2>1, Reading DEF Fits
  <2> QED BY <1>9, <2>2, Reading, SameDevices, TypesOfOthers
<1>10. CASE StartRevoke(i)
  <2>1. Fits(calls[i])'
    BY <1>10, StartingRevoke DEF Fits
  <2> QED BY <1>10, <2>1, StartingRevoke, SameDevices, TypesOfOthers
<1>11. CASE Look(i) \/ Unlist(i)
  <2>1. calls[i].device \in Devices /\ calls[i].op # "trust"
    BY <1>1, <1>11, Looking, Unlisting DEF Fits
  <2>2. DevicesTyped' /\ UNCHANGED codes
    <3>1. CASE Look(i)
      BY <1>1, <2>1, <3>1, Looking DEF DevicesTyped
    <3>2. CASE Unlist(i)
      BY <1>1, <2>1, <3>2, Unlisting DEF DevicesTyped
    <3> QED BY <1>11, <3>1, <3>2
  <2>3. CASE Gone(i)
    BY <2>2, <2>3, IdleFields, TypesOfOthers DEF Gone
  <2>4. CASE Kin(i) /\ calls'[i].stage = "deleting"
    <3>1. Fits(calls[i])'
      BY <2>1, <2>4 DEF Fits, Kin
    <3> QED BY <2>2, <2>4, <3>1, TypesOfOthers DEF Kin
  <2>5. CASE Leaving(i)
    <3>1. Fits(calls[i])'
      BY <2>1, <2>5 DEF Fits, Leaving
    <3> QED BY <2>2, <2>5, <3>1, TypesOfOthers DEF Leaving
  <2> QED BY <1>11, <2>3, <2>4, <2>5, Looking, Unlisting
<1> QED BY <1>3, <1>4, <1>5, <1>6, <1>7, <1>8, <1>9, <1>10, <1>11

LEMMA TypesOfTime ==
    ASSUME TInv, LapseCodes \/ \E d \in Devices : Deadline(d)
    PROVE  CodesTyped' /\ DevicesTyped' /\ calls' \in [Calls -> Call] /\ Fitting'
<1>1. calls' = calls /\ sets' = sets
  BY DEF LapseCodes, Deadline, codes
<1>2. Fitting' \/ ~ (backup'.set <= sets' /\ passed' = passed)
  BY <1>1, Typed DEF Fitting, Fits
<1>3. CASE LapseCodes
  <2>1. 0 <= sets /\ 0 \in 0..MaxSets
    BY Typed, BoundsAssumption DEF CodesTyped
  <2>2. backup' \in [set : 0..MaxSets, used : SUBSET Codes] /\ backup'.set <= sets
    BY <1>3, <2>1 DEF LapseCodes, NoCodes
  <2>3. CodesTyped'
    BY <1>3, <2>1, <2>2, Typed DEF LapseCodes, CodesTyped
  <2> QED BY <1>1, <1>2, <1>3, <2>2, <2>3, Typed, SameDevices DEF LapseCodes
<1>4. CASE \E d \in Devices : Deadline(d)
  <2>1. PICK d \in Devices : Deadline(d)
    BY <1>4
  <2>2. DevicesTyped'
    BY <2>1, Typed DEF Deadline, DevicesTyped, Kept
  <2> QED BY <1>1, <1>2, <2>1, <2>2, Typed, SameCodes DEF Deadline, codes
<1> QED BY <1>3, <1>4

LEMMA TypesNext ==
    ASSUME TInv, Next
    PROVE  TInv'
<1>1. CodesTyped' /\ DevicesTyped' /\ calls' \in [Calls -> Call] /\ Fitting'
  BY Steps, TypesOfGenerate, TypesOfWriting, TypesOfMark, TypesOfSteps, TypesOfTime
<1> QED BY <1>1, Steps, Together

-----------------------------------------------------------------------------
(* Codes.                                                                  *)

\* Two calls that mark codes of one set are in the history.
LEMMA Mixing ==
    ASSUME TInv, TInv', History
    PROVE  \A i, j \in Calls :
               /\ calls'[i].stage = "marking" /\ calls'[j].stage = "marking"
               /\ calls'[i].set = calls'[j].set /\ i # j
               => calls'[i].set \in mixed'
<1>1. \A i \in Calls : calls'[i].stage = "marking" => calls'[i].set \in 1..MaxSets
  <2>1. \A i \in Calls : calls'[i].stage = "marking" => calls'[i].set \in 1..sets'
    BY DEF TInv, Fitting, Fits, Coding
  <2>2. sets' \in 0..MaxSets
    BY DEF TInv, TypeOK
  <2> QED BY <2>1, <2>2, BoundsAssumption
<1> QED BY <1>1, Histories DEF TInv

\* No call begins to write or to mark, and the codes stay.
LEMMA CodesStand ==
    ASSUME TInv, TInv', History, CInv, UNCHANGED <<backup, newest, held, passed, repeated>>,
           \A j \in Calls : \/ calls'[j] = calls[j]
                            \/ calls'[j].stage \notin {"writing", "marking"}
    PROVE  CInv'
<1>1. mixed \subseteq mixed'
  BY Histories DEF TInv
<1>2. WritersApart'
  BY DEF CInv, WritersApart, At
<1>3. PassedIsUsed'
  <2>1. \A i \in Calls : calls'[i].stage = "marking" => calls'[i].code \notin calls'[i].used
    BY DEF CInv, PassedIsUsed, At
  <2>2. \A c \in passed' : c[1] \notin mixed' =>
            /\ backup'.set = c[1] => c[2] \in backup'.used
            /\ \A i \in Calls : calls'[i].stage = "marking" /\ calls'[i].set = c[1]
                                    => c[2] \in calls'[i].used
    BY <1>1 DEF CInv, PassedIsUsed, Marks, At
  <2> QED BY <2>1, <2>2, Mixing DEF PassedIsUsed, Marks, At
<1>4. CodePassesOnce'
  BY <1>1 DEF CInv, CodePassesOnce
<1>5. NewInv'
  BY DEF CInv, NewInv, StoredIsNew, ReplacedIsRefused, At
<1> QED BY <1>2, <1>3, <1>4, <1>5 DEF CInv

LEMMA CodesOfGenerate ==
    ASSUME TInv, TInv', History, CInv, NEW i \in Calls, StartGenerate(i)
    PROVE  CInv'
<1>1. mixed \subseteq mixed'
  BY Histories DEF TInv
<1>2. /\ \A j \in Calls \ {i} : calls'[j] = calls[j]
      /\ calls'[i].stage = "writing" /\ calls'[i].set = sets + 1
      /\ UNCHANGED <<backup, newest, held, passed, repeated>>
  BY Generating DEF Only
<1>3. /\ sets \in Nat /\ backup.set # sets + 1 /\ \A c \in passed : c[1] # sets + 1
      /\ \A j \in Calls : calls[j].stage \in Coding => calls[j].set # sets + 1
  <2>1. /\ sets \in Nat /\ backup.set \in Nat /\ backup.set <= sets
        /\ \A c \in passed : c[1] \in Nat /\ c[1] <= sets
    BY Typed DEF CodesTyped
  <2>2. \A j \in Calls : calls[j].stage \in Coding => calls[j].set \in 1..sets
    BY Typed DEF Fits
  <2> QED BY <2>1, <2>2
<1>4. WritersApart'
  BY <1>2, <1>3 DEF CInv, WritersApart, At, Coding
<1>5. PassedIsUsed'
  <2>1. \A j \in Calls : calls'[j].stage = "marking" => calls'[j].code \notin calls'[j].used
    BY <1>2 DEF CInv, PassedIsUsed, At
  <2>2. \A c \in passed' : c[1] \notin mixed' =>
            /\ backup'.set = c[1] => c[2] \in backup'.used
            /\ \A j \in Calls : calls'[j].stage = "marking" /\ calls'[j].set = c[1]
                                    => c[2] \in calls'[j].used
    BY <1>1, <1>2 DEF CInv, PassedIsUsed, Marks, At
  <2> QED BY <2>1, <2>2, Mixing DEF PassedIsUsed, Marks, At
<1>6. CodePassesOnce' /\ NewInv'
  BY <1>1, <1>2 DEF CInv, CodePassesOnce, NewInv, StoredIsNew, ReplacedIsRefused, At
<1> QED BY <1>4, <1>5, <1>6 DEF CInv

LEMMA CodesOfWriting ==
    ASSUME TInv, TInv', History, CInv, NEW i \in Calls, Generate(i)
    PROVE  CInv'
<1>1. CASE UNCHANGED <<backup, newest, held>>
  BY <1>1, GenerateEnds, IdleFields, CodesStand DEF Only
<1>2. CASE /\ backup' = [set |-> calls[i].set, used |-> {}]
           /\ newest' = calls[i].set
           /\ held' = held \cup {calls[j].set : j \in {j \in Calls : At(j, "marking")}}
  <2>1. mixed \subseteq mixed'
    BY Histories DEF TInv
  <2>2. /\ \A j \in Calls \ {i} : calls'[j] = calls[j]
        /\ calls'[i].stage = "idle" /\ calls[i].stage = "writing"
        /\ UNCHANGED <<passed, repeated>>
    BY GenerateEnds, IdleFields DEF Only
  <2>3. backup'.set = calls[i].set
    BY <1>2
  <2>4. WritersApart'
    BY <2>2, <2>3 DEF CInv, WritersApart, At
  <2>5. PassedIsUsed'
    <3>1. \A j \in Calls : calls'[j].stage = "marking" => calls'[j].code \notin calls'[j].used
      BY <2>2 DEF CInv, PassedIsUsed, At
    <3>2. \A c \in passed' : c[1] # backup'.set
      BY <2>2, <2>3 DEF CInv, WritersApart, At
    <3>3. \A c \in passed' : c[1] \notin mixed' =>
              \A j \in Calls : calls'[j].stage = "marking" /\ calls'[j].set = c[1]
                                   => c[2] \in calls'[j].used
      BY <2>1, <2>2 DEF CInv, PassedIsUsed, Marks, At
    <3> QED BY <3>1, <3>2, <3>3, Mixing DEF PassedIsUsed, Marks, At
  <2>6. CodePassesOnce'
    BY <2>1, <2>2 DEF CInv, CodePassesOnce
  <2>7. NewInv'
    BY <1>2, <2>2, <2>3 DEF NewInv, StoredIsNew, ReplacedIsRefused, At
  <2> QED BY <2>4, <2>5, <2>6, <2>7 DEF CInv
<1> QED BY <1>1, <1>2, GenerateEnds, Zenon

LEMMA CodesOfLoad ==
    ASSUME TInv, TInv', History, CInv, NEW i \in Calls, Load(i)
    PROVE  CInv'
<1>1. UNCHANGED <<backup, newest, held, passed, repeated>>
  BY Loading DEF codes
<1>2. CASE calls'[i] = Idle
  BY <1>1, <1>2, Loading, IdleFields, CodesStand DEF Only
<1>3. CASE calls'[i] # Idle
  <2>1. mixed \subseteq mixed'
    BY Histories DEF TInv
  <2>2. /\ \A j \in Calls \ {i} : calls'[j] = calls[j]
        /\ backup.set = calls[i].set /\ calls[i].code \notin backup.used
        /\ calls'[i].stage = "marking" /\ calls'[i].set = calls[i].set
        /\ calls'[i].code = calls[i].code /\ calls'[i].used = backup.used
    BY <1>3, Loading DEF Only
  <2>3. WritersApart'
    BY <1>1, <2>2 DEF CInv, WritersApart, At
  <2>4. PassedIsUsed'
    <3>1. \A j \in Calls : calls'[j].stage = "marking" => calls'[j].code \notin calls'[j].used
      BY <2>2 DEF CInv, PassedIsUsed, At
    <3>2. \A c \in passed' : c[1] \notin mixed' =>
              /\ backup'.set = c[1] => c[2] \in backup'.used
              /\ \A j \in Calls : calls'[j].stage = "marking" /\ calls'[j].set = c[1]
                                      => c[2] \in calls'[j].used
      BY <1>1, <2>1, <2>2 DEF CInv, PassedIsUsed, Marks, At
    <3> QED BY <3>1, <3>2, Mixing DEF PassedIsUsed, Marks, At
  <2>5. CodePassesOnce'
    BY <1>1, <2>1 DEF CInv, CodePassesOnce
  <2>6. NewInv'
    <3>1. calls[i].set # 0
      BY Typed, Loading DEF Fits, Coding
    <3> QED BY <1>1, <2>2, <3>1 DEF CInv, NewInv, StoredIsNew, ReplacedIsRefused, At
  <2> QED BY <2>3, <2>4, <2>5, <2>6 DEF CInv
<1> QED BY <1>2, <1>3

LEMMA CodesOfMark ==
    ASSUME TInv, TInv', History, CInv, NEW i \in Calls, Mark(i)
    PROVE  CInv'
<1>1. CASE UNCHANGED <<backup, passed, repeated>>
  BY <1>1, MarkEnds, IdleFields, CodesStand DEF Only
<1>2. CASE ~ UNCHANGED <<backup, passed, repeated>>
  <2> DEFINE s == calls[i].set
             k == calls[i].code
  <2>1. mixed \subseteq mixed'
    BY Histories DEF TInv
  <2>2. /\ \A j \in Calls \ {i} : calls'[j] = calls[j]
        /\ calls'[i].stage = "idle" /\ calls[i].stage = "marking"
    BY MarkEnds, IdleFields DEF Only
  <2>3. /\ backup'.set = s /\ backup'.used = calls[i].used \cup {k}
        /\ UNCHANGED <<newest, held>>
    BY <1>2, MarkEnds
  <2>4. \/ UNCHANGED <<passed, repeated>>
        \/ /\ passed' = passed \cup {<<s, k>>}
           /\ repeated' = repeated \cup ({<<s, k>>} \cap passed)
    BY <1>2, MarkEnds
  <2>5. \A c \in passed' : c \in passed \/ (c[1] = s /\ c[2] = k)
    BY <2>4
  <2>6. \A c \in passed : c[1] = s /\ s \notin mixed => c[2] \in calls[i].used
    BY <2>2 DEF CInv, PassedIsUsed, Marks, At
  <2>7. k \notin calls[i].used
    BY <2>2 DEF CInv, PassedIsUsed, At
  <2> HIDE DEF s, k
  <2>8. WritersApart'
    <3>1. \A j \in Calls : calls[j].stage = "writing" => calls[j].set # s
      BY <2>2 DEF CInv, WritersApart, At, s
    <3> QED BY <2>2, <2>3, <2>5, <3>1 DEF CInv, WritersApart, At
  <2>9. PassedIsUsed'
    <3>1. \A j \in Calls : calls'[j].stage = "marking" => calls'[j].code \notin calls'[j].used
      BY <2>2 DEF CInv, PassedIsUsed, At
    <3>2. \A c \in passed' : c[1] \notin mixed' /\ backup'.set = c[1] => c[2] \in backup'.used
      BY <2>1, <2>3, <2>5, <2>6
    <3>3. ASSUME NEW c \in passed', c[1] \notin mixed',
                 NEW j \in Calls, calls'[j].stage = "marking", calls'[j].set = c[1]
          PROVE  c[2] \in calls'[j].used
      <4>1. j # i /\ calls'[j] = calls[j]
        BY <2>2, <3>3
      <4>2. c[1] # s
        BY <2>1, <2>2, <3>3, <4>1 DEF CInv, PassedIsUsed, Marks, At, s
      <4>3. c \in passed
        BY <2>5, <4>2
      <4> QED BY <2>1, <3>3, <4>1, <4>3 DEF CInv, PassedIsUsed, Marks, At
    <3> QED BY <3>1, <3>2, <3>3, Mixing DEF PassedIsUsed, Marks, At
  <2>10. CodePassesOnce'
    <3>1. <<s, k>> \in passed => s \in mixed
      BY <2>6, <2>7
    <3>2. \A c \in repeated' : c \in repeated \/ (c = <<s, k>> /\ c \in passed)
      BY <2>4
    <3> QED BY <2>1, <3>1, <3>2 DEF CInv, CodePassesOnce
  <2>11. NewInv'
    <3>1. s \in {newest} \cup held
      BY <2>2 DEF CInv, NewInv, ReplacedIsRefused, At, s
    <3> QED BY <2>2, <2>3, <3>1 DEF CInv, NewInv, StoredIsNew, ReplacedIsRefused, At
  <2> QED BY <2>8, <2>9, <2>10, <2>11 DEF CInv
<1> QED BY <1>1, <1>2

LEMMA CodesOfLapse ==
    ASSUME TInv, TInv', History, CInv, LapseCodes
    PROVE  CInv'
<1>1. /\ calls' = calls /\ backup'.set = 0 /\ UNCHANGED <<newest, held, passed, repeated>>
  BY DEF LapseCodes, NoCodes
<1>2. mixed \subseteq mixed'
  BY Histories DEF TInv
<1>3. /\ \A c \in passed : c[1] # 0
      /\ \A j \in Calls : calls[j].stage = "writing" => calls[j].set # 0
  <2>1. \A c \in passed : c[1] \in 1..MaxSets
    BY Typed DEF CodesTyped
  <2>2. \A j \in Calls : calls[j].stage = "writing" => calls[j].set \in 1..sets
    BY Typed DEF Fits, Coding
  <2> QED BY <2>1, <2>2
<1>4. WritersApart'
  BY <1>1, <1>3 DEF CInv, WritersApart, At
<1>5. PassedIsUsed'
  <2>1. \A c \in passed' : c[1] \notin mixed' =>
            /\ backup'.set # c[1]
            /\ \A i \in Calls : calls'[i].stage = "marking" /\ calls'[i].set = c[1]
                                    => c[2] \in calls'[i].used
    BY <1>1, <1>2, <1>3 DEF CInv, PassedIsUsed, Marks, At
  <2>2. \A j \in Calls : calls'[j].stage = "marking" => calls'[j].code \notin calls'[j].used
    BY <1>1 DEF CInv, PassedIsUsed, At
  <2> QED BY <2>1, <2>2, Mixing DEF PassedIsUsed, Marks, At
<1>6. CodePassesOnce' /\ NewInv'
  BY <1>1, <1>2 DEF CInv, CodePassesOnce, NewInv, StoredIsNew, ReplacedIsRefused, At
<1> QED BY <1>4, <1>5, <1>6 DEF CInv

\* The steps about devices neither write nor mark.
LEMMA CodesOfOthers ==
    ASSUME TInv, TInv', History, CInv, NEW i \in Calls,
           \/ StartUse(i) \/ StartTrust(i) \/ Store(i) \/ Enlist(i)
           \/ StartCheck(i) \/ StartList(i) \/ Index(i) \/ ReadDevice(i)
           \/ StartRevoke(i) \/ Look(i) \/ Delete(i) \/ Unlist(i) \/ Touch(i)
    PROVE  CInv'
<1>1. Only(i) /\ UNCHANGED codes /\ calls'[i].stage \notin {"writing", "marking"}
  BY Using, StartingTrust, Storing, Enlisting, StartingOthers, Indexing, Reading,
     StartingRevoke, Looking, Deleting, Unlisting, Touching, IdleFields DEF Gone, Kin, Leaving
<1> QED BY <1>1, CodesStand DEF Only, codes

LEMMA CodesNext ==
    ASSUME TInv, TInv', Next, CInv
    PROVE  CInv'
<1>1. ASSUME NEW d \in Devices, Deadline(d)
      PROVE  CInv'
  BY <1>1, Steps, CodesStand DEF Deadline, codes
<1> QED BY <1>1, Steps, CodesOfGenerate, CodesOfWriting, CodesOfLoad, CodesOfMark,
           CodesOfLapse, CodesOfOthers

-----------------------------------------------------------------------------
(* Devices.                                                                *)

\* What the calls know of devices, as facts about single calls.
LEMMA Devising ==
    ASSUME TInv
    PROVE  /\ None \notin Devices
           /\ \A i \in Calls :
                  /\ calls[i].device \in Devices \cup {None} /\ calls[i].todo \subseteq Devices
                  /\ calls[i].stage \in Naming => calls[i].device \in Devices
                  /\ calls[i].op = "trust" <=> calls[i].stage \in Trusting
<1>1. \A i \in Calls : calls[i] \in Call /\ Fits(calls[i])
  BY Typed
<1> QED BY <1>1, NoneAssumption DEF Call, Fits

\* Calls take on no device, and the devices stay.
LEMMA DevicesStand ==
    ASSUME TInv, TInv', History, DInv, UNCHANGED <<device, listed, print, revoked>>,
           \A j \in Calls :
               \/ calls'[j] = calls[j]
               \/ /\ calls'[j].stage \notin Trusting \cup {"touching", "unlisting"}
                  /\ calls'[j].device \in {None, calls[j].device}
                  /\ calls'[j].todo \subseteq calls[j].todo \cup listed
                  /\ calls'[j].barred \subseteq revoked
    PROVE  DInv'
<1>1. raced \subseteq raced'
  BY Histories DEF TInv
<1>2. NewDevices'
  <2>1. ASSUME NEW i \in Calls, calls'[i].stage \in Trusting
        PROVE  Apart(i, calls[i].device)'
    <3>1. calls'[i] = calls[i] /\ Apart(i, calls[i].device) /\ calls[i].device \in Devices
      BY <2>1, Devising DEF DInv, NewDevices, Naming, Trusting
    <3> QED BY <3>1, Devising DEF Apart
  <2>2. ASSUME NEW d \in Devices, print'[d] = None
        PROVE  (/\ Apart(None, d) /\ device[d] = "no"
                /\ \A i \in Calls : calls[i].device # d)'
    <3>1. /\ Apart(None, d) /\ device[d] = "no" /\ \A i \in Calls : calls[i].device # d
      BY <2>2 DEF DInv, NewDevices
    <3> QED BY <3>1, Devising DEF Apart
  <2> QED BY <2>1, <2>2 DEF NewDevices
<1>3. RevokedIsAway'
  BY <1>1 DEF DInv, RevokedIsAway, Away, At
<1>4. TouchedIsThere'
  BY <1>1 DEF DInv, TouchedIsThere, Away, At
<1>5. NothingForgotten'
  BY <1>1 DEF DInv, NothingForgotten
<1> QED BY <1>2, <1>3, <1>4, <1>5 DEF DInv

\* The steps that do not concern devices, and those that only look.
LEMMA DevicesOfOthers ==
    ASSUME TInv, TInv', History, DInv, NEW i \in Calls,
           \/ StartGenerate(i) \/ Generate(i) \/ StartUse(i) \/ Load(i) \/ Mark(i)
           \/ StartCheck(i) \/ StartList(i) \/ Index(i)
    PROVE  DInv'
<1>1. calls[i].barred \subseteq revoked
  BY DEF DInv, RevokedIsAway
<1>2. Only(i) /\ UNCHANGED devices
  BY Generating, GenerateEnds, Using, Loading, MarkEnds, StartingOthers, Indexing
<1>3. /\ calls'[i].stage \notin Trusting \cup {"touching", "unlisting"}
      /\ calls'[i].device \in {None, calls[i].device}
      /\ calls'[i].todo \subseteq calls[i].todo \cup listed
      /\ calls'[i].barred \subseteq revoked
  <2>1. CASE StartGenerate(i) \/ StartUse(i)
    BY <2>1, Generating, Using DEF Bare, Trusting
  <2>2. CASE Generate(i) \/ Mark(i)
    BY <2>2, GenerateEnds, MarkEnds, IdleFields DEF Trusting
  <2>3. CASE Load(i)
    BY <1>1, <2>3, Loading, IdleFields DEF Trusting
  <2>4. CASE StartCheck(i) \/ StartList(i)
    BY <2>4, StartingOthers DEF Trusting
  <2>5. CASE Index(i)
    BY <1>1, <2>5, Indexing DEF Trusting
  <2> QED BY <2>1, <2>2, <2>3, <2>4, <2>5
<1> QED BY <1>2, <1>3, DevicesStand DEF Only, devices

LEMMA DevicesOfTrust ==
    ASSUME TInv, TInv', History, DInv, NEW i \in Calls, StartTrust(i)
    PROVE  DInv'
<1> DEFINE d == calls'[i].device
<1>1. raced \subseteq raced'
  BY Histories DEF TInv
<1>2. /\ \A j \in Calls \ {i} : calls'[j] = calls[j]
      /\ calls'[i].stage = "storing" /\ d \in Devices
      /\ calls'[i].todo = {} /\ calls'[i].barred = {} /\ print[d] = None
      /\ UNCHANGED <<device, listed, past, revoked>>
  BY StartingTrust DEF Only
<1>3. print'[d] # None /\ \A e \in Devices \ {d} : print'[e] = print[e]
  <2>1. print \in [Devices -> Prints \cup {None}]
    BY DEF TInv, TypeOK
  <2> QED BY <1>2, <2>1, StartingTrust, NoneAssumption
<1>4. Apart(None, d) /\ device[d] = "no" /\ \A j \in Calls : calls[j].device # d
  BY <1>2 DEF DInv, NewDevices
<1> HIDE DEF d
<1>5. NewDevices'
  <2>1. Apart(i, calls[i].device)'
    BY <1>2, <1>4 DEF Apart, d
  <2>2. ASSUME NEW j \in Calls \ {i}, calls'[j].stage \in Trusting
        PROVE  Apart(j, calls[j].device)'
    <3>1. calls'[j] = calls[j] /\ Apart(j, calls[j].device) /\ calls[j].device # d
      BY <1>2, <1>4, <2>2 DEF DInv, NewDevices
    <3> QED BY <1>2, <3>1 DEF Apart, d
  <2>3. ASSUME NEW e \in Devices, print'[e] = None
        PROVE  (/\ Apart(None, e) /\ device[e] = "no"
                /\ \A j \in Calls : calls[j].device # e)'
    <3>1. e # d /\ print[e] = None
      BY <1>3, <2>3
    <3>2. Apart(None, e) /\ device[e] = "no" /\ \A j \in Calls : calls[j].device # e
      BY <3>1 DEF DInv, NewDevices
    <3> QED BY <1>2, <3>1, <3>2 DEF Apart, d
  <2> QED BY <2>1, <2>2, <2>3 DEF NewDevices
<1>6. RevokedIsAway'
  BY <1>1, <1>2 DEF DInv, RevokedIsAway, Away, At
<1>7. TouchedIsThere'
  BY <1>1, <1>2 DEF DInv, TouchedIsThere, Away, At
<1>8. NothingForgotten'
  BY <1>1, <1>2 DEF DInv, NothingForgotten
<1> QED BY <1>5, <1>6, <1>7, <1>8 DEF DInv

\* A new device is stored: nobody else knows it.
LEMMA DevicesOfStore ==
    ASSUME TInv, TInv', History, DInv, NEW i \in Calls, Store(i)
    PROVE  DInv'
<1> DEFINE d == calls[i].device
<1>1. raced \subseteq raced'
  BY Histories DEF TInv
<1>2. /\ \A j \in Calls \ {i} : calls'[j] = calls[j]
      /\ calls[i].stage = "storing"
      /\ \/ calls'[i] = Idle
         \/ /\ calls'[i].stage = "listing" /\ calls'[i].device = d
            /\ calls'[i].todo = calls[i].todo /\ calls'[i].barred = calls[i].barred
      /\ UNCHANGED <<listed, print, past, revoked>>
  BY Storing DEF Only, Gone, Kin
<1>3. d \in Devices /\ Apart(i, d) /\ print[d] # None
  BY <1>2, Devising DEF DInv, NewDevices, Trusting, Naming
<1>4. \A e \in Devices : /\ e # d => device'[e] = device[e]
                         /\ device'[e] \in {device[e], "lapsing"}
  <2>1. device \in [Devices -> Kept]
    BY DEF TInv, TypeOK
  <2> QED BY <2>1, Storing
<1> HIDE DEF d
<1>5. NewDevices'
  <2>1. ASSUME NEW j \in Calls, calls'[j].stage \in Trusting
        PROVE  Apart(j, calls[j].device)'
    <3>1. /\ calls[j].stage \in Trusting /\ calls'[j].device = calls[j].device
          /\ calls[j].device \in Devices /\ Apart(j, calls[j].device)
      BY <1>2, <2>1, Devising, IdleFields DEF DInv, NewDevices, Trusting, Naming, d
    <3>2. \A l \in Calls : calls'[l].device \in {None, calls[l].device}
                           /\ calls'[l].todo \subseteq calls[l].todo
      BY <1>2, IdleFields DEF d
    <3> QED BY <1>2, <3>1, <3>2, Devising DEF Apart
  <2>2. ASSUME NEW e \in Devices, print'[e] = None
        PROVE  (/\ Apart(None, e) /\ device[e] = "no"
                /\ \A j \in Calls : calls[j].device # e)'
    <3>1. Apart(None, e) /\ device[e] = "no" /\ \A j \in Calls : calls[j].device # e
      BY <1>2, <2>2 DEF DInv, NewDevices
    <3>2. \A l \in Calls : calls'[l].device \in {None, calls[l].device}
                           /\ calls'[l].todo \subseteq calls[l].todo
      BY <1>2, IdleFields DEF d
    <3>3. device'[e] = "no"
      BY <1>3, <1>4, <3>1, <2>2, <1>2
    <3> QED BY <1>2, <3>1, <3>2, <3>3, Devising DEF Apart
  <2> QED BY <2>1, <2>2 DEF NewDevices
<1>6. /\ d \notin revoked
      /\ \A j \in Calls : d \notin calls[j].todo /\ (j # i => calls[j].device # d)
  BY <1>3 DEF Apart
<1>7. RevokedIsAway'
  <2>1. \A e \in revoked : device'[e] = device[e]
    BY <1>4, <1>6, Typed DEF DevicesTyped
  <2>2. ASSUME NEW j \in Calls, calls'[j].stage = "unlisting"
        PROVE  Away(calls[j].device)'
    <3>1. j # i /\ calls'[j] = calls[j] /\ calls[j].device \in Devices
      BY <1>2, <2>2, IdleFields, Devising DEF Naming
    <3>2. Away(calls[j].device)
      BY <2>2, <3>1 DEF DInv, RevokedIsAway, At
    <3>3. device'[calls[j].device] = device[calls[j].device]
      BY <1>4, <1>6, <3>1
    <3> QED BY <1>1, <3>1, <3>2, <3>3 DEF Away
  <2>3. \A j \in Calls : calls'[j].barred \subseteq revoked
    BY <1>2, IdleFields DEF DInv, RevokedIsAway
  <2> QED BY <1>1, <1>2, <2>1, <2>2, <2>3 DEF DInv, RevokedIsAway, Away, At
<1>8. TouchedIsThere'
  <2>1. ASSUME NEW j \in Calls, calls'[j].stage = "touching"
        PROVE  (/\ device[calls[j].device] # "no" \/ calls[j].device \in raced
                /\ calls[j].device \in listed \cup raced)'
    <3>1. j # i /\ calls'[j] = calls[j] /\ calls[j].device \in Devices
      BY <1>2, <2>1, IdleFields, Devising DEF Naming
    <3> QED BY <1>1, <1>2, <1>4, <1>6, <2>1, <3>1 DEF DInv, TouchedIsThere, At
  <2>2. ASSUME NEW j \in Calls, NEW e \in calls'[j].todo
        PROVE  e \in listed' \/ Away(e)'
    <3>0. calls'[j].todo \subseteq calls[j].todo
      BY <1>2, IdleFields
    <3>1. e \in calls[j].todo /\ e \in Devices /\ e # d
      BY <1>6, <2>2, <3>0, Devising
    <3> QED BY <1>1, <1>2, <1>4, <3>1 DEF DInv, TouchedIsThere, Away
  <2> QED BY <2>1, <2>2 DEF TouchedIsThere, At
<1>9. NothingForgotten'
  BY <1>1, <1>2, <1>4 DEF DInv, NothingForgotten
<1> QED BY <1>5, <1>7, <1>8, <1>9 DEF DInv

LEMMA DevicesOfEnlist ==
    ASSUME TInv, TInv', History, DInv, NEW i \in Calls, Enlist(i)
    PROVE  DInv'
<1> DEFINE d == calls[i].device
<1>1. raced \subseteq raced'
  BY Histories DEF TInv
<1>2. /\ \A j \in Calls \ {i} : calls'[j] = calls[j]
      /\ calls[i].stage = "listing" /\ calls'[i] = Idle
      /\ listed' \in {listed, listed \cup {d}}
      /\ UNCHANGED <<device, print, past, revoked>>
  BY Enlisting DEF Only, Gone
<1>3. d \in Devices /\ Apart(i, d) /\ print[d] # None
  BY <1>2, Devising DEF DInv, NewDevices, Trusting, Naming
<1> HIDE DEF d
<1>4. NewDevices'
  <2>1. ASSUME NEW j \in Calls, calls'[j].stage \in Trusting
        PROVE  Apart(j, calls[j].device)'
    <3>1. /\ j # i /\ calls'[j] = calls[j] /\ calls[j].device \in Devices
          /\ Apart(j, calls[j].device) /\ calls[j].device # d
      BY <1>2, <1>3, <2>1, Devising, IdleFields DEF DInv, NewDevices, Trusting, Naming, Apart
    <3> QED BY <1>2, <3>1, IdleFields, Devising DEF Apart
  <2>2. ASSUME NEW e \in Devices, print'[e] = None
        PROVE  (/\ Apart(None, e) /\ device[e] = "no"
                /\ \A j \in Calls : calls[j].device # e)'
    <3>1. Apart(None, e) /\ device[e] = "no" /\ \A j \in Calls : calls[j].device # e
      BY <1>2, <2>2 DEF DInv, NewDevices
    <3> QED BY <1>2, <1>3, <2>2, <3>1, IdleFields, Devising DEF Apart
  <2> QED BY <2>1, <2>2 DEF NewDevices
<1>5. RevokedIsAway'
  BY <1>1, <1>2, IdleFields DEF DInv, RevokedIsAway, Away, At
<1>6. TouchedIsThere'
  BY <1>1, <1>2, IdleFields DEF DInv, TouchedIsThere, Away, At
<1>7. NothingForgotten'
  BY <1>1, <1>2 DEF DInv, NothingForgotten
<1> QED BY <1>4, <1>5, <1>6, <1>7 DEF DInv

\* A call goes on with a device that it may know.
LEMMA NewStand ==
    ASSUME TInv, DInv, NEW i \in Calls, Only(i), print' = print, listed' \subseteq listed,
           revoked' \subseteq revoked \cup {calls[i].device},
           calls'[i].stage \notin Trusting, calls'[i].todo \subseteq calls[i].todo,
           \/ calls'[i].device \in {None, calls[i].device} \cup calls[i].todo
           \/ /\ print[calls'[i].device] # None
              /\ \A j \in Calls : calls[j].op = "trust" => calls[j].device # calls'[i].device,
           \A e \in Devices : print[e] = None => device'[e] \in {device[e], "no"}
    PROVE  NewDevices'
<1>1. \A j \in Calls \ {i} : calls'[j] = calls[j]
  BY DEF Only
<1>2. \A j \in Calls : calls'[j].todo \subseteq calls[j].todo
  BY <1>1
<1>3. ASSUME NEW j \in Calls, calls'[j].stage \in Trusting
      PROVE  Apart(j, calls[j].device)'
  <2> DEFINE d == calls[j].device
  <2>1. j # i /\ calls'[j] = calls[j] /\ d \in Devices /\ calls[j].op = "trust" /\ Apart(j, d)
    BY <1>1, <1>3, Devising DEF DInv, NewDevices, Naming, Trusting
  <2> HIDE DEF d
  <2>2. /\ d \notin listed \cup revoked /\ calls[i].device # d
        /\ \A l \in Calls \ {j} : calls[l].device # d
        /\ \A l \in Calls : d \notin calls[l].todo
    BY <2>1 DEF Apart
  <2>3. calls'[i].device # d
    BY <2>1, <2>2, Devising DEF d
  <2>4. \A l \in Calls \ {j} : calls'[l].device # d
    BY <1>1, <2>2, <2>3
  <2>5. \A l \in Calls : d \notin calls'[l].todo
    BY <1>2, <2>2
  <2>6. d \notin listed' \cup revoked'
    BY <2>2
  <2>7. d = calls'[j].device
    BY <2>1 DEF d
  <2> QED BY <2>4, <2>5, <2>6, <2>7 DEF Apart
<1>4. ASSUME NEW e \in Devices, print'[e] = None
      PROVE  (/\ Apart(None, e) /\ device[e] = "no"
              /\ \A j \in Calls : calls[j].device # e)'
  <2>1. /\ e \notin listed \cup revoked /\ device[e] = "no"
        /\ \A j \in Calls : calls[j].device # e
        /\ \A j \in Calls : e \notin calls[j].todo
    BY <1>4 DEF DInv, NewDevices, Apart
  <2>2. e \notin listed' \cup revoked' /\ device'[e] = "no"
    BY <1>4, <2>1
  <2>3. calls'[i].device # e
    BY <1>4, <2>1, Devising
  <2>4. \A j \in Calls : calls'[j].device # e /\ e \notin calls'[j].todo
    BY <1>1, <1>2, <2>1, <2>3
  <2> QED BY <2>2, <2>4 DEF Apart
<1> QED BY <1>3, <1>4 DEF NewDevices

\* Devices go, or are revoked, and are taken off the list once they are away.
LEMMA DevicesGo ==
    ASSUME TInv, TInv', History, DInv, NEW i \in Calls,
           \A e \in Devices : device'[e] \in {device[e], "no"},
           \A e \in listed : e \in listed' \/ device'[e] = "no" \/ e \in raced,
           revoked \subseteq revoked',
           \A e \in revoked' : e \in revoked \/ device'[e] = "no" \/ e \in raced,
           \/ calls' = calls
           \/ /\ Only(i)
              /\ calls'[i].stage = "touching" =>
                     /\ device'[calls'[i].device] # "no"
                     /\ calls'[i].device \in listed' \cup raced
              /\ calls'[i].stage = "unlisting" => device'[calls'[i].device] = "no"
              /\ calls'[i].todo \subseteq calls[i].todo
              /\ calls'[i].barred \subseteq revoked
    PROVE  RevokedIsAway' /\ TouchedIsThere' /\ NothingForgotten'
<1>1. raced \subseteq raced'
  BY Histories DEF TInv
<1>2. /\ \A j \in Calls \ {i} : calls'[j] = calls[j]
      /\ calls'[i] = calls[i]
         \/ /\ calls'[i].stage = "touching" =>
                   /\ device'[calls'[i].device] # "no"
                   /\ calls'[i].device \in listed' \cup raced
            /\ calls'[i].stage = "unlisting" => device'[calls'[i].device] = "no"
            /\ calls'[i].todo \subseteq calls[i].todo
            /\ calls'[i].barred \subseteq revoked
  BY DEF Only
<1>3. \A e \in Devices : device[e] = "no" \/ e \in raced => device'[e] = "no" \/ e \in raced'
  BY <1>1
<1>4. listed \subseteq Devices /\ revoked \subseteq Devices
  BY Typed DEF DevicesTyped
<1>5. RevokedIsAway'
  <2>1. \A e \in revoked' : device'[e] = "no" \/ e \in raced'
    BY <1>1, <1>3, <1>4 DEF DInv, RevokedIsAway, Away
  <2>2. ASSUME NEW j \in Calls, calls'[j].stage = "unlisting"
        PROVE  device'[calls'[j].device] = "no" \/ calls'[j].device \in raced'
    <3>1. CASE calls'[j] = calls[j]
      <4>1. calls[j].device \in Devices
        BY <2>2, <3>1, Devising DEF Naming
      <4> QED BY <1>3, <2>2, <3>1, <4>1 DEF DInv, RevokedIsAway, Away, At
    <3>2. CASE calls'[j] # calls[j]
      BY <1>2, <2>2, <3>2
    <3> QED BY <3>1, <3>2
  <2>3. \A j \in Calls : calls'[j].barred \subseteq revoked'
    BY <1>2 DEF DInv, RevokedIsAway
  <2> QED BY <2>1, <2>2, <2>3 DEF RevokedIsAway, Away, At
<1>6. TouchedIsThere'
  <2>1. ASSUME NEW j \in Calls, calls'[j].stage = "touching"
        PROVE  /\ device'[calls'[j].device] # "no" \/ calls'[j].device \in raced'
               /\ calls'[j].device \in listed' \cup raced'
    <3>1. CASE calls'[j] = calls[j]
      <4> DEFINE d == calls[j].device
      <4>1. /\ d \in Devices
            /\ device[d] # "no" \/ d \in raced
            /\ d \in listed \cup raced
        BY <2>1, <3>1, Devising DEF DInv, TouchedIsThere, At, Naming
      <4>2. device[d] # "no" /\ device'[d] = "no" => d \in raced'
        BY <2>1, <3>1, <4>1, Histories, Devising DEF TInv, At, Naming
      <4> HIDE DEF d
      <4>3. device'[d] # "no" \/ d \in raced'
        BY <1>1, <4>1, <4>2
      <4>4. d \in listed' \cup raced'
        BY <1>1, <4>1, <4>3
      <4> QED BY <3>1, <4>3, <4>4 DEF d
    <3>2. CASE calls'[j] # calls[j]
      BY <1>1, <1>2, <2>1, <3>2
    <3> QED BY <3>1, <3>2
  <2>2. ASSUME NEW j \in Calls, NEW e \in calls'[j].todo
        PROVE  e \in listed' \/ device'[e] = "no" \/ e \in raced'
    <3>1. calls'[j].todo \subseteq calls[j].todo
      BY <1>2
    <3>2. e \in Devices /\ (e \in listed \/ device[e] = "no" \/ e \in raced)
      BY <2>2, <3>1, Devising DEF DInv, TouchedIsThere, Away
    <3> QED BY <1>1, <1>3, <3>2
  <2> QED BY <2>1, <2>2 DEF TouchedIsThere, Away, At
<1>7. NothingForgotten'
  BY <1>1, <1>4 DEF DInv, NothingForgotten
<1> QED BY <1>5, <1>6, <1>7

LEMMA DevicesOfRead ==
    ASSUME TInv, TInv', History, DInv, NEW i \in Calls, ReadDevice(i)
    PROVE  DInv'
<1>1. /\ UNCHANGED <<device, listed, print, past, revoked>>
      /\ Only(i) /\ calls'[i].todo \subseteq calls[i].todo
      /\ calls'[i].barred \in {{}, calls[i].barred}
      /\ calls'[i].device \in {None} \cup calls[i].todo
      /\ calls'[i].stage \notin Trusting \cup {"unlisting"}
  BY Reading DEF devices, Trusting
<1>2. calls'[i].stage = "touching" =>
          device[calls'[i].device] # "no" /\ calls'[i].device \in listed \cup raced
  <2>1. calls'[i].stage = "touching" =>
            device[calls'[i].device] # "no" /\ calls'[i].device \in calls[i].todo
    BY Reading
  <2> QED BY <2>1 DEF DInv, TouchedIsThere, Away
<1>3. calls'[i].barred \subseteq revoked
  BY <1>1 DEF DInv, RevokedIsAway
<1>4. NewDevices'
  BY <1>1, NewStand
<1>5. RevokedIsAway' /\ TouchedIsThere' /\ NothingForgotten'
  BY <1>1, <1>2, <1>3, DevicesGo
<1> QED BY <1>4, <1>5 DEF DInv

LEMMA DevicesOfStart ==
    ASSUME TInv, TInv', History, DInv, NEW i \in Calls, StartRevoke(i)
    PROVE  DInv'
<1>1. /\ UNCHANGED <<device, listed, print, past, revoked>>
      /\ Only(i) /\ calls'[i].todo = {} /\ calls'[i].barred = {}
      /\ calls'[i].stage = "looking" /\ print[calls'[i].device] # None
      /\ \A j \in Calls : calls[j].op = "trust" => calls[j].device # calls'[i].device
  BY StartingRevoke DEF devices
<1>2. NewDevices'
  BY <1>1, NewStand DEF Trusting
<1>3. RevokedIsAway' /\ TouchedIsThere' /\ NothingForgotten'
  BY <1>1, DevicesGo
<1> QED BY <1>2, <1>3 DEF DInv

LEMMA DevicesOfLook ==
    ASSUME TInv, TInv', History, DInv, NEW i \in Calls, Look(i)
    PROVE  DInv'
<1>1. calls[i].barred \subseteq revoked
  BY DEF DInv, RevokedIsAway
<1>2. /\ UNCHANGED <<device, listed, print, past>>
      /\ Only(i) /\ calls'[i].todo \subseteq calls[i].todo
      /\ calls'[i].barred \subseteq revoked
      /\ calls'[i].device \in {None, calls[i].device}
      /\ calls'[i].stage \in {"idle", "reading", "deleting"}
  BY <1>1, Looking, IdleFields DEF Gone, Kin, Leaving
<1>3. /\ revoked \subseteq revoked' /\ revoked' \subseteq revoked \cup {calls[i].device}
      /\ \A e \in revoked' : e \in revoked \/ device[e] = "no"
  BY Looking
<1>4. NewDevices'
  BY <1>2, <1>3, NewStand DEF Trusting
<1>5. RevokedIsAway' /\ TouchedIsThere' /\ NothingForgotten'
  BY <1>2, <1>3, DevicesGo
<1> QED BY <1>4, <1>5 DEF DInv

LEMMA DevicesOfDelete ==
    ASSUME TInv, TInv', History, DInv, NEW i \in Calls, Delete(i)
    PROVE  DInv'
<1>1. calls[i].barred \subseteq revoked /\ calls[i].device \in Devices
  BY Deleting, Devising DEF DInv, RevokedIsAway, Naming
<1>2. /\ UNCHANGED <<listed, print, past, revoked>>
      /\ Only(i) /\ calls'[i].todo \subseteq calls[i].todo
      /\ calls'[i].barred \subseteq revoked
      /\ calls'[i].device \in {None, calls[i].device}
      /\ calls'[i].stage \in {"idle", "unlisting"}
  BY <1>1, Deleting, IdleFields DEF Gone, Kin
<1>3. /\ \A e \in Devices : device'[e] \in {device[e], "no"}
      /\ calls'[i].stage = "unlisting" => device'[calls'[i].device] = "no"
  <2>1. device \in [Devices -> Kept]
    BY Typed DEF DevicesTyped
  <2> QED BY <1>1, <2>1, Deleting, IdleFields DEF Gone, Kin
<1>4. NewDevices'
  BY <1>2, <1>3, NewStand DEF Trusting
<1>5. RevokedIsAway' /\ TouchedIsThere' /\ NothingForgotten'
  BY <1>2, <1>3, DevicesGo
<1> QED BY <1>4, <1>5 DEF DInv

LEMMA DevicesOfUnlist ==
    ASSUME TInv, TInv', History, DInv, NEW i \in Calls, Unlist(i)
    PROVE  DInv'
<1>1. /\ calls[i].barred \subseteq revoked
      /\ device[calls[i].device] = "no" \/ calls[i].device \in raced
  BY Unlisting DEF DInv, RevokedIsAway, At, Away
<1>2. /\ UNCHANGED <<device, print, past>> /\ revoked' = revoked \cup {calls[i].device}
      /\ listed' \in {listed, listed \ {calls[i].device}}
      /\ Only(i) /\ calls'[i].todo \subseteq calls[i].todo
      /\ calls'[i].barred \subseteq revoked /\ calls'[i].device = None
      /\ calls'[i].stage \in {"idle", "reading"}
  BY <1>1, Unlisting DEF Leaving
<1>3. NewDevices'
  BY <1>2, NewStand DEF Trusting
<1>4. RevokedIsAway' /\ TouchedIsThere' /\ NothingForgotten'
  BY <1>1, <1>2, DevicesGo
<1> QED BY <1>3, <1>4 DEF DInv

LEMMA DevicesOfDeadline ==
    ASSUME TInv, TInv', History, DInv, NEW d \in Devices, Deadline(d)
    PROVE  DInv'
<1>1. UNCHANGED <<listed, print, revoked, calls>>
  BY DEF Deadline
<1>2. \A e \in Devices : device'[e] \in {device[e], "no"}
  BY Typed DEF Deadline, DevicesTyped
<1>3. NewDevices'
  BY <1>1, <1>2 DEF DInv, NewDevices, Apart
<1>4. CASE Calls = {}
  <2>1. raced \subseteq raced'
    BY Histories DEF TInv
  <2>2. \A e \in Devices : device'[e] = "lasting" => device[e] = "lasting"
    BY <1>2
  <2>3. revoked \subseteq Devices
    BY Typed DEF DevicesTyped
  <2> QED BY <1>1, <1>2, <1>3, <1>4, <2>1, <2>2, <2>3
          DEF DInv, RevokedIsAway, TouchedIsThere, NothingForgotten, Away
<1>5. ASSUME NEW i \in Calls
      PROVE  RevokedIsAway' /\ TouchedIsThere' /\ NothingForgotten'
  BY <1>1, <1>2, DevicesGo
<1> QED BY <1>3, <1>4, <1>5 DEF DInv

\* A check writes the device that it has read: it is there, or was deleted meanwhile.
LEMMA DevicesOfTouch ==
    ASSUME TInv, TInv', History, DInv, NEW i \in Calls, Touch(i)
    PROVE  DInv'
<1> DEFINE d == calls[i].device
<1>1. raced \subseteq raced'
  BY Histories DEF TInv
<1>2. /\ \A j \in Calls \ {i} : calls'[j] = calls[j]
      /\ calls[i].stage = "touching" /\ calls'[i] = Idle /\ Only(i)
      /\ UNCHANGED <<listed, print, past, revoked>>
  BY Touching DEF Only, Gone
<1>3. d \in Devices
  BY <1>2, Devising DEF Naming
<1>4. /\ d \in listed \cup raced
      /\ device[d] = "no" => d \in raced
  BY <1>2 DEF DInv, TouchedIsThere, At
<1>5. \A e \in Devices : e # d => device'[e] = device[e]
  BY Touching, Typed DEF DevicesTyped
<1>6. \A e \in Devices : device[e] # "no" => device'[e] # "no"
  BY Touching, Typed DEF DevicesTyped
<1>7. print[d] # None
  BY <1>2, Devising DEF DInv, NewDevices, Naming
<1>8. NewDevices'
  BY <1>2, <1>5, <1>7, IdleFields, NewStand DEF Trusting
<1> HIDE DEF d
<1>9. \A e \in Devices : device[e] = "no" \/ e \in raced => device'[e] = "no" \/ e \in raced'
  BY <1>1, <1>4, <1>5
<1>10. revoked \subseteq Devices
  BY Typed DEF DevicesTyped
<1>11. RevokedIsAway'
  <2>1. \A e \in revoked' : device'[e] = "no" \/ e \in raced'
    BY <1>2, <1>9, <1>10 DEF DInv, RevokedIsAway, Away
  <2>2. ASSUME NEW j \in Calls, calls'[j].stage = "unlisting"
        PROVE  device'[calls'[j].device] = "no" \/ calls'[j].device \in raced'
    <3>1. calls'[j] = calls[j] /\ calls[j].stage = "unlisting" /\ calls[j].device \in Devices
      BY <1>2, <2>2, IdleFields, Devising DEF Naming
    <3> QED BY <1>9, <3>1 DEF DInv, RevokedIsAway, Away, At
  <2>3. \A j \in Calls : calls'[j].barred \subseteq revoked'
    BY <1>2, IdleFields DEF DInv, RevokedIsAway
  <2> QED BY <2>1, <2>2, <2>3 DEF RevokedIsAway, Away, At
<1>12. TouchedIsThere'
  <2>1. ASSUME NEW j \in Calls, calls'[j].stage = "touching"
        PROVE  /\ device'[calls'[j].device] # "no" \/ calls'[j].device \in raced'
               /\ calls'[j].device \in listed' \cup raced'
    <3>1. calls'[j] = calls[j] /\ calls[j].stage = "touching" /\ calls[j].device \in Devices
      BY <1>2, <2>1, IdleFields, Devising DEF Naming
    <3> QED BY <1>1, <1>2, <1>6, <3>1 DEF DInv, TouchedIsThere, At
  <2>2. ASSUME NEW j \in Calls, NEW e \in calls'[j].todo
        PROVE  e \in listed' \/ device'[e] = "no" \/ e \in raced'
    <3>1. calls'[j].todo \subseteq calls[j].todo
      BY <1>2, IdleFields
    <3>2. e \in Devices /\ (e \in listed \/ device[e] = "no" \/ e \in raced)
      BY <2>2, <3>1, Devising DEF DInv, TouchedIsThere, Away
    <3> QED BY <1>2, <1>9, <3>2
  <2> QED BY <2>1, <2>2 DEF TouchedIsThere, Away, At
<1>13. NothingForgotten'
  BY <1>1, <1>2, <1>4, <1>5 DEF DInv, NothingForgotten
<1> QED BY <1>8, <1>11, <1>12, <1>13 DEF DInv

LEMMA DevicesNext ==
    ASSUME TInv, TInv', Next, DInv
    PROVE  DInv'
<1>1. ASSUME LapseCodes
      PROVE  DInv'
  BY <1>1, Steps, DevicesStand DEF LapseCodes, devices
<1> QED BY <1>1, Steps, DevicesOfOthers, DevicesOfTrust, DevicesOfStore, DevicesOfEnlist,
           DevicesOfRead, DevicesOfStart, DevicesOfLook, DevicesOfDelete, DevicesOfUnlist,
           DevicesOfDeadline, DevicesOfTouch

-----------------------------------------------------------------------------
(* The invariant, and the theorems.                                        *)

IInv == TInv /\ CInv /\ DInv

LEMMA Starting ==
    ASSUME Init
    PROVE  IInv
<1>1. /\ backup = NoCodes /\ sets = 0 /\ newest = 0 /\ held = {}
      /\ passed = {} /\ repeated = {} /\ mixed = {}
      /\ device = [d \in Devices |-> "no"] /\ listed = {}
      /\ print = [d \in Devices |-> None] /\ past = {} /\ revoked = {} /\ raced = {}
      /\ calls = [i \in Calls |-> Idle] /\ work \in Works
  BY DEF Init
<1>2. 0 \in 0..MaxSets /\ 0 <= 0
  BY BoundsAssumption
<1>3. TypeOK
  <2>1. backup \in [set : 0..MaxSets, used : SUBSET Codes]
    BY <1>1, <1>2 DEF NoCodes
  <2>2. calls \in [Calls -> Call]
    BY <1>1, IdleFields
  <2>3. device \in [Devices -> Kept] /\ print \in [Devices -> Prints \cup {None}]
    BY <1>1 DEF Kept
  <2> QED BY <1>1, <1>2, <2>1, <2>2, <2>3 DEF TypeOK
<1>4. Fitting
  <2>1. \A i \in Calls : calls[i] = Idle
    BY <1>1
  <2>2. \A i \in Calls : Fits(calls[i])
    BY <2>1, IdleFields DEF Fits, Coding, Trusting, Naming
  <2> QED BY <1>1, <1>2, <2>2 DEF Fitting, NoCodes
<1>5. CInv
  BY <1>1, IdleFields DEF CInv, WritersApart, PassedIsUsed, CodePassesOnce, NewInv,
     StoredIsNew, ReplacedIsRefused, NoCodes, At, Marks
<1>6. DInv
  BY <1>1, IdleFields, NoneAssumption DEF DInv, NewDevices, RevokedIsAway, TouchedIsThere,
     NothingForgotten, Apart, Away, At, Trusting
<1> QED BY <1>3, <1>4, <1>5, <1>6 DEF IInv, TInv

\* The inductive invariant: types, and what each stage of a call needs; codes
\* that passed are used wherever their set is kept; a set that is kept or about
\* to be is the newest, or was held; a device that is stored for the first time
\* is known to one call, and one that was revoked is away.
THEOREM Invariance == Spec => []IInv
<1>1. IInv /\ [Next]_vars => IInv'
  <2>1. ASSUME IInv, Next
        PROVE  IInv'
    BY <2>1, TypesNext, CodesNext, DevicesNext DEF IInv
  <2>2. ASSUME IInv, UNCHANGED vars
        PROVE  IInv'
    <3>1. /\ TInv' /\ CInv'
      BY <2>2 DEF vars, codes, devices, IInv, TInv, TypeOK, Fitting, Fits, CInv, WritersApart,
           PassedIsUsed, CodePassesOnce, NewInv, StoredIsNew, ReplacedIsRefused, At, Marks
    <3>2. DInv'
      BY <2>2 DEF vars, codes, devices, IInv, DInv, NewDevices, RevokedIsAway,
           TouchedIsThere, NothingForgotten, Apart, Away, At
    <3> QED BY <3>1, <3>2 DEF IInv
  <2> QED BY <2>1, <2>2
<1> QED BY <1>1, Starting, PTL DEF Spec

\* Codes, devices and calls keep their types, for any number of each.
THEOREM TypesHold == Spec => []TypeOK
<1>1. IInv => TypeOK
  BY DEF IInv, TInv
<1> QED BY <1>1, Invariance, PTL

\* useBackupCode: a code passes once, for any number of calls, codes and sets,
\* unless two calls held copies of its set at the same time.
THEOREM CodesPassOnce == Spec => []CodePassesOnce
<1>1. IInv => CodePassesOnce
  BY DEF IInv, CInv
<1> QED BY <1>1, Invariance, PTL

\* generateBackupCodes: a code of a set that another has replaced does not pass,
\* unless a use held a copy of its set when it was replaced; whatever fails, and
\* however many sets are generated at once.
THEOREM ReplacedAreRefused == Spec => []ReplacedIsRefused
<1>1. IInv => ReplacedIsRefused
  BY DEF IInv, CInv, NewInv
<1> QED BY <1>1, Invariance, PTL

\* revokeTrustedDevice: no login that begins later trusts the device, unless a
\* login was about to write it when it was deleted; whatever failed.
THEOREM RevokedAreRefused == Spec => []RevokedIsRefused
<1>1. IInv => RevokedIsRefused
  <2> SUFFICES ASSUME IInv, NEW i \in Calls, At(i, "touching"),
                      calls[i].device \in calls[i].barred, calls[i].device \notin raced
               PROVE  FALSE
    BY DEF RevokedIsRefused
  <2>1. calls[i].device \in revoked
    BY DEF IInv, DInv, RevokedIsAway
  <2>2. device[calls[i].device] = "no"
    BY <2>1 DEF IInv, DInv, RevokedIsAway, Away
  <2>3. device[calls[i].device] # "no"
    BY DEF IInv, DInv, TouchedIsThere
  <2> QED BY <2>2, <2>3
<1> QED BY <1>1, Invariance, PTL

\* isDeviceTrusted makes devices stay for good only while they are on the list
\* from which getTrustedDevices and the user remove them, but for that race.
THEOREM NothingIsForgotten == Spec => []NothingForgotten
<1>1. IInv => NothingForgotten
  BY DEF IInv, DInv
<1> QED BY <1>1, Invariance, PTL
=============================================================================
