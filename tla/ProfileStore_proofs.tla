-------------------------- MODULE ProfileStore_proofs --------------------------
(* The inductive invariant of ProfileStore, and what follows from it. *)
EXTENDS ProfileStore, WellFoundedInduction, TLAPS

FileStates == [is : {"absent", "empty", "torn", "whole"}, has : Seq(Profiles)]

LEMMA FileTypes ==
  /\ <<>> \in Seq(Profiles)
  /\ Absent \in FileStates /\ Empty \in FileStates /\ Torn \in FileStates
  /\ \A s \in Seq(Profiles) : Whole(s) \in FileStates
<1>1. <<>> \in Seq(Profiles)
  OBVIOUS
<1> QED
  BY <1>1 DEF FileStates, Absent, Empty, Torn, Whole

\* Appending adds one element and keeps the others.
LEMMA ElemsAppend ==
  ASSUME NEW s \in Seq(Profiles), NEW p \in Profiles
  PROVE  Elems(Append(s, p)) = Elems(s) \cup {p}
<1>1. /\ DOMAIN Append(s, p) = 1..(Len(s) + 1) /\ DOMAIN s = 1..Len(s) /\ Len(s) \in Nat
      /\ \A n \in 1..Len(s) : Append(s, p)[n] = s[n]
      /\ Append(s, p)[Len(s) + 1] = p
  OBVIOUS
<1>2. 1..(Len(s) + 1) = 1..Len(s) \cup {Len(s) + 1}
  BY <1>1
<1> HIDE DEF Elems
<1>3. ASSUME NEW x PROVE x \in Elems(Append(s, p)) <=> x \in Elems(s) \cup {p}
  BY <1>1, <1>2 DEF Elems
<1> QED
  BY <1>3

LEMMA ElemsTypes ==
  /\ Elems(<<>>) = {}
  /\ \A s \in Seq(Profiles) : Elems(s) \subseteq Profiles
<1>1. Elems(<<>>) = {}
  BY DEF Elems
<1>2. ASSUME NEW s \in Seq(Profiles) PROVE Elems(s) \subseteq Profiles
  BY DEF Elems
<1> QED
  BY <1>1, <1>2

\* What the server builds is a profile.
LEMMA Builds ==
  ASSUME config \in [host : Names, tunnelType : Names], NEW r \in Requests, NEW id \in Ids
  PROVE  buildProfile(config, r, id) \in Profiles /\ buildProfile(config, r, id).ID = id
<1>1. r \in Request
  BY InputsAssumption
<1>2. /\ config.host \in Names /\ config.tunnelType \in Names
      /\ r.name \in Names /\ r.tunnelType \in Names /\ r.connectionMethod \in Names /\ r.days \in Int
  BY <1>1 DEF Request
<1> DEFINE T == IF r.tunnelType = "" THEN config.tunnelType ELSE r.tunnelType
           M == IF r.connectionMethod = "" THEN "ssh" ELSE r.connectionMethod
           D == IF r.days <= 0 THEN 30 ELSE r.days
<1>3. T \in Names /\ M \in Names
  BY <1>2, NamesAssumption
<1>5. D \in Int
  BY <1>2
<1>4. buildProfile(config, r, id) =
        [ID |-> id, Name |-> r.name, TunnelType |-> T, ConnectionMethod |-> M,
         Server |-> config.host, DaysValid |-> D]
  BY DEF buildProfile
<1> HIDE DEF T, M, D
<1> QED
  BY <1>2, <1>3, <1>4, <1>5 DEF Profiles

LEMMA ConfigTypes ==
  /\ Unloaded \in [host : Names, tunnelType : Names]
  /\ \A f \in ConfigFiles : loadConfig(f) \in [host : Names, tunnelType : Names]
<1>1. Unloaded \in [host : Names, tunnelType : Names]
  BY NamesAssumption DEF Unloaded
<1>2. ASSUME NEW f \in ConfigFiles PROVE loadConfig(f) \in [host : Names, tunnelType : Names]
  <2> DEFINE T == IF f.tunnelType = "" THEN "vayDnsSsh" ELSE f.tunnelType
  <2>1. f.host \in Names /\ f.tunnelType \in Names
    BY InputsAssumption DEF ConfigFile
  <2>2. T \in Names
    BY <2>1, NamesAssumption
  <2>3. loadConfig(f) = [host |-> f.host, tunnelType |-> T]
    BY DEF loadConfig
  <2> HIDE DEF T
  <2> QED
    BY <2>1, <2>2, <2>3
<1> QED
  BY <1>1, <1>2

\* Of a list without two profiles of one id, get finds each profile by its id.
LEMMA GetFinds ==
  ASSUME NEW p \in Elems(profiles), profiles \in Seq(Profiles),
         \A q \in Elems(profiles) : q.ID = p.ID => q = p
  PROVE  get(p.ID) = {p}
<1> DEFINE Has == {n \in DOMAIN profiles : profiles[n].ID = p.ID}
<1>1. DOMAIN profiles \subseteq Nat
  OBVIOUS
<1>2. Has \subseteq Nat /\ Has # {}
  BY <1>1 DEF Elems
<1>3. PICK n \in Has : \A m \in Has : ~(m < n)
  <2>1. PICK n \in Has : \A m \in Has : ~(<<m, n>> \in OpToRel(<, Nat))
    BY <1>2, NatLessThanWellFounded, WFMin
  <2> QED
    BY <2>1, <1>2 DEF OpToRel
<1>4. profiles[n] = p /\ profiles[n] \in get(p.ID)
  BY <1>3 DEF get, Elems
<1>5. \A q \in get(p.ID) : q = p
  BY DEF get, Elems
<1> QED
  BY <1>4, <1>5

LEMMA GetLists == \A id : get(id) \subseteq Elems(profiles)
BY DEF get, Elems

\* Refused requests and failed starts change nothing.
LEMMA StutterSteps ==
  /\ \A f \in ConfigFiles : StartFails(f) => UNCHANGED vars
  /\ \A r \in Requests : Refuse(r) => UNCHANGED vars
BY DEF StartFails, Refuse

LEMMA InitIInv == Init => IInv
<1> SUFFICES ASSUME Init PROVE IInv
  OBVIOUS
<1>1. TypeOK
  <2>1. file \in FileStates /\ profiles \in Seq(Profiles) /\ raw \in [Clients -> Seq(Profiles)]
    BY FileTypes DEF Init
  <2>2. crashes \in 0..MaxCrashes
    BY MaxCrashesAssumption DEF Init
  <2> QED
    BY <2>1, <2>2, ConfigTypes DEF Init, TypeOK, FileStates
<1>2. LockInv
  BY NoneAssumption DEF Init, LockInv, Writing
<1>3. FileFollowsMemory /\ \A c \in Clients : AddInv(c)
  BY DEF Init, FileFollowsMemory, AddInv
<1>5. MadeInv
  BY ElemsTypes DEF Init, MadeInv, Absent
<1>4. known \subseteq Elems(file.has) /\ file.is # "torn"
  BY DEF Init, Absent
<1> QED
  BY <1>1, <1>2, <1>3, <1>4, <1>5 DEF IInv, Init

\* A step keeps every variable in its type.
LEMMA TypeStep == IInv /\ [Next]_vars => TypeOK'
<1> SUFFICES ASSUME IInv, [Next]_vars PROVE TypeOK'
  OBVIOUS
<1> USE FileTypes, NoneAssumption, MaxCrashesAssumption DEF IInv, TypeOK, FileStates
<1>1. ASSUME NEW f \in ConfigFiles, newProfileStore(f) PROVE TypeOK'
  BY <1>1, ElemsTypes, ConfigTypes DEF newProfileStore, handlerVars
<1>2. CASE UNCHANGED vars
  BY <1>2 DEF vars, handlerVars, historyVars
<1>3. ASSUME NEW c \in Clients, NEW r \in Requests, NEW id \in Ids, Post(c, r, id) PROVE TypeOK'
  <2>1. buildProfile(config, r, id) \in Profiles
    BY Builds
  <2> QED
    BY <1>3, <2>1 DEF Post, Goto, historyVars
<1>4. ASSUME NEW c \in Clients, Lock(c) PROVE TypeOK'
  BY <1>4 DEF Lock, Goto, historyVars
<1>5. ASSUME NEW c \in Clients, AppendProfile(c) PROVE TypeOK'
  BY <1>5 DEF AppendProfile, Goto, historyVars, AddInv
<1>6. ASSUME NEW c \in Clients, Truncate(c) \/ OpenFails(c) \/ WriteAll(c) \/ WriteFails(c)
      PROVE  TypeOK'
  <2>1. file' \in FileStates
    BY <1>6 DEF Truncate, OpenFails, WriteAll, WriteFails
  <2>2. /\ UNCHANGED <<up, config, mu, profiles, prof, raw, made, crashes, known>>
        /\ pc' = [pc EXCEPT ![c] = "write"] \/ pc' = [pc EXCEPT ![c] = "answer201"]
             \/ pc' = [pc EXCEPT ![c] = "answer500"]
        /\ behind' \in {behind, TRUE, FALSE}
    BY <1>6 DEF Truncate, OpenFails, WriteAll, WriteFails, Goto, historyVars
  <2> QED
    BY <2>1, <2>2
<1>7. ASSUME NEW c \in Clients, AnswerCreated(c) \/ AnswerFailed(c) PROVE TypeOK'
  <2>1. pc[c] # "idle" /\ AddInv(c)
    BY <1>7 DEF AnswerCreated, AnswerFailed
  <2>2. prof[c] \in Profiles
    BY <2>1 DEF AddInv
  <2>3. /\ <<mu', up', config', profiles', file', made', crashes'>> = <<None, up, config, profiles, file, made, crashes>>
        /\ pc' = [pc EXCEPT ![c] = "idle"]
        /\ prof' = [prof EXCEPT ![c] = None]
        /\ raw' = [raw EXCEPT ![c] = <<>>]
    BY <1>7 DEF AnswerCreated, AnswerFailed, Release, Goto
  <2>4. known' \in SUBSET Profiles
    BY <1>7, <2>2 DEF AnswerCreated, AnswerFailed
  <2>5. behind' = behind
    BY <1>7 DEF AnswerCreated, AnswerFailed
  <2> QED
    BY <2>3, <2>4, <2>5
<1>8. CASE \E r \in Requests : list(r) \/ GetConfig(r)
  BY <1>8, ElemsTypes, GetLists DEF list, GetConfig, handlerVars
<1>9. CASE Crash
  <2>1. file' \in FileStates
    BY <1>9 DEF Crash
  <2>2. crashes' \in 0..MaxCrashes
    BY <1>9 DEF Crash
  <2>3. behind' \in BOOLEAN
    BY <1>9, Zenon DEF Crash
  <2> QED
    BY <1>9, <2>1, <2>2, <2>3, ConfigTypes DEF Crash
<1> QED
  BY <1>1, <1>2, <1>3, <1>4, <1>5, <1>6, <1>7, <1>8, <1>9, StutterSteps DEF Next

\* The invariant but for its part about what was built.
StoreInv ==
  /\ TypeOK /\ LockInv /\ FileFollowsMemory
  /\ up => known \subseteq Elems(profiles)
  /\ ~up /\ ~behind => known \subseteq Elems(file.has) /\ file.is # "torn"
  /\ \A c \in Clients : AddInv(c)

\* A step keeps the rest of the invariant.
LEMMA StoreStep == IInv /\ [Next]_vars => StoreInv'
<1> SUFFICES ASSUME IInv, [Next]_vars PROVE StoreInv'
  OBVIOUS
<1>0. TypeOK /\ TypeOK'
  BY TypeStep DEF IInv
<1>00. StoreInv
  BY DEF IInv, StoreInv
<1> USE <1>0, <1>00, NoneAssumption, MaxCrashesAssumption
    DEF LockInv, FileFollowsMemory, AddInv, Writing, Goto
<1>1. ASSUME NEW f \in ConfigFiles, newProfileStore(f) PROVE StoreInv'
  BY <1>1 DEF newProfileStore, handlerVars, StoreInv, TypeOK
<1>2. CASE UNCHANGED vars
  BY <1>2 DEF vars, handlerVars, historyVars, StoreInv, TypeOK
<1>3. ASSUME NEW c \in Clients, NEW r \in Requests, NEW id \in Ids, Post(c, r, id) PROVE StoreInv'
  <2>1. buildProfile(config, r, id) \in Profiles
    BY Builds DEF TypeOK
  <2> QED
    BY <1>3, <2>1 DEF Post, historyVars, StoreInv, TypeOK
<1>4. ASSUME NEW c \in Clients, Lock(c) PROVE StoreInv'
  BY <1>4 DEF Lock, historyVars, StoreInv, TypeOK
<1>5. ASSUME NEW c \in Clients, AppendProfile(c) PROVE StoreInv'
  <2>1. Elems(Append(profiles, prof[c])) = Elems(profiles) \cup {prof[c]}
    BY <1>5, ElemsAppend DEF AppendProfile, StoreInv, TypeOK
  <2> QED
    BY <1>5, <2>1 DEF AppendProfile, historyVars, StoreInv, TypeOK
<1>6. ASSUME NEW c \in Clients, Truncate(c) \/ OpenFails(c) PROVE StoreInv'
  BY <1>6 DEF Truncate, OpenFails, historyVars, Empty, StoreInv, TypeOK
<1>7. ASSUME NEW c \in Clients, WriteAll(c) \/ WriteFails(c) PROVE StoreInv'
  BY <1>7 DEF WriteAll, WriteFails, Empty, Torn, Whole, StoreInv, TypeOK
<1>8. ASSUME NEW c \in Clients, AnswerCreated(c) \/ AnswerFailed(c) PROVE StoreInv'
  <2>1. mu = c /\ AddInv(c) /\ LockInv
    BY <1>8 DEF AnswerCreated, AnswerFailed, StoreInv
  <2>2. prof[c] \in Elems(profiles)
    BY <1>8, <2>1 DEF AnswerCreated, AnswerFailed
  <2>3. LockInv'
    <3>1. up' /\ mu' = None /\ pc' = [pc EXCEPT ![c] = "idle"]
      BY <1>8 DEF AnswerCreated, AnswerFailed, Release
    <3> QED
      BY <2>1, <3>1 DEF TypeOK
  <2>4. FileFollowsMemory' /\ (up' => known' \subseteq Elems(profiles'))
    BY <1>8, <2>1, <2>2 DEF AnswerCreated, AnswerFailed, Release, Whole, StoreInv
  <2>5. ASSUME NEW d \in Clients PROVE AddInv(d)'
    <3>1. pc' = [pc EXCEPT ![c] = "idle"] /\ prof' = [prof EXCEPT ![c] = None]
      BY <1>8 DEF AnswerCreated, AnswerFailed, Release, Goto
    <3>2. CASE d = c
      BY <3>1, <3>2 DEF AddInv, TypeOK
    <3>3. CASE d # c
      <4>1. pc[d] \in {"idle", "lock"} /\ AddInv(d)
        BY <2>1, <3>3 DEF LockInv, Writing, TypeOK, StoreInv
      <4>2. pc'[d] = pc[d] /\ prof'[d] = prof[d]
        BY <3>1, <3>3 DEF TypeOK
      <4> QED
        BY <4>1, <4>2 DEF AddInv
    <3> QED
      BY <3>2, <3>3
  <2> QED
    BY <1>8, <2>3, <2>4, <2>5 DEF AnswerCreated, AnswerFailed, StoreInv
<1>9. CASE \E r \in Requests : list(r) \/ GetConfig(r)
  BY <1>9, GetLists DEF list, GetConfig, handlerVars, StoreInv, TypeOK
<1>10. CASE Crash
  <2>1. LockInv' /\ FileFollowsMemory' /\ (up' => known' \subseteq Elems(profiles')) /\ \A c \in Clients : AddInv(c)'
    BY <1>10 DEF Crash
  <2>2. ASSUME ~behind' PROVE known' \subseteq Elems(file'.has) /\ file'.is # "torn"
    <3>1. ~behind /\ (\A c \in Clients : pc[c] # "write") /\ file' = file /\ known' = known
      BY <1>10, <2>2, Zenon DEF Crash
    <3>2. CASE mu = None
      BY <1>10, <3>1, <3>2 DEF Crash, StoreInv
    <3>3. CASE mu # None
      <4>1. PICK c \in Clients : mu = c
        BY <3>3 DEF TypeOK
      <4>2. AddInv(c) /\ Writing(c)
        BY <4>1 DEF StoreInv
      <4>3. (known \subseteq Elems(profiles)) /\ up
        BY <1>10 DEF Crash, StoreInv
      <4> QED
        BY <3>1, <4>2, <4>3 DEF Whole
    <3> QED
      BY <3>2, <3>3
  <2> QED
    BY <2>1, <2>2 DEF StoreInv
<1> QED
  BY <1>1, <1>2, <1>3, <1>4, <1>5, <1>6, <1>7, <1>8, <1>9, <1>10, StutterSteps DEF Next

\* Whatever is kept in memory, in a buffer or in the file was built, under an id of its
\* own.
LEMMA MadeStep == IInv /\ [Next]_vars => MadeInv'
<1> SUFFICES ASSUME IInv, [Next]_vars PROVE MadeInv'
  OBVIOUS
<1> USE ElemsTypes DEF IInv, MadeInv
<1>1. ASSUME NEW f \in ConfigFiles, newProfileStore(f) PROVE MadeInv'
  BY <1>1 DEF newProfileStore, handlerVars
<1>2. CASE UNCHANGED vars
  BY <1>2 DEF vars, handlerVars, historyVars
<1>3. ASSUME NEW c \in Clients, NEW r \in Requests, NEW id \in Ids, Post(c, r, id) PROVE MadeInv'
  <2>1. buildProfile(config, r, id).ID = id
    BY Builds DEF TypeOK
  <2>2. made' = made \cup {buildProfile(config, r, id)} /\ \A p \in made : p.ID # id
    BY <1>3 DEF Post
  <2>3. \A p, q \in made' : p.ID = q.ID => p = q
    BY <2>1, <2>2
  <2> QED
    BY <1>3, <2>2, <2>3 DEF Post, historyVars, TypeOK
<1>4. ASSUME NEW c \in Clients, Lock(c) \/ Truncate(c) \/ OpenFails(c) \/ WriteFails(c)
      PROVE  MadeInv'
  BY <1>4 DEF Lock, Truncate, OpenFails, WriteFails, historyVars, Empty, Torn
<1>5. ASSUME NEW c \in Clients, AppendProfile(c) PROVE MadeInv'
  <2>1. prof[c] \in made /\ prof[c] \in Profiles
    BY <1>5, NoneAssumption DEF AppendProfile, AddInv
  <2>2. Elems(Append(profiles, prof[c])) \subseteq made
    BY <2>1, ElemsAppend DEF TypeOK
  <2> QED
    BY <1>5, <2>2 DEF AppendProfile, historyVars, TypeOK
<1>6. ASSUME NEW c \in Clients, WriteAll(c) PROVE MadeInv'
  BY <1>6 DEF WriteAll, Whole
<1>7. ASSUME NEW c \in Clients, AnswerCreated(c) \/ AnswerFailed(c) PROVE MadeInv'
  <2>1. prof[c] \in made
    BY <1>7, NoneAssumption DEF AnswerCreated, AnswerFailed, AddInv
  <2>2. known' \subseteq known \cup {prof[c]} /\ UNCHANGED <<profiles, file, made>>
        /\ prof' = [prof EXCEPT ![c] = None] /\ raw' = [raw EXCEPT ![c] = <<>>]
    BY <1>7 DEF AnswerCreated, AnswerFailed, Release
  <2> QED
    BY <2>1, <2>2 DEF TypeOK
<1>8. CASE \E r \in Requests : list(r) \/ GetConfig(r)
  BY <1>8, GetLists DEF list, GetConfig, handlerVars
<1>9. CASE Crash
  BY <1>9 DEF Crash, Empty, Torn
<1> QED
  BY <1>1, <1>2, <1>3, <1>4, <1>5, <1>6, <1>7, <1>8, <1>9, StutterSteps DEF Next

\* The invariant is inductive.
THEOREM Inductive == Spec => []IInv
<1>1. IInv /\ [Next]_vars => IInv'
  BY StoreStep, MadeStep DEF IInv, StoreInv
<1> QED
  BY InitIInv, <1>1, PTL DEF Spec

\* Type correctness of the store.
THEOREM TypeCorrect == Spec => []TypeOK
<1>1. IInv => TypeOK
  BY DEF IInv
<1> QED
  BY Inductive, <1>1, PTL

\* Between adds, and when the last write completed, the file is the list.
THEOREM FileFollowsMemoryHolds == Spec => []FileFollowsMemory
<1>1. IInv => FileFollowsMemory
  BY DEF IInv
<1> QED
  BY Inductive, <1>1, PTL

\* A running server serves everything its clients were told of.
THEOREM KnownServedHolds == Spec => []KnownServed
<1>1. IInv => KnownServed
  BY GetFinds DEF IInv, MadeInv, TypeOK, KnownServed
<1> QED
  BY Inductive, <1>1, PTL

\* Only a start after an incomplete write forgets a profile: every other step
\* extends known, and such a start reads a file that still has all of it.
THEOREM RestartKeepsKnownHolds == Spec => RestartKeepsKnown
<1>1. IInv /\ [Next]_vars => [known \subseteq known' \/ behind]_vars
  <2> SUFFICES ASSUME IInv, Next PROVE known \subseteq known' \/ behind
    BY DEF IInv
  <2>1. CASE \E f \in ConfigFiles : newProfileStore(f)
    BY <2>1 DEF newProfileStore, IInv
  <2>2. CASE ~\E f \in ConfigFiles : newProfileStore(f)
    BY <2>2, StutterSteps DEF Next, vars, handlerVars, historyVars, Post, Lock,
                AppendProfile, Truncate, OpenFails, WriteAll, WriteFails, AnswerCreated,
                AnswerFailed, list, GetConfig, Crash
  <2> QED
    BY <2>1, <2>2
<1> QED
  BY Inductive, <1>1, PTL DEF Spec, RestartKeepsKnown

================================================================================
