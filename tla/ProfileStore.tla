------------------------------ MODULE ProfileStore ------------------------------
(***************************************************************************)
(* The provisioning server (src/server/main.go): the routes that add and   *)
(* look up profiles, profileStore.mu, the file server/data/profiles.json   *)
(* rewritten by every add, failing writes, and crashes followed by a start *)
(* that loads the file, possibly under another configuration.              *)
(*                                                                         *)
(* A file is what a start would read from it.                              *)
(***************************************************************************)
EXTENDS Integers, Sequences

CONSTANTS
  Clients,      \* handler goroutines that may be active at once
  Names,        \* the texts of requests and configurations
  Ids,          \* the random ids drawn: bounds the profiles built
  ConfigFiles,  \* the contents config.json may have at a start
  Requests,     \* the requests the server may get
  None,
  MaxCrashes    \* bounds the crashes

--------------------------------------------------------------------------------
(* Configurations, requests and profiles, with the fields that matter.     *)

\* keys: apiKey and tunnelDomain are given.
ConfigFile == [keys : BOOLEAN, host : Names, tunnelType : Names]

\* What loadConfig accepts, and what it fills in.
Loads(f) == f.keys /\ f.host # ""

loadConfig(f) ==
  [host |-> f.host, tunnelType |-> IF f.tunnelType = "" THEN "vayDnsSsh" ELSE f.tunnelType]

\* path: /v1/profiles, /v1/profiles/{id}/ios-config or one below that is no route.
Request ==
  [auth : BOOLEAN, method : {"GET", "POST", "other"}, path : {"profiles", "ios-config", "other"}, id : Ids,
   json : BOOLEAN, name : Names, tunnelType : Names, connectionMethod : Names, days : Int]

Unloaded == [host |-> "", tunnelType |-> ""]

decodes(r) == r.json /\ r.name # ""

Profiles ==
  [ID : Ids, Name : Names, TunnelType : Names, ConnectionMethod : Names, Server : Names,
   DaysValid : Int]

buildProfile(cfg, r, id) ==
  [ID |-> id, Name |-> r.name,
   TunnelType |-> IF r.tunnelType = "" THEN cfg.tunnelType ELSE r.tunnelType,
   ConnectionMethod |-> IF r.connectionMethod = "" THEN "ssh" ELSE r.connectionMethod,
   Server |-> cfg.host,
   DaysValid |-> IF r.days <= 0 THEN 30 ELSE r.days]

ASSUME NoneAssumption == None \notin Clients \cup Profiles
ASSUME MaxCrashesAssumption == MaxCrashes \in Nat
ASSUME NamesAssumption == {"", "ssh", "vayDnsSsh"} \subseteq Names
ASSUME InputsAssumption == ConfigFiles \subseteq ConfigFile /\ Requests \subseteq Request

VARIABLES
  up,          \* is the process serving requests
  config,      \* the configuration it was started with
  mu,          \* the handler that holds profileStore.mu, or None
  profiles,    \* profileStore.profiles
  file,        \* the state of profiles.json and, when it is whole, its content
  pc, prof,    \* where each POST handler is, and the profile it has built
  raw,         \* the marshalled list it is about to write
  made,        \* the profiles built so far
  crashes,
  known,       \* history: profiles some client was told of and no start has lost
  behind       \* history: the last attempt to write the file did not complete

handlerVars == <<mu, pc, prof, raw>>
historyVars == <<known, behind>>
vars == <<up, config, profiles, file, handlerVars, made, crashes, historyVars>>

Elems(s) == {s[n] : n \in DOMAIN s}

Torn == [is |-> "torn", has |-> <<>>]     \* not JSON: part of a list
Empty == [is |-> "empty", has |-> <<>>]
Absent == [is |-> "absent", has |-> <<>>]
Whole(s) == [is |-> "whole", has |-> s]

Init ==
  /\ up = FALSE
  /\ config = Unloaded
  /\ mu = None
  /\ profiles = <<>>
  /\ file = Absent
  /\ pc = [c \in Clients |-> "idle"]
  /\ prof = [c \in Clients |-> None]
  /\ raw = [c \in Clients |-> <<>>]
  /\ made = {}
  /\ crashes = 0
  /\ known = {}
  /\ behind = FALSE

Goto(c, label) == pc' = [pc EXCEPT ![c] = label]

--------------------------------------------------------------------------------
\* Mutant of newProfileStore: the server of a profile is that of the configuration.
StartRenders(f) ==
  /\ ~up
  /\ Loads(f) /\ file.is # "torn"
  /\ up' = TRUE
  /\ config' = loadConfig(f)
  /\ profiles' = [n \in DOMAIN file.has |-> [file.has[n] EXCEPT !.Server = f.host]]
  /\ known' = known \cap Elems(file.has)
  /\ UNCHANGED <<file, handlerVars, made, crashes, behind>>

\* main: newProfileStore reads the file behind loadConfig.
newProfileStore(f) ==
  /\ ~up
  /\ Loads(f) /\ file.is # "torn"
  /\ up' = TRUE
  /\ config' = loadConfig(f)
  /\ profiles' = file.has
  /\ known' = known \cap Elems(file.has)
  /\ UNCHANGED <<file, handlerVars, made, crashes, behind>>

\* A configuration that lacks a key, or a file that is not JSON, ends the process at
\* once (log.Fatalf).
StartFails(f) ==
  /\ ~up
  /\ ~Loads(f) \/ file.is = "torn"
  /\ UNCHANGED vars

\* The two routes, up to the body and the id.
Asks(r, method, path) == r.auth /\ r.method = method /\ r.path = path

\* POST /v1/profiles up to store.add.
Post(c, r, id) ==
  /\ up /\ pc[c] = "idle"
  /\ Asks(r, "POST", "profiles") /\ decodes(r)
  /\ \A p \in made : p.ID # id
  /\ made' = made \cup {buildProfile(config, r, id)}
  /\ prof' = [prof EXCEPT ![c] = buildProfile(config, r, id)]
  /\ Goto(c, "lock")
  /\ UNCHANGED <<up, config, profiles, file, mu, raw, crashes, historyVars>>

\* Mutant of Lock: add does not take the mutex.
LockFree(c) ==
  /\ up /\ pc[c] = "lock"
  /\ mu' = c
  /\ Goto(c, "append")
  /\ UNCHANGED <<up, config, profiles, file, prof, raw, made, crashes, historyVars>>

\* add: s.mu.Lock()
Lock(c) ==
  /\ up /\ pc[c] = "lock"
  /\ mu = None
  /\ mu' = c
  /\ Goto(c, "append")
  /\ UNCHANGED <<up, config, profiles, file, prof, raw, made, crashes, historyVars>>

\* Mutant of AppendProfile: the written list is the one before the append.
MarshalFirst(c) ==
  /\ up /\ pc[c] = "append"
  /\ raw' = [raw EXCEPT ![c] = profiles]
  /\ profiles' = Append(profiles, prof[c])
  /\ Goto(c, "open")
  /\ UNCHANGED <<up, config, file, mu, prof, made, crashes, historyVars>>

\* add: the profile joins the list in memory first; the new list is marshalled.
AppendProfile(c) ==
  /\ up /\ pc[c] = "append"
  /\ profiles' = Append(profiles, prof[c])
  /\ raw' = [raw EXCEPT ![c] = Append(profiles, prof[c])]
  /\ Goto(c, "open")
  /\ UNCHANGED <<up, config, file, mu, prof, made, crashes, historyVars>>

\* os.WriteFile opens the file with O_TRUNC ...
Truncate(c) ==
  /\ up /\ pc[c] = "open"
  /\ file' = Empty
  /\ Goto(c, "write")
  /\ UNCHANGED <<up, config, profiles, mu, prof, raw, made, crashes, historyVars>>

\* ... or fails to: the old content stays.
OpenFails(c) ==
  /\ up /\ pc[c] = "open"
  /\ behind' = TRUE
  /\ Goto(c, "answer500")
  /\ UNCHANGED <<up, config, profiles, file, mu, prof, raw, made, crashes, known>>

\* The list is written ...
WriteAll(c) ==
  /\ up /\ pc[c] = "write"
  /\ file' = Whole(raw[c])
  /\ behind' = FALSE
  /\ Goto(c, "answer201")
  /\ UNCHANGED <<up, config, profiles, mu, prof, raw, made, crashes, known>>

\* Mutant of WriteFails: its error is not reported.
WriteErrorIgnored(c) ==
  /\ up /\ pc[c] = "write"
  /\ file' \in {Empty, Torn}
  /\ Goto(c, "answer201")
  /\ UNCHANGED <<up, config, profiles, mu, prof, raw, made, crashes, known, behind>>

\* ... or only a part of it (a full disk), possibly none.
WriteFails(c) ==
  /\ up /\ pc[c] = "write"
  /\ file' \in {Empty, Torn}
  /\ behind' = TRUE
  /\ Goto(c, "answer500")
  /\ UNCHANGED <<up, config, profiles, mu, prof, raw, made, crashes, known>>

\* The deferred Unlock, and the handler's answer.
Release(c) ==
  /\ mu' = None
  /\ Goto(c, "idle")
  /\ prof' = [prof EXCEPT ![c] = None]
  /\ raw' = [raw EXCEPT ![c] = <<>>]

AnswerCreated(c) ==
  /\ up /\ pc[c] = "answer201"
  /\ Release(c)
  /\ known' = known \cup {prof[c]}
  /\ UNCHANGED <<up, config, profiles, file, made, crashes, behind>>

AnswerFailed(c) ==
  /\ up /\ pc[c] = "answer500"
  /\ Release(c)
  /\ UNCHANGED <<up, config, profiles, file, made, crashes, known, behind>>

\* GET /v1/profiles tells of the whole list,
list(r) ==
  /\ up /\ mu = None
  /\ Asks(r, "GET", "profiles")
  /\ known' = known \cup Elems(profiles)
  /\ UNCHANGED <<up, config, profiles, file, handlerVars, made, crashes, behind>>

\* The first profile with the id, if there is one.
get(id) ==
  {profiles[n] : n \in {k \in DOMAIN profiles :
     profiles[k].ID = id /\ \A m \in DOMAIN profiles : m < k => profiles[m].ID # id}}

\* GET /v1/profiles/{id}/ios-config of one.
GetConfig(r) ==
  /\ up /\ mu = None
  /\ Asks(r, "GET", "ios-config") /\ get(r.id) # {}
  /\ known' = known \cup get(r.id)
  /\ UNCHANGED <<up, config, profiles, file, handlerVars, made, crashes, behind>>

\* All else is answered with 401, 405, 404 or 400.
Refuse(r) ==
  /\ up
  /\ \/ ~r.auth
     \/ r.path = "profiles" /\ r.method = "other"
     \/ r.path = "profiles" /\ r.method = "POST" /\ ~decodes(r)
     \/ r.path # "profiles" /\ r.method # "GET"
     \/ r.path = "other"
     \/ r.path = "ios-config" /\ mu = None /\ get(r.id) = {}
  /\ UNCHANGED vars

\* The process dies.  A write in progress leaves nothing, or a part.
Crash ==
  LET writing == \E c \in Clients : pc[c] = "write"
  IN  /\ up
      /\ crashes < MaxCrashes
      /\ crashes' = crashes + 1
      /\ up' = FALSE
      /\ config' = Unloaded /\ profiles' = <<>>
      /\ mu' = None
      /\ pc' = [c \in Clients |-> "idle"]
      /\ prof' = [c \in Clients |-> None]
      /\ raw' = [c \in Clients |-> <<>>]
      /\ IF writing THEN file' \in {Empty, Torn} ELSE file' = file
      /\ behind' = (behind \/ writing)
      /\ UNCHANGED <<made, known>>

Next ==
  \/ \E f \in ConfigFiles : newProfileStore(f) \/ StartFails(f)
  \/ \E c \in Clients, r \in Requests, id \in Ids : Post(c, r, id)
  \/ \E c \in Clients :
       \/ Lock(c) \/ AppendProfile(c)
       \/ Truncate(c) \/ OpenFails(c)
       \/ WriteAll(c) \/ WriteFails(c)
       \/ AnswerCreated(c) \/ AnswerFailed(c)
  \/ \E r \in Requests : list(r) \/ GetConfig(r) \/ Refuse(r)
  \/ Crash

Spec == Init /\ [][Next]_vars

--------------------------------------------------------------------------------
(* Properties.                                                             *)

Writing(c) == pc[c] \in {"append", "open", "write", "answer201", "answer500"}

\* Every variable of the store has its type.
TypeOK ==
  /\ up \in BOOLEAN
  /\ config \in [host : Names, tunnelType : Names]
  /\ mu \in Clients \cup {None}
  /\ profiles \in Seq(Profiles)
  /\ file \in [is : {"absent", "empty", "torn", "whole"}, has : Seq(Profiles)]
  /\ pc \in [Clients -> {"idle", "lock", "append", "open", "write", "answer201", "answer500"}]
  /\ prof \in [Clients -> Profiles \cup {None}]
  /\ raw \in [Clients -> Seq(Profiles)]
  /\ made \in SUBSET Profiles
  /\ crashes \in 0..MaxCrashes
  /\ known \in SUBSET Profiles
  /\ behind \in BOOLEAN

\* While no add is under way and the last write completed, a start from the file
\* would restore exactly the list in memory, whatever adds raced before.
FileFollowsMemory ==
  up /\ mu = None /\ ~behind => file.has = profiles /\ file.is # "torn"

\* What a client was told of (by a 201 or by a GET) is served under its id, as it was
\* built, as long as the process runs: also after writes that failed, and after starts
\* under other configurations.
KnownServed == up => \A p \in known : get(p.ID) = {p}

\* A restart loses nothing a client was told of, unless the last write of the
\* file before it had not completed.
RestartKeepsKnown == [][known \subseteq known' \/ behind]_vars

--------------------------------------------------------------------------------
(* The inductive invariant.                                                *)

\* The mutex excludes, and only handlers of a running process are inside.
LockInv ==
  /\ \A c \in Clients : Writing(c) <=> mu = c
  /\ ~up => profiles = <<>> /\ \A c \in Clients : pc[c] = "idle"

\* What the handler inside add has done to the list, the buffer and the file.
AddInv(c) ==
  /\ pc[c] = "append" /\ ~behind => file.has = profiles /\ file.is # "torn"
  /\ pc[c] \in {"open", "write", "answer201", "answer500"} =>
       /\ raw[c] = profiles
       /\ prof[c] \in Elems(profiles)
  /\ pc[c] = "answer201" => file = Whole(profiles) /\ ~behind
  /\ pc[c] = "answer500" => behind
  /\ pc[c] = "open" /\ ~behind =>
       file.is # "torn" /\ known \subseteq Elems(file.has)
  /\ pc[c] # "idle" => prof[c] \in Profiles

\* Ids are drawn once, and every list consists of profiles that were built.
MadeInv ==
  /\ \A p, q \in made : p.ID = q.ID => p = q
  /\ known \cup Elems(profiles) \cup Elems(file.has) \subseteq made
  /\ \A c \in Clients : prof[c] \in made \cup {None} /\ Elems(raw[c]) \subseteq made

\* Types, the mutex, and list, buffer and file at each step of add: inductive.
IInv ==
  /\ TypeOK
  /\ LockInv
  /\ FileFollowsMemory
  /\ up => known \subseteq Elems(profiles)
  /\ ~up /\ ~behind => known \subseteq Elems(file.has) /\ file.is # "torn"
  /\ \A c \in Clients : AddInv(c)
  /\ MadeInv

================================================================================
