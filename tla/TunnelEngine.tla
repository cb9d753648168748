------------------------------ MODULE TunnelEngine ------------------------------
(***************************************************************************)
(* The Go tunnel engine (src/go/tunnel): Start, Stop and IsRunning under   *)
(* the package mutex, the constructor and stop() of the seven transports,  *)
(* their accept loops, and the goroutine that serves each local SOCKS5     *)
(* connection.                                                             *)
(*                                                                         *)
(* A transport is named by an element of Ids; the local port Start returns *)
(* stands for it.  Bytes are left out: of a connection only the phase is   *)
(* kept, of a configuration the fields that choose a branch.               *)
(***************************************************************************)
EXTENDS Naturals, TunnelConfig

CONSTANTS
  Threads,    \* threads that call the exported API (Swift queues, app callbacks)
  Ids,        \* transports: one per Start, so Cardinality(Ids) bounds the Starts
  Conns,      \* local SOCKS5 connections of Tun2Socks
  Configs,    \* the configurations a Start may carry
  BadJson,    \* a configJSON that json.Unmarshal refuses
  None

ASSUME ConfigsAssumption == Configs \subseteq ConfigSet /\ BadJson \notin ConfigSet
ASSUME NoneAssumption == None \notin Ids \cup Threads \cup Configs \cup {BadJson}
ASSUME IdsAssumption ==
  Ids \cap {"-1", "void", "true", "false", "nothing"} = {}

\* The steps of the constructors that can block or fail.  A constructor goes
\* through some of them, always in this order.
Rank == [checkDomain |-> 1, tcpDial |-> 2, httpConnect |-> 3, tlsHandshake |-> 4,
         wsUpgrade |-> 5, payload |-> 6, sshHandshake |-> 7, listen |-> 8]
Stages == DOMAIN Rank

VARIABLES
  mu,         \* the thread that holds the package mutex, or None
  active,     \* the package variable active
  pc, op,     \* where each thread is, and in which exported function
  arg,        \* the configuration of each thread's Start
  mine,       \* the transport each thread's Start creates if it gets that far
  made,       \* the transports handed out so far
  todo,       \* what the constructor a thread runs has still to do
  result,     \* the value a thread is about to return
  kind,       \* the type of each transport
  listener, upstream, acceptor, stopped,   \* the fields of each transport
  conn,       \* the local connections: phase and transport
  served,     \* history: active when the mutex was last released
  answer      \* history: what each thread's last call returned

callVars == <<mu, active, pc, op, arg, mine, made, todo, result>>
transportVars == <<kind, listener, upstream, acceptor, stopped>>
historyVars == <<served, answer>>
vars == <<callVars, transportVars, conn, historyVars>>

--------------------------------------------------------------------------------
(* What the constructor of a transport does in order.                      *)

\* The stages each constructor goes through.
OnlyIf(b, stage) == {s \in {stage} : b}

newSSHProxy == {"tcpDial", "sshHandshake", "listen"}

newSSHTLSProxy == {"tcpDial", "tlsHandshake", "sshHandshake", "listen"}

newSSHWebSocketProxy(cfg) ==
  {"tcpDial", "wsUpgrade", "sshHandshake", "listen"} \cup OnlyIf(cfg.wsTls, "tlsHandshake")

newSSHHTTPConnectProxy(cfg) ==
  {"tcpDial", "httpConnect", "sshHandshake", "listen"} \cup OnlyIf(cfg.tls, "tlsHandshake")

newSSHPayloadInjectionProxy(cfg) ==
  {"tcpDial", "sshHandshake", "listen"}
    \cup OnlyIf(cfg.tls, "tlsHandshake") \cup OnlyIf(cfg.payload # "none", "payload")

newDNSTunnel == {"checkDomain", "listen"}

newSOCKSRelay == {"listen"}

Needs(k, cfg) ==
  CASE k = "ssh" -> newSSHProxy
    [] k = "sshTls" -> newSSHTLSProxy
    [] k = "sshWebsocket" -> newSSHWebSocketProxy(cfg)
    [] k = "sshHttpConnect" -> newSSHHTTPConnectProxy(cfg)
    [] k = "sshPayload" -> newSSHPayloadInjectionProxy(cfg)
    [] k = "dns" -> newDNSTunnel
    [] k = "socks" -> newSOCKSRelay

\* Stages that fail whatever the network does: an empty Domain, a payload that
\* is not base64.
MustFail(stage, cfg) ==
  \/ stage = "checkDomain" /\ ~cfg.domain
  \/ stage = "payload" /\ cfg.payload = "badBase64"

\* Stages without a deadline: ssh.ClientConfig.Timeout bounds only the TCP dial
\* of ssh.Dial, and HandshakeContext gets context.Background().  The TLS
\* handshake of sshTls runs under the Timeout of its Dialer.
Unbounded(stage, k) ==
  \/ stage = "sshHandshake"
  \/ stage = "tlsHandshake" /\ k # "sshTls"

--------------------------------------------------------------------------------
Init ==
  /\ mu = None
  /\ active = None
  /\ pc = [t \in Threads |-> "idle"]
  /\ op = [t \in Threads |-> "none"]
  /\ arg = [t \in Threads |-> None]
  /\ mine = [t \in Threads |-> None]
  /\ made = {}
  /\ todo = [t \in Threads |-> {}]
  /\ result = [t \in Threads |-> "nothing"]
  /\ kind = [i \in Ids |-> "none"]
  /\ listener = [i \in Ids |-> "none"]
  /\ upstream = [i \in Ids |-> "none"]
  /\ acceptor = [i \in Ids |-> "none"]
  /\ stopped = [i \in Ids |-> FALSE]
  /\ conn = [c \in Conns |-> [phase |-> "none", of |-> None]]
  /\ served = None
  /\ answer = [t \in Threads |-> "nothing"]

Goto(t, label) == pc' = [pc EXCEPT ![t] = label]
Answer(t, r) == result' = [result EXCEPT ![t] = r]

--------------------------------------------------------------------------------
(* The exported functions.                                                 *)

\* A thread calls Start with cfg (BadJson for text that does not parse).
CallStart(t, cfg, i) ==
  /\ pc[t] = "idle"
  /\ i \notin made
  /\ Goto(t, "lock")
  /\ op' = [op EXCEPT ![t] = "start"]
  /\ arg' = [arg EXCEPT ![t] = cfg]
  /\ mine' = [mine EXCEPT ![t] = i]
  /\ made' = made \cup {i}
  /\ UNCHANGED <<mu, active, todo, result, transportVars, conn, historyVars>>

\* A thread calls Stop or IsRunning.
Call(t, o) ==
  /\ pc[t] = "idle"
  /\ Goto(t, "lock")
  /\ op' = [op EXCEPT ![t] = o]
  /\ UNCHANGED <<mu, active, arg, mine, made, todo, result, transportVars, conn, historyVars>>

\* Mutant of Lock: the function does not wait for the mutex.
LockWithoutMutex(t) ==
  /\ pc[t] = "lock"
  /\ mu' = t
  /\ Goto(t, "entered")
  /\ UNCHANGED <<active, op, arg, mine, made, todo, result, transportVars, conn, historyVars>>

\* mu.Lock()
Lock(t) ==
  /\ pc[t] = "lock"
  /\ mu = None
  /\ mu' = t
  /\ Goto(t, "entered")
  /\ UNCHANGED <<active, op, arg, mine, made, todo, result, transportVars, conn, historyVars>>

\* IsRunning reads active.
ReadActive(t) ==
  /\ pc[t] = "entered" /\ op[t] = "query"
  /\ Answer(t, IF active # None THEN "true" ELSE "false")
  /\ Goto(t, "unlock")
  /\ UNCHANGED <<mu, active, op, arg, mine, made, todo, transportVars, conn, historyVars>>

\* What Start and Stop do once there is no active transport.
AfterStop(t) == IF op[t] = "start" THEN "load" ELSE "unlock"

\* Mutant of NothingToStop: Start does not look for a transport to stop.
NeverStops(t) ==
  /\ pc[t] = "entered" /\ op[t] # "query"
  /\ Goto(t, AfterStop(t))
  /\ Answer(t, "void")
  /\ UNCHANGED <<mu, active, op, arg, mine, made, todo, transportVars, conn, historyVars>>

\* "if active != nil" is false.
NothingToStop(t) ==
  /\ pc[t] = "entered" /\ op[t] # "query"
  /\ active = None
  /\ Goto(t, AfterStop(t))
  /\ Answer(t, "void")
  /\ UNCHANGED <<mu, active, op, arg, mine, made, todo, transportVars, conn, historyVars>>

\* active.stop(): stopped.Swap(true) and, the first time, cancel().
StopSwap(t) ==
  /\ pc[t] = "entered" /\ op[t] # "query"
  /\ active # None
  /\ stopped' = [stopped EXCEPT ![active] = TRUE]
  /\ Goto(t, IF stopped[active] THEN "clear" ELSE "closeListener")
  /\ UNCHANGED <<mu, active, op, arg, mine, made, todo, result, kind, listener,
                 upstream, acceptor, conn, historyVars>>

\* Mutant of StopListener: stop() forgets client.Close().
StopWithoutClient(t) ==
  /\ pc[t] = "closeListener"
  /\ listener' = [listener EXCEPT ![active] = "closed"]
  /\ conn' = [c \in Conns |->
                IF conn[c].phase = "backlog" /\ conn[c].of = active
                THEN [conn[c] EXCEPT !.phase = "closed"] ELSE conn[c]]
  /\ Goto(t, "clear")
  /\ UNCHANGED <<mu, active, op, arg, mine, made, todo, result, kind, upstream,
                 acceptor, stopped, historyVars>>

\* listener.Close() also resets the connections no Accept has taken yet.
StopListener(t) ==
  /\ pc[t] = "closeListener"
  /\ listener' = [listener EXCEPT ![active] = "closed"]
  /\ conn' = [c \in Conns |->
                IF conn[c].phase = "backlog" /\ conn[c].of = active
                THEN [conn[c] EXCEPT !.phase = "closed"] ELSE conn[c]]
  /\ Goto(t, IF kind[active] \in SshKinds THEN "closeClient" ELSE "clear")
  /\ UNCHANGED <<mu, active, op, arg, mine, made, todo, result, kind, upstream,
                 acceptor, stopped, historyVars>>

\* client.Close(), in the transports that have an ssh.Client.
StopClient(t) ==
  /\ pc[t] = "closeClient"
  /\ upstream' = [upstream EXCEPT ![active] = "closed"]
  /\ Goto(t, "clear")
  /\ UNCHANGED <<mu, active, op, arg, mine, made, todo, result, kind, listener,
                 acceptor, stopped, conn, historyVars>>

\* Mutant of ClearActive: active still points to the stopped transport.
KeepActive(t) ==
  /\ pc[t] = "clear"
  /\ Goto(t, AfterStop(t))
  /\ Answer(t, "void")
  /\ UNCHANGED <<mu, active, op, arg, mine, made, todo, transportVars, conn, historyVars>>

\* Mutant of ClearActive: "for active != nil { active.stop() }", never cleared.
StopUntilNil(t) ==
  /\ pc[t] = "clear"
  /\ Goto(t, "entered")
  /\ UNCHANGED <<mu, active, op, arg, mine, made, todo, result, transportVars, conn, historyVars>>

\* active = nil
ClearActive(t) ==
  /\ pc[t] = "clear"
  /\ active' = None
  /\ Goto(t, AfterStop(t))
  /\ Answer(t, "void")
  /\ UNCHANGED <<mu, op, arg, mine, made, todo, transportVars, conn, historyVars>>

\* json.Unmarshal fails: the previous transport is gone already.
RejectJson(t) ==
  /\ pc[t] = "load"
  /\ arg[t] = BadJson
  /\ Answer(t, "-1")
  /\ Goto(t, "unlock")
  /\ UNCHANGED <<mu, active, op, arg, mine, made, todo, transportVars, conn, historyVars>>

\* The switch: enter the chosen constructor.
Dispatch(t) ==
  /\ pc[t] = "load"
  /\ arg[t] # BadJson
  /\ kind' = [kind EXCEPT ![mine[t]] = Select(arg[t])]
  /\ todo' = [todo EXCEPT ![t] = Needs(Select(arg[t]), arg[t])]
  /\ Goto(t, "build")
  /\ UNCHANGED <<mu, active, op, arg, mine, made, result, listener, upstream,
                 acceptor, stopped, conn, historyVars>>

\* The constructor t runs has come to this stage.
At(t, stage) ==
  /\ pc[t] = "build"
  /\ stage \in todo[t]
  /\ \A s \in todo[t] : Rank[stage] <= Rank[s]

\* One stage of a constructor succeeds.  net.Listen is followed by "go accept".
StageSucceeds(t, stage) ==
  LET i == mine[t]
  IN  /\ At(t, stage)
      /\ ~MustFail(stage, arg[t])
      /\ todo' = [todo EXCEPT ![t] = @ \ {stage}]
      /\ upstream' = IF stage = "tcpDial" THEN [upstream EXCEPT ![i] = "open"] ELSE upstream
      /\ listener' = IF stage = "listen" THEN [listener EXCEPT ![i] = "open"] ELSE listener
      /\ acceptor' = IF stage = "listen" THEN [acceptor EXCEPT ![i] = "running"] ELSE acceptor
      /\ UNCHANGED <<mu, active, pc, op, arg, mine, made, result, kind, stopped, conn, historyVars>>

\* Mutant of StageFails: an error path returns without closing the connection.
StageFailsOpen(t, stage) ==
  /\ At(t, stage)
  /\ todo' = [todo EXCEPT ![t] = {}]
  /\ Answer(t, "-1")
  /\ Goto(t, "unlock")
  /\ UNCHANGED <<mu, active, op, arg, mine, made, transportVars, conn, historyVars>>

\* One stage fails: the constructor closes what it had opened, Start returns -1.
StageFails(t, stage) ==
  LET i == mine[t]
  IN  /\ At(t, stage)
      /\ upstream' = IF upstream[i] = "open" THEN [upstream EXCEPT ![i] = "closed"] ELSE upstream
      /\ todo' = [todo EXCEPT ![t] = {}]
      /\ Answer(t, "-1")
      /\ Goto(t, "unlock")
      /\ UNCHANGED <<mu, active, op, arg, mine, made, kind, listener, acceptor,
                     stopped, conn, historyVars>>

\* active = t; the port of its listener is the result.
Publish(t) ==
  /\ pc[t] = "build" /\ todo[t] = {}
  /\ active' = mine[t]
  /\ Answer(t, mine[t])
  /\ Goto(t, "unlock")
  /\ UNCHANGED <<mu, op, arg, mine, made, todo, transportVars, conn, historyVars>>

\* The deferred mu.Unlock() and the return to the caller, which ends the call's
\* local variables.
Unlock(t) ==
  /\ pc[t] = "unlock"
  /\ mu' = None
  /\ Goto(t, "idle")
  /\ op' = [op EXCEPT ![t] = "none"]
  /\ arg' = [arg EXCEPT ![t] = None]
  /\ mine' = [mine EXCEPT ![t] = None]
  /\ result' = [result EXCEPT ![t] = "nothing"]
  /\ served' = active
  /\ answer' = [answer EXCEPT ![t] = result[t]]
  /\ UNCHANGED <<active, made, todo, transportVars, conn>>

--------------------------------------------------------------------------------
(* Goroutines of the transports, and their peers.                          *)

Phase(c, p) == conn' = [conn EXCEPT ![c].phase = p]

\* Tun2Socks opens a connection to a local port; a closed one may be reused.
Connect(c, i) ==
  /\ conn[c].phase \in {"none", "closed"}
  /\ listener[i] = "open"
  /\ conn' = [conn EXCEPT ![c] = [phase |-> "backlog", of |-> i]]
  /\ UNCHANGED <<callVars, transportVars, historyVars>>

\* Accept returns a connection; its goroutine starts.  socksRelay.pipe has no
\* handshake of its own.
Accept(c) ==
  LET i == conn[c].of
  IN  /\ conn[c].phase = "backlog"
      /\ acceptor[i] = "running" /\ listener[i] = "open"
      /\ Phase(c, IF kind[i] = "socks" THEN "dial" ELSE "handshake")
      /\ UNCHANGED <<callVars, transportVars, historyVars>>

\* Accept returns an error and the loop ends, whatever the error: the listener
\* was closed, or a passing one (out of descriptors) while it is still open.
AcceptError(i) ==
  /\ acceptor[i] = "running"
  /\ acceptor' = [acceptor EXCEPT ![i] = "done"]
  /\ UNCHANGED <<callVars, kind, listener, upstream, stopped, conn, historyVars>>

\* socks5Handshake: reads without a deadline, then the target or an error.
Handshake(c) ==
  /\ conn[c].phase = "handshake"
  /\ Phase(c, "dial") \/ Phase(c, "closed")
  /\ UNCHANGED <<callVars, transportVars, historyVars>>

\* client.Dial, net.Dial or the SYN chunk reaches the target.
DialSucceeds(c) ==
  LET i == conn[c].of
  IN  /\ conn[c].phase = "dial"
      /\ kind[i] \in SshKinds => upstream[i] = "open"
      /\ Phase(c, "relay")
      /\ UNCHANGED <<callVars, transportVars, historyVars>>

DialFails(c) ==
  /\ conn[c].phase = "dial"
  /\ Phase(c, "closed")
  /\ UNCHANGED <<callVars, transportVars, historyVars>>

\* The local client stops reading: a download blocks in local.Write, which has
\* no deadline, for as long as the client likes.  DNS loops never write to it.
ClientStalls(c) ==
  /\ conn[c].phase = "relay" /\ kind[conn[c].of] # "dns"
  /\ Phase(c, "stalled")
  /\ UNCHANGED <<callVars, transportVars, historyVars>>

ClientReads(c) ==
  /\ conn[c].phase = "stalled"
  /\ Phase(c, "relay")
  /\ UNCHANGED <<callVars, transportVars, historyVars>>

\* The local client or the target ends the stream.
PeerEnds(c) ==
  /\ conn[c].phase \in {"relay", "stalled"}
  /\ Phase(c, "closed")
  /\ UNCHANGED <<callVars, transportVars, historyVars>>

\* The relay notices that what carries it is gone: the SSH channel is closed,
\* or the DNS loops see ctx.Done().  socksRelay.pipe watches neither.
CarrierGone(c) ==
  LET i == conn[c].of
  IN  \/ kind[i] \in SshKinds /\ upstream[i] # "open"
      \/ kind[i] = "dns" /\ stopped[i]

\* A copy that reads from the carrier notices at once.  While the client does
\* not read, only another word from it shows the upload that the carrier is gone.
RelayCut(c) ==
  /\ conn[c].phase \in {"relay", "stalled"}
  /\ CarrierGone(c)
  /\ Phase(c, "closed")
  /\ UNCHANGED <<callVars, transportVars, historyVars>>

\* The SSH server drops a connection that is in service.
UpstreamDies(i) ==
  /\ upstream[i] = "open" /\ listener[i] # "none"
  /\ upstream' = [upstream EXCEPT ![i] = "dead"]
  /\ UNCHANGED <<callVars, kind, listener, acceptor, stopped, conn, historyVars>>

--------------------------------------------------------------------------------
ThreadNext(t) ==
  \/ \E cfg \in Configs \cup {BadJson}, i \in Ids : CallStart(t, cfg, i)
  \/ \E o \in {"stop", "query"} : Call(t, o)
  \/ Lock(t) \/ ReadActive(t) \/ NothingToStop(t)
  \/ StopSwap(t) \/ StopListener(t) \/ StopClient(t) \/ ClearActive(t)
  \/ RejectJson(t) \/ Dispatch(t)
  \/ \E stage \in Stages : StageSucceeds(t, stage) \/ StageFails(t, stage)
  \/ Publish(t)
  \/ Unlock(t)

TransportNext ==
  \/ \E i \in Ids : AcceptError(i) \/ UpstreamDies(i)
  \/ \E c \in Conns : \E i \in Ids : Connect(c, i)
  \/ \E c \in Conns : Accept(c) \/ Handshake(c) \/ DialSucceeds(c)
                        \/ DialFails(c) \/ ClientStalls(c) \/ ClientReads(c)
                        \/ PeerEnds(c) \/ RelayCut(c)

Next == (\E t \in Threads : ThreadNext(t)) \/ TransportNext

Spec == Init /\ [][Next]_vars

\* A thread inside an exported function keeps running; only a stage without a
\* deadline may block it for ever.
Step(t) ==
  \/ ReadActive(t) \/ NothingToStop(t)
  \/ StopSwap(t) \/ StopListener(t) \/ StopClient(t) \/ ClearActive(t)
  \/ RejectJson(t) \/ Dispatch(t) \/ Publish(t) \/ Unlock(t)

BoundedStage(t) ==
  \E stage \in Stages :
    /\ At(t, stage) /\ ~Unbounded(stage, kind[mine[t]])
    /\ StageSucceeds(t, stage) \/ StageFails(t, stage)

\* sync.Mutex hands the lock to a waiter that has starved, so acquisition is
\* strongly fair; running goroutines are weakly fair; peers owe nothing,
\* and a relay whose client does not read may stay in local.Write for ever.
Fairness ==
  /\ \A t \in Threads : SF_vars(Lock(t)) /\ WF_vars(Step(t)) /\ WF_vars(BoundedStage(t))
  /\ \A c \in Conns : WF_vars(Accept(c)) /\ WF_vars(DialSucceeds(c) \/ DialFails(c))
                        /\ WF_vars(conn[c].phase = "relay" /\ RelayCut(c))

FairSpec == Spec /\ Fairness

--------------------------------------------------------------------------------
(* Properties.                                                             *)

CallResults == Ids \cup {"-1", "void", "true", "false", "nothing"}

\* Every variable of the engine has its type.
TypeOK ==
  /\ mu \in Threads \cup {None}
  /\ active \in Ids \cup {None}
  /\ pc \in [Threads -> {"idle", "lock", "entered", "closeListener", "closeClient",
                         "clear", "load", "build", "unlock"}]
  /\ op \in [Threads -> {"none", "start", "stop", "query"}]
  /\ arg \in [Threads -> Configs \cup {BadJson, None}]
  /\ mine \in [Threads -> Ids \cup {None}]
  /\ made \in SUBSET Ids
  /\ todo \in [Threads -> SUBSET Stages]
  /\ result \in [Threads -> CallResults]
  /\ kind \in [Ids -> Kinds \cup {"none"}]
  /\ listener \in [Ids -> {"none", "open", "closed"}]
  /\ upstream \in [Ids -> {"none", "open", "dead", "closed"}]
  /\ acceptor \in [Ids -> {"none", "running", "done"}]
  /\ stopped \in [Ids -> BOOLEAN]
  /\ conn \in [Conns -> [phase : {"none", "backlog", "handshake", "dial", "relay", "stalled", "closed"},
                         of : Ids \cup {None}]]
  /\ served \in Ids \cup {None}
  /\ answer \in [Threads -> CallResults]

\* A transport that still holds a socket of its own: a listening port, or the
\* connection to its SSH server (one the server dropped must still be closed).
Holds(i) == listener[i] = "open" \/ upstream[i] \in {"open", "dead"}

\* Two transports never hold sockets at the same time: Start has completely
\* closed the old one before it dials for the new one.
OneTransport == \A i, j \in Ids : Holds(i) /\ Holds(j) => i = j

\* Only active holds sockets, it listens, and it has not been stopped.
Quiet ==
  \A i \in Ids :
    /\ listener[i] = "open" <=> i = active
    /\ Holds(i) => i = active /\ ~stopped[i]

\* Whenever no call is inside the engine, the one listening port is that of
\* active, active has not been stopped, and no connection to an SSH server is
\* left open by a failed Start or by a Stop.
NothingLeftBehind == mu = None => Quiet

\* Start, Stop and IsRunning are the atomic operations of TunnelService.
Service == INSTANCE TunnelService WITH serving <- served, pending <- op

ImplementsService == Service!SSpec

InHandshake(t) == At(t, "sshHandshake") \/ At(t, "tlsHandshake")

\* A call of the API returns, unless some Start stays for ever in an SSH or TLS
\* handshake with a silent peer: nothing else can wedge the engine.
CallsReturn ==
  \A t \in Threads : []<>(pc[t] = "idle") \/ <>[](\E u \in Threads : InHandshake(u))

\* A connection that an SSH or DNS transport relays ends once it is stopped,
\* unless its client stops reading: nothing wakes a copy out of local.Write.
StoppedRelaysEnd ==
  \A c \in Conns :
    (conn[c].phase = "relay" /\ stopped[conn[c].of] /\ kind[conn[c].of] # "socks")
      ~> conn[c].phase # "relay"

--------------------------------------------------------------------------------
(* The inductive invariant behind OneTransport and NothingLeftBehind: what *)
(* holds at each point of the thread that is inside the engine.            *)

Virgin(i) == listener[i] = "none" /\ upstream[i] = "none" /\ ~stopped[i]

OnlyHolder(i) == \A j \in Ids : Holds(j) => j = i

AtPoint(t) ==
  /\ pc[t] \in {"entered", "unlock"} => Quiet
  /\ pc[t] \in {"closeListener", "closeClient"} => active \in Ids /\ OnlyHolder(active)
  /\ pc[t] = "closeClient" => listener[active] # "open" /\ kind[active] \in SshKinds
  /\ pc[t] \in {"clear", "load"} => \A i \in Ids : ~Holds(i)
  /\ pc[t] \in {"load", "build"} => active = None
  /\ pc[t] = "build" =>
       /\ OnlyHolder(mine[t]) /\ ~stopped[mine[t]]
       /\ kind[mine[t]] \notin SshKinds => "tcpDial" \notin todo[t]
       /\ IF todo[t] = {} THEN listener[mine[t]] = "open"
          ELSE "listen" \in todo[t] /\ listener[mine[t]] = "none"

\* A transport not handed out, or whose constructor has not begun, is untouched;
\* a Start in progress has a transport of its own.
Fresh ==
  /\ \A i \in Ids \ made : Virgin(i) /\ i # active /\ i # served
  /\ \A t \in Threads :
       /\ op[t] = "start" <=> mine[t] # None
       /\ mine[t] # None =>
            /\ mine[t] \in made /\ mine[t] # served
            /\ \A u \in Threads : mine[u] = mine[t] => u = t
            /\ pc[t] \notin {"build", "unlock"} => Virgin(mine[t]) /\ mine[t] # active

\* Which function a thread is in, and what a call about to return will answer.
CallInv(t) ==
  /\ pc[t] = "idle" <=> op[t] = "none"
  /\ pc[t] \in {"load", "build"} => op[t] = "start"
  /\ pc[t] \in {"closeListener", "closeClient", "clear"} => op[t] \in {"start", "stop"}
  /\ op[t] = "start" => arg[t] # None
  /\ pc[t] = "entered" => active = served
  /\ pc[t] = "unlock" =>
       /\ op[t] = "start" => \/ active = None /\ result[t] = "-1"
                             \/ active = mine[t] /\ result[t] = active
       /\ op[t] = "stop" => active = None /\ result[t] = "void"
       /\ op[t] = "query" => /\ active = served
                             /\ result[t] = IF active # None THEN "true" ELSE "false"

\* The mutex excludes: a thread past Lock is the one that holds it.
LockInv == \A t \in Threads : pc[t] \notin {"idle", "lock"} <=> mu = t

\* Only transports with an ssh.Client have an upstream connection.
CarrierInv ==
  \A i \in Ids :
    /\ kind[i] \notin SshKinds => upstream[i] = "none"
    /\ upstream[i] = "dead" => listener[i] # "none"

\* The inductive invariant.
IInv ==
  /\ TypeOK
  /\ mu = None => Quiet /\ active = served
  /\ LockInv
  /\ CarrierInv
  /\ Fresh
  /\ \A t \in Threads : AtPoint(t)
  /\ \A t \in Threads : CallInv(t)

================================================================================
