------------------------------ MODULE PacketTunnel ------------------------------
(***************************************************************************)
(* The packet tunnel extension (src/ios/DNSly/PacketTunnelProvider.swift)  *)
(* over the Go engine, of which it needs what TunnelService promises.  A   *)
(* session is one provider object: the system calls startTunnel and        *)
(* stopTunnel on it, the start goes on in a callback of the system and in  *)
(* a block of the provider's serial ioQueue, and the engine is shared by   *)
(* all the sessions of one process.                                        *)
(*                                                                         *)
(* lastErrorMessage is set exactly when a start is answered with an error. *)
(* Left out: startedAt, the network settings' values, stats, and what the  *)
(* SOCKS probe says on the wire.                                           *)
(***************************************************************************)
EXTENDS TunnelConfig

CONSTANTS
  Sessions,    \* provider objects: bounds the starts of the VPN
  Ports,       \* local ports the engine may listen on
  Profiles,    \* profiles the app may have installed
  None

ASSUME NoneAssumption == None \notin Ports \cup Profiles \cup Sessions
ASSUME PortsAssumption == Ports \cap {"-1", "void", "true", "false", "nothing"} = {}
ASSUME ProfilesAssumption == Profiles \subseteq ProfileSet

\* Each session calls the engine from its ioQueue and from the system's queue.
Threads == Sessions \X {"io", "system"}

VARIABLES
  linked,      \* the frameworks the extension was built with: "Go", "Tun2Socks"
  life,        \* life[s]: not yet begun, a live object, or deallocated
  profile,     \* the profile whose providerConfiguration the session found
  start,       \* where the start is: the system's callback, the queue, the engine
  stop,        \* where stopTunnel is
  told,        \* what the start's completionHandler was called with
  port,        \* the port given to Tun2Socks
  serving, pending, answer,   \* the engine, see TunnelService
  last,        \* history: the session whose call the engine executed last
  overtaken    \* history: sessions whose stop reached the engine before their start

sessionVars == <<life, profile, start, stop, told, port>>
engineVars == <<serving, pending, answer>>
historyVars == <<last, overtaken>>
vars == <<linked, sessionVars, engineVars, historyVars>>

Engine == INSTANCE TunnelService WITH Ids <- Ports

Io(s) == <<s, "io">>
System(s) == <<s, "system">>

Init ==
  /\ linked \in SUBSET {"Go", "Tun2Socks"}
  /\ life = [s \in Sessions |-> "new"]
  /\ profile = [s \in Sessions |-> None]
  /\ start = [s \in Sessions |-> "none"]
  /\ stop = [s \in Sessions |-> "none"]
  /\ told = [s \in Sessions |-> "none"]
  /\ port = [s \in Sessions |-> None]
  /\ Engine!SInit
  /\ last = None /\ overtaken = {}

\* The system takes a session for over: its start failed, or its stop is through.
Over(s) == stop[s] # "calling" /\ (told[s] = "error" \/ stop[s] = "done")

Tell(s, what) == told' = [told EXCEPT ![s] = what]
Goto(s, label) == start' = [start EXCEPT ![s] = label]

--------------------------------------------------------------------------------
(* startTunnel, its callback and its block on the ioQueue.                 *)

\* startTunnel; p is None if the configuration is not one the app has written.
startTunnel(s, p) ==
  /\ life[s] = "new"
  /\ \A r \in Sessions : life[r] = "live" => Over(r)
  /\ life' = [life EXCEPT ![s] = "live"]
  /\ profile' = [profile EXCEPT ![s] = p]
  /\ IF p = None THEN Tell(s, "error") /\ UNCHANGED start
     ELSE Goto(s, "settings") /\ UNCHANGED told
  /\ UNCHANGED <<linked, stop, port, engineVars, historyVars>>

\* The callback of setTunnelNetworkSettings; [weak self] keeps it from doing
\* anything for an object that is gone.
Callback(s) ==
  /\ life[s] = "live" /\ start[s] = "settings"
  /\ UNCHANGED <<linked, life, profile, stop, port, engineVars, historyVars>>

\* startTransport: whatever the mode, a block is queued.
SettingsApplied(s) == Callback(s) /\ Goto(s, "queued") /\ UNCHANGED told

\* The settings are refused, or startLegacySocks finds no server.
SettingsRefused(s) == Callback(s) /\ Goto(s, "done") /\ Tell(s, "error")

\* Variant: the block holds the provider and runs in any case.
RunBlockStrong(s) ==
  /\ start[s] = "queued"
  /\ IF "Go" \in linked THEN Goto(s, "engine") /\ Engine!Invoke(Io(s), "start")
     ELSE Goto(s, "probe") /\ UNCHANGED engineVars
  /\ UNCHANGED <<linked, life, profile, stop, told, port, historyVars>>

\* The block begins: TunnelStart, or without the framework the SOCKS probe.
RunBlock(s) ==
  /\ life[s] = "live" /\ start[s] = "queued"
  /\ IF "Go" \in linked THEN Goto(s, "engine") /\ Engine!Invoke(Io(s), "start")
     ELSE Goto(s, "probe") /\ UNCHANGED engineVars
  /\ UNCHANGED <<linked, life, profile, stop, told, port, historyVars>>

\* startTun2Socks, at the end of the block.
startTun2Socks(s, p) ==
  /\ Goto(s, "done")
  /\ IF "Tun2Socks" \in linked THEN Tell(s, "up") /\ port' = [port EXCEPT ![s] = p]
     ELSE Tell(s, "error") /\ UNCHANGED port
  /\ UNCHANGED <<linked, life, profile, stop, engineVars, historyVars>>

finish(s) ==
  /\ Goto(s, "done") /\ Tell(s, "error")
  /\ UNCHANGED <<linked, life, profile, stop, port, engineVars, historyVars>>

\* Variants: the port is not checked; the failure is not reported.
StartReturnedUnchecked(s) ==
  /\ start[s] = "engine" /\ pending[Io(s)] = "none"
  /\ startTun2Socks(s, answer[Io(s)])
StartReturnedSilently(s) ==
  /\ start[s] = "engine" /\ pending[Io(s)] = "none"
  /\ answer[Io(s)] # "-1"
  /\ startTun2Socks(s, answer[Io(s)])

\* TunnelStart has returned.
StartReturned(s) ==
  /\ start[s] = "engine" /\ pending[Io(s)] = "none"
  /\ IF answer[Io(s)] = "-1" THEN finish(s) ELSE startTun2Socks(s, answer[Io(s)])

\* Socks5Probe.verify returns within its 8 seconds; it is given the SOCKS
\* server's own port, which the engine has no part in.
ProbePasses(s) == start[s] = "probe" /\ startTun2Socks(s, None)
ProbeFails(s) == start[s] = "probe" /\ finish(s)

--------------------------------------------------------------------------------
(* stopTunnel and the end of the object and of the process.                *)

\* Variant: stopGoTunnel is not called.
stopTunnelOnly(s) ==
  /\ life[s] = "live" /\ told[s] # "error" /\ stop[s] = "none"
  /\ stop' = [stop EXCEPT ![s] = "done"]
  /\ UNCHANGED <<linked, life, profile, start, told, port, engineVars, historyVars>>

\* stopTunnel, at any time of a session that has not failed.
stopTunnel(s) ==
  /\ life[s] = "live" /\ told[s] # "error" /\ stop[s] = "none"
  /\ IF "Go" \in linked
     THEN stop' = [stop EXCEPT ![s] = "calling"] /\ Engine!Invoke(System(s), "stop")
     ELSE stop' = [stop EXCEPT ![s] = "done"] /\ UNCHANGED engineVars
  /\ UNCHANGED <<linked, life, profile, start, told, port, historyVars>>

\* TunnelStop has returned: stopTunnel's completionHandler is called.
StopReturned(s) ==
  /\ stop[s] = "calling" /\ pending[System(s)] = "none"
  /\ stop' = [stop EXCEPT ![s] = "done"]
  /\ UNCHANGED <<linked, life, profile, start, told, port, engineVars, historyVars>>

\* The system lets go of a session that is over; a running block holds it.
Release(s) ==
  /\ life[s] = "live" /\ Over(s) /\ start[s] \notin {"engine", "probe"}
  /\ life' = [life EXCEPT ![s] = "gone"]
  /\ UNCHANGED <<linked, profile, start, stop, told, port, engineVars, historyVars>>

\* The process ends, by the system's decision or a trap (UInt16(port) in the SOCKS
\* probe), and with it the engine and every session it had.
Exit ==
  /\ \E s \in Sessions : life[s] = "live"
  /\ life' = [s \in Sessions |-> IF life[s] = "new" THEN "new" ELSE "gone"]
  /\ start' = [s \in Sessions |-> "none"] /\ stop' = [s \in Sessions |-> "none"]
  /\ told' = [s \in Sessions |-> "none"] /\ port' = [s \in Sessions |-> None]
  /\ serving' = None
  /\ pending' = [t \in Threads |-> "none"] /\ answer' = [t \in Threads |-> "nothing"]
  /\ last' = None /\ overtaken' = {}
  /\ UNCHANGED <<linked, profile>>

--------------------------------------------------------------------------------
(* The calls inside the engine take effect.                                *)

\* The start has not reached the engine yet, but may.
Coming(s) ==
  /\ life[s] = "live"
  /\ start[s] \in {"settings", "queued"} \/ pending[Io(s)] = "start"

EngineStarts(s) ==
  /\ \E p \in Ports : Engine!StartServes(Io(s), p)
  /\ last' = s
  /\ UNCHANGED <<linked, sessionVars, overtaken>>

EngineFails(s) ==
  /\ Engine!StartFails(Io(s))
  /\ last' = s
  /\ UNCHANGED <<linked, sessionVars, overtaken>>

EngineStops(s) ==
  /\ Engine!StopServes(System(s))
  /\ last' = s
  /\ overtaken' = IF Coming(s) THEN overtaken \cup {s} ELSE overtaken
  /\ UNCHANGED <<linked, sessionVars>>

Next ==
  \/ \E s \in Sessions :
       \/ \E p \in Profiles \cup {None} : startTunnel(s, p)
       \/ SettingsApplied(s) \/ SettingsRefused(s) \/ RunBlock(s)
       \/ StartReturned(s) \/ ProbePasses(s) \/ ProbeFails(s)
       \/ stopTunnel(s) \/ StopReturned(s) \/ Release(s)
       \/ EngineStarts(s) \/ EngineFails(s) \/ EngineStops(s)
  \/ Exit

Spec == Init /\ [][Next]_vars

InStart == \E s \in Sessions : pending[Io(s)] = "start"

\* The system calls back, queues run their blocks, the probe has a deadline.
\* A start may hang in the engine; a stop waits for the starts there.
Fairness ==
  \A s \in Sessions :
    /\ WF_vars(SettingsApplied(s) \/ SettingsRefused(s)) /\ WF_vars(RunBlock(s))
    /\ WF_vars(StartReturned(s)) /\ WF_vars(ProbePasses(s) \/ ProbeFails(s))
    /\ WF_vars(~InStart /\ EngineStops(s)) /\ WF_vars(StopReturned(s))

FairSpec == Spec /\ Fairness

--------------------------------------------------------------------------------
(* Properties.                                                             *)

\* Every variable has its type.
TypeOK ==
  /\ linked \subseteq {"Go", "Tun2Socks"}
  /\ life \in [Sessions -> {"new", "live", "gone"}]
  /\ profile \in [Sessions -> Profiles \cup {None}]
  /\ start \in [Sessions -> {"none", "settings", "queued", "engine", "probe", "done"}]
  /\ stop \in [Sessions -> {"none", "calling", "done"}]
  /\ told \in [Sessions -> {"none", "up", "error"}]
  /\ port \in [Sessions -> Ports \cup {None}]
  /\ serving \in Ports \cup {None}
  /\ pending \in [Threads -> {"none", "start", "stop"}]
  /\ answer \in [Threads -> Ports \cup {"-1", "void", "nothing"}]
  /\ last \in Sessions \cup {None} /\ overtaken \subseteq Sessions

\* While the system takes a session for connected, Tun2Socks has the port the
\* engine serves; unless an earlier session of the process, whose stop came before
\* its start, has started after it.
UpIsServed ==
  \A s \in Sessions :
    told[s] = "up" /\ life[s] = "live" /\ stop[s] = "none" /\ "Go" \in linked =>
      \/ last = s /\ serving = port[s] /\ serving # None
      \/ last \in overtaken

\* A session that is over has left the engine serving nothing, unless its stop
\* came before its start, or Tun2Socks was missing when the engine had started.
OverIsDown ==
  \A s \in Sessions :
    Over(s) /\ last = s /\ s \notin overtaken /\ "Tun2Socks" \in linked => serving = None

\* Both completion handlers are called, as long as the process lives and the
\* session was not let go of, unless a start hangs in the engine.
CallsAreAnswered ==
  \A s \in Sessions :
    \/ []<>(life[s] # "live" \/ (start[s] \in {"none", "done"} /\ stop[s] # "calling"))
    \/ <>[]InStart

\* "DPI Bypass options - SSH over TLS/WebSocket/HTTP" (tunnel.go:43): a session that
\* is up uses the transport its profile asks for.
BypassIsUsed ==
  \A s \in Sessions : told[s] = "up" /\ "Go" \in linked =>
    Select(buildGoConfig(providerConfig(profile[s]))) = Select(profile[s])

--------------------------------------------------------------------------------
(* The inductive invariant behind UpIsServed and OverIsDown.               *)

\* Where a session may be in its life, and which calls it has in the engine.
SessionInv(s) ==
  /\ life[s] = "new" => start[s] = "none" /\ stop[s] = "none" /\ told[s] = "none"
  /\ start[s] \in {"engine", "probe"} \/ stop[s] = "calling" => life[s] = "live"
  /\ start[s] \notin {"none", "done"} => told[s] = "none"
  /\ told[s] = "up" => start[s] = "done" /\ "Tun2Socks" \in linked
  /\ start[s] = "engine" \/ stop[s] = "calling" => "Go" \in linked
  /\ start[s] = "probe" => "Go" \notin linked
  /\ pending[Io(s)] # "none" => pending[Io(s)] = "start" /\ start[s] = "engine"
  /\ pending[System(s)] # "none" => pending[System(s)] = "stop" /\ stop[s] = "calling"
  /\ start[s] = "engine" /\ pending[Io(s)] = "none" => answer[Io(s)] \in Ports \cup {"-1"}

\* At most one session is not over.
OneCurrent ==
  \A r, s \in Sessions :
    r # s /\ life[r] = "live" /\ life[s] = "live" => Over(r) \/ Over(s)

\* Once its stop has been through the engine, a start that is yet to come is known.
LateInv(s) ==
  stop[s] # "none" /\ pending[System(s)] = "none" /\ Coming(s) /\ "Go" \in linked
    => s \in overtaken

\* The engine's start has succeeded and the provider acts on it.
Acting(s) ==
  /\ life[s] = "live" /\ stop[s] = "none" /\ "Go" \in linked
  /\ \/ start[s] = "engine" /\ pending[Io(s)] = "none" /\ answer[Io(s)] # "-1"
     \/ told[s] = "up"

\* What the engine serves, it serves for the session that called it last.
ServesLast(s) ==
  last = s /\ serving # None =>
    /\ start[s] \in {"engine", "done"} /\ pending[Io(s)] = "none"
    /\ answer[Io(s)] = serving
    /\ told[s] = "error" => "Tun2Socks" \notin linked
    /\ s \in overtaken \/ stop[s] = "none" \/ pending[System(s)] = "stop"

ActsOnIt(s) ==
  /\ told[s] = "up" /\ "Go" \in linked => port[s] = answer[Io(s)]
  /\ Acting(s) => (last = s /\ serving # None) \/ last \in overtaken

\* Types, one current session, and whom the engine serves: inductive.
IInv ==
  /\ TypeOK
  /\ OneCurrent
  /\ last = None => serving = None
  /\ "Go" \notin linked => last = None
  /\ \A s \in Sessions : SessionInv(s) /\ LateInv(s) /\ ServesLast(s) /\ ActsOnIt(s)

================================================================================
