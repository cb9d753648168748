----------------------------- MODULE ConnectionBloc -----------------------------
(***************************************************************************)
(* The connection bloc of the app (src/lib/blocs/connection), the button   *)
(* that drives it, the iOS bridge below it (src/ios/Runner) and the        *)
(* status of the system's VPN connection.  Handlers of the bloc interleave *)
(* at every await; status events come on a stream of their own.            *)
(*                                                                         *)
(* Of ConnectionState the status is kept; profile, byte counts and log are *)
(* left out.  An unknown NEVPNStatus changes nothing and is left out too.  *)
(***************************************************************************)
EXTENDS Naturals, SequencesExt

CONSTANTS
  Handlers,    \* activations of _onStarted and _onStopped that may overlap
  None,
  MaxEvents,   \* bounds what is on its way to the bloc when something new begins
  MaxTimers    \* bounds the timers alive when a start begins

ASSUME NoneAssumption == None \notin Handlers
ASSUME BoundsAssumption == MaxEvents \in Nat /\ MaxTimers \in Nat

Statuses == {"disconnected", "connecting", "connected", "stopping", "error"}
Busy == {"connecting", "stopping"}

\* What NEVPNStatus may become by itself: the extension reports, the user
\* switches the VPN or removes its configuration in the system settings.
Moves ==
  [invalid       |-> {},
   disconnected  |-> {"connecting", "invalid"},
   connecting    |-> {"connected", "disconnecting", "disconnected"},
   connected     |-> {"reasserting", "disconnecting"},
   reasserting   |-> {"connected", "disconnecting"},
   disconnecting |-> {"disconnected"}]
NativeStatuses == DOMAIN Moves
Transitional == {"connecting", "reasserting", "disconnecting"}
Down == {"disconnecting", "disconnected", "invalid"}

VARIABLES
  status,     \* the status of the bloc's state
  button,     \* what a tap does on the home screen as it was last built
  handler,    \* where each activation is: its call is with the platform, or answered
  timers,     \* pairs of periodic timers that run
  held,       \* _uptimeTimer and _statsTimer hold one of them
  native,     \* NEVPNStatus of the connection
  loading,    \* emitCurrentStatus calls that have not read the status yet
  waiting,    \* the statuses that wait for lastError, in the order they were read
  inbox,      \* messages on their way to the bloc
  stale,      \* history: no event will tell the bloc of the current status
  wanted      \* history: "down" from a tap to stop until something starts

streamVars == <<native, loading, waiting>>
blocVars == <<status, handler, timers, held>>
vars == <<blocVars, button, streamVars, inbox, stale, wanted>>

Event(s) == [is |-> "status", of |-> None, ok |-> TRUE, status |-> s]
Answer(h, call, ok) == [is |-> call, of |-> h, ok |-> ok, status |-> "none"]

\* The app starts while the VPN is in any state; onListen asks for its status.
Init ==
  /\ status = "disconnected" /\ button = "connect"
  /\ handler = [h \in Handlers |-> "idle"]
  /\ timers = 0 /\ held = FALSE
  /\ native \in NativeStatuses
  /\ loading = 1 /\ waiting = <<>> /\ inbox = <<>>
  /\ stale = FALSE /\ wanted = "any"

Room == loading + Len(waiting) + Len(inbox) < MaxEvents
Goto(h, label) == handler' = [handler EXCEPT ![h] = label]

--------------------------------------------------------------------------------
(* The home screen.                                                        *)

\* The button is dead while a busy status is shown.
ButtonFor(s) ==
  CASE s \in Busy -> "dead"
    [] s \in {"connected", "error"} -> "stop"
    [] s = "disconnected" -> "connect"

\* The screen is built again from the bloc's state.
Build ==
  /\ button # ButtonFor(status)
  /\ button' = ButtonFor(status)
  /\ UNCHANGED <<blocVars, streamVars, inbox, stale, wanted>>

\* _onStarted up to its first await.
TapConnect(h) ==
  /\ button = "connect"
  /\ handler[h] = "idle"
  /\ Room /\ timers < MaxTimers
  /\ status' = "connecting"
  /\ Goto(h, "install")
  /\ wanted' = "any"
  /\ UNCHANGED <<button, timers, held, streamVars, inbox, stale>>

\* A start that has not yet been answered.
StartInFlight ==
  \E h \in Handlers : handler[h] \in {"install", "installed", "start", "started"}

\* _onStopped up to its await: _stopTimers, then the status.
TapStop(h) ==
  /\ button = "stop"
  /\ handler[h] = "idle"
  /\ Room
  /\ timers' = IF held THEN timers - 1 ELSE timers
  /\ held' = FALSE
  /\ status' = "stopping"
  /\ Goto(h, "stop")
  /\ wanted' = IF StartInFlight THEN "any" ELSE "down"
  /\ UNCHANGED <<button, streamVars, inbox, stale>>

--------------------------------------------------------------------------------
(* The VPN connection and VPNManager.                                      *)

\* A change of the status posts NEVPNStatusDidChange: one more read to come.
Becomes(s) ==
  /\ native' = s
  /\ loading' = loading + 1
  /\ stale' = FALSE
  /\ UNCHANGED waiting

NativeMoves ==
  /\ Room
  /\ \E s \in Moves[native] : Becomes(s)
  /\ wanted' = IF native = "disconnected" THEN "any" ELSE wanted
  /\ UNCHANGED <<blocVars, button, inbox>>

\* installProfile saves the first configuration ...
ProfileSaved(h) ==
  /\ handler[h] = "install" /\ native = "invalid"
  /\ Becomes("disconnected")
  /\ UNCHANGED <<blocVars, button, inbox, wanted>>

\* ... and answers, with an error if any of its four steps failed.
installProfile(h) ==
  /\ handler[h] = "install"
  /\ Goto(h, "installed")
  /\ \E ok \in BOOLEAN :
       /\ ok => native # "invalid"
       /\ inbox' = Append(inbox, Answer(h, "install", ok))
  /\ UNCHANGED <<status, timers, held, button, streamVars, stale, wanted>>

\* startVPNTunnel returns at once: the tunnel is still to come up.  It changes
\* nothing unless the connection is down.
start(h) ==
  /\ handler[h] = "start"
  /\ Goto(h, "started")
  /\ \/ /\ native = "disconnected"
        /\ Becomes("connecting")
        /\ inbox' = Append(inbox, Answer(h, "start", TRUE))
     \/ /\ native \notin {"disconnected", "invalid"}
        /\ inbox' = Append(inbox, Answer(h, "start", TRUE))
        /\ UNCHANGED <<streamVars, stale>>
     \/ /\ inbox' = Append(inbox, Answer(h, "start", FALSE))
        /\ UNCHANGED <<streamVars, stale>>
  /\ UNCHANGED <<status, timers, held, button, wanted>>

\* Mutant of stop: only a connection that is up is taken down.
StopsOnlyConnected(h) ==
  /\ handler[h] = "stop"
  /\ Goto(h, "stopped")
  /\ IF native = "connected" THEN Becomes("disconnecting")
     ELSE UNCHANGED <<streamVars, stale>>
  /\ inbox' = Append(inbox, Answer(h, "stop", TRUE))
  /\ UNCHANGED <<status, timers, held, button, wanted>>

\* stopVPNTunnel; an error of loadManager leaves the tunnel as it is.
stop(h) ==
  /\ handler[h] = "stop"
  /\ Goto(h, "stopped")
  /\ \/ /\ native \in {"connecting", "connected", "reasserting"}
        /\ Becomes("disconnecting")
        /\ inbox' = Append(inbox, Answer(h, "stop", TRUE))
        /\ UNCHANGED wanted
     \/ /\ native \in Down
        /\ inbox' = Append(inbox, Answer(h, "stop", TRUE))
        /\ UNCHANGED <<streamVars, stale, wanted>>
     \/ /\ inbox' = Append(inbox, Answer(h, "stop", FALSE))
        /\ stale' = TRUE
        /\ wanted' = "any"
        /\ UNCHANGED streamVars
  /\ UNCHANGED <<status, timers, held, button>>

--------------------------------------------------------------------------------
(* VPNStatusStreamHandler.                                                 *)

\* manager.status has loaded the manager and reads the status ...
StatusRead ==
  /\ loading > 0
  /\ loading' = loading - 1
  /\ waiting' = Append(waiting, native)
  /\ UNCHANGED <<blocVars, button, native, inbox, stale, wanted>>

\* ... or fails: an error event, which the bloc ignores.
StatusReadFails ==
  /\ loading > 0
  /\ loading' = loading - 1
  /\ stale' = (stale \/ loading = 1)
  /\ UNCHANGED <<blocVars, button, native, waiting, inbox, wanted>>

\* manager.lastError has the extension's answer, or none: the event goes out.
\* Round trips may overtake one another.
EmitStatus(n) ==
  /\ n \in DOMAIN waiting
  /\ inbox' = Append(inbox, Event(waiting[n]))
  /\ waiting' = RemoveAt(waiting, n)
  /\ stale' = (stale \/ (loading = 0 /\ n = Len(waiting) /\ n > 1))
  /\ UNCHANGED <<blocVars, button, native, loading, wanted>>

--------------------------------------------------------------------------------
(* The bloc's handlers go on.                                              *)

mapNativeStatus(s) ==
  CASE s = "connected" -> "connected"
    [] s \in {"connecting", "reasserting"} -> "connecting"
    [] s = "disconnecting" -> "stopping"
    [] s \in {"disconnected", "invalid"} -> "disconnected"

Message(call, h) ==
  /\ inbox # <<>>
  /\ Head(inbox).is = call /\ Head(inbox).of = h
  /\ inbox' = Tail(inbox)
  /\ UNCHANGED <<button, streamVars, stale, wanted>>

\* Mutant of NativeStatusChanged: "disconnecting" is the last word of a session.
NativeStatusChangedUntilStopping ==
  /\ Message("status", None)
  /\ status' = IF status = "stopping" /\ Head(inbox).status = "disconnected" THEN status
               ELSE mapNativeStatus(Head(inbox).status)
  /\ UNCHANGED <<handler, timers, held>>

\* _onNativeStatusChanged
NativeStatusChanged ==
  /\ Message("status", None)
  /\ status' = mapNativeStatus(Head(inbox).status)
  /\ UNCHANGED <<handler, timers, held>>

\* The handler goes on behind "await installProfile", or into its catch.
Installed(h) ==
  /\ Message("install", h)
  /\ handler[h] = "installed"
  /\ IF Head(inbox).ok THEN Goto(h, "start") /\ UNCHANGED status
     ELSE Goto(h, "idle") /\ status' = "error"
  /\ UNCHANGED <<timers, held>>

\* Behind "await start": connected, and a new pair of timers; the fields forget
\* a pair that still runs.
Started(h) ==
  /\ Message("start", h)
  /\ handler[h] = "started"
  /\ Goto(h, "idle")
  /\ IF Head(inbox).ok
     THEN status' = "connected" /\ timers' = timers + 1 /\ held' = TRUE
     ELSE status' = "error" /\ UNCHANGED <<timers, held>>

\* Mutant of Stopped: the handler ends without a state.
StoppedSilently(h) ==
  /\ Message("stop", h)
  /\ handler[h] = "stopped"
  /\ Goto(h, "idle")
  /\ UNCHANGED <<status, timers, held>>

\* Behind "await stop": disconnected, whatever the answer.
Stopped(h) ==
  /\ Message("stop", h)
  /\ handler[h] = "stopped"
  /\ Goto(h, "idle")
  /\ status' = "disconnected"
  /\ UNCHANGED <<timers, held>>

--------------------------------------------------------------------------------
Next ==
  \/ Build
  \/ \E h \in Handlers :
       \/ TapConnect(h) \/ TapStop(h)
       \/ ProfileSaved(h) \/ installProfile(h) \/ start(h) \/ stop(h)
       \/ Installed(h) \/ Started(h) \/ Stopped(h)
  \/ NativeMoves
  \/ StatusRead \/ StatusReadFails
  \/ \E n \in DOMAIN waiting : EmitStatus(n)
  \/ NativeStatusChanged

Spec == Init /\ [][Next]_vars

--------------------------------------------------------------------------------
(* Properties.                                                             *)

HandlerStates == {"idle", "install", "installed", "start", "started", "stop", "stopped"}
Messages == [is : {"status", "install", "start", "stop"}, of : Handlers \cup {None},
             ok : BOOLEAN, status : NativeStatuses \cup {"none"}]

BlocTyped ==
  /\ status \in Statuses /\ button \in {"dead", "connect", "stop"}
  /\ handler \in [Handlers -> HandlerStates]
  /\ timers \in Nat /\ held \in BOOLEAN /\ (held => timers >= 1)
  /\ wanted \in {"any", "down"}

StreamTyped ==
  /\ native \in NativeStatuses
  /\ loading \in Nat /\ waiting \in Seq(NativeStatuses) /\ stale \in BOOLEAN

\* Every variable has its type; only status events carry a status.
TypeOK ==
  /\ BlocTyped /\ StreamTyped
  /\ inbox \in Seq(Messages)
  /\ \A n \in DOMAIN inbox : inbox[n].is = "status" => inbox[n].status \in NativeStatuses

\* Nothing is on its way, no handler runs, the connection is at rest.
Settled ==
  /\ \A h \in Handlers : handler[h] = "idle"
  /\ loading = 0 /\ waiting = <<>> /\ inbox = <<>>
  /\ native \notin Transitional

\* The status agrees with the connection's, or tells of a failed start.
Agrees == status \in {mapNativeStatus(native), "error"}

\* Once everything has come to rest the app shows what the VPN is, however taps,
\* awaits and status events interleaved, unless the last event was lost or
\* overtaken, or a call to stop failed.
SettledAgrees == Settled /\ ~stale => Agrees

\* When a stop is through, the tunnel is down or on its way, and stays so until
\* someone starts it; the exception is a start still in flight at the tap.
StopIsObeyed ==
  wanted = "down" /\ (\A h \in Handlers : handler[h] # "stop") => native \in Down

--------------------------------------------------------------------------------
(* The inductive invariant behind SettledAgrees and StopIsObeyed.          *)

\* If the connection rests where it is, the message leaves the bloc in agreement;
\* an installation's answer is followed by another call, or by "error".
Fits(m) ==
  /\ m.is = "status" => m.status = native
  /\ m.is = "start" /\ m.ok => native = "connected"
  /\ m.is = "stop" => native \in Down

EventBehind(n) == \E m \in DOMAIN inbox : n < m /\ inbox[m].is = "status"

\* With no read to come, the last status read is the current one; with none
\* waiting either, what is on its way to the bloc leaves it in agreement.
NewsInv ==
  ~stale /\ loading = 0 =>
    /\ waiting # <<>> => Last(waiting) = native
    /\ waiting = <<>> /\ native \notin Transitional =>
         /\ \A n \in DOMAIN inbox : Fits(inbox[n]) \/ EventBehind(n)
         /\ Agrees \/ (\E h \in Handlers : handler[h] # "idle") \/ EventBehind(0)

StopInv == wanted = "down" => ~StartInFlight

\* Types, the news on their way to the bloc and the effect of a stop: inductive.
IInv == TypeOK /\ NewsInv /\ StopInv /\ StopIsObeyed

================================================================================
