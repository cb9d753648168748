----------------------------- MODULE TunnelService -----------------------------
(***************************************************************************)
(* What the gomobile API of src/go/tunnel promises to its callers: Start,  *)
(* Stop and IsRunning behave as if each of them happened at one instant,   *)
(* against a single register "serving".                                    *)
(***************************************************************************)
CONSTANTS
  Threads,    \* the threads that call the API
  Ids,        \* the transports a Start may create, named by their local port
  None

VARIABLES
  serving,    \* the transport behind the port the engine serves, or None
  pending,    \* pending[t]: the call t has not yet seen return, or "none"
  answer      \* answer[t]: what t's last call returned

svars == <<serving, pending, answer>>

SInit ==
  /\ serving = None
  /\ pending = [t \in Threads |-> "none"]
  /\ answer = [t \in Threads |-> "nothing"]

Invoke(t, o) ==
  /\ pending[t] = "none"
  /\ pending' = [pending EXCEPT ![t] = o]
  /\ UNCHANGED <<serving, answer>>

Respond(t, r) ==
  /\ pending' = [pending EXCEPT ![t] = "none"]
  /\ answer' = [answer EXCEPT ![t] = r]

\* Start either serves a transport that was not being served, and answers its
\* port, or serves nothing any more and answers -1: never the old transport.
StartServes(t, i) ==
  /\ pending[t] = "start"
  /\ i # serving
  /\ serving' = i
  /\ Respond(t, i)

StartFails(t) ==
  /\ pending[t] = "start"
  /\ serving' = None
  /\ Respond(t, "-1")

StopServes(t) ==
  /\ pending[t] = "stop"
  /\ serving' = None
  /\ Respond(t, "void")

QueryAnswers(t) ==
  /\ pending[t] = "query"
  /\ Respond(t, IF serving # None THEN "true" ELSE "false")
  /\ UNCHANGED serving

SNext ==
  \E t \in Threads :
    \/ \E o \in {"start", "stop", "query"} : Invoke(t, o)
    \/ \E i \in Ids : StartServes(t, i)
    \/ StartFails(t)
    \/ StopServes(t)
    \/ QueryAnswers(t)

SSpec == SInit /\ [][SNext]_svars

================================================================================
