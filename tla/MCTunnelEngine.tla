---------------------------- MODULE MCTunnelEngine ----------------------------
(* The instance of TunnelEngine for TLC.  Its two dimensions are explored  *)
(* one at a time: one thread with every shape of configuration and a live  *)
(* local connection, and two threads that race with transports of two      *)
(* shapes.  Only calls and connections that would mix them are left out;   *)
(* what a call or a connection has begun takes all its steps.              *)
EXTENDS TunnelEngine

CONSTANT Second   \* the thread that races

Plain ==
  [type |-> "ssh", httpProxy |-> FALSE, ws |-> FALSE, wsTls |-> FALSE, tls |-> FALSE,
   payload |-> "none", domain |-> FALSE]

SshConfig == Plain
HttpConnectTls == [Plain EXCEPT !.httpProxy = TRUE, !.tls = TRUE]
WebSocketTls == [Plain EXCEPT !.ws = TRUE, !.wsTls = TRUE]
PayloadConfig == [Plain EXCEPT !.payload = "text"]
BadPayload == [Plain EXCEPT !.type = "sshPayloadInjection", !.payload = "badBase64", !.tls = TRUE]
TlsConfig == [Plain EXCEPT !.type = "sshTls"]
DnsConfig == [Plain EXCEPT !.type = "vayDns", !.domain = TRUE]
NoDomain == [Plain EXCEPT !.type = "vaydns"]
SocksConfig == [Plain EXCEPT !.type = "socks5"]

\* Two transports of different shape: with and without an upstream connection.
TwoConfigs == {SshConfig, SocksConfig}
AllConfigs == {SshConfig, HttpConnectTls, WebSocketTls, PayloadConfig, BadPayload,
               TlsConfig, DnsConfig, NoDomain, SocksConfig}

Racing == pc[Second] # "idle" \/ answer[Second] # "nothing"

\* A connection was made, or a configuration beyond the two used.
Wide ==
  \/ \E c \in Conns : conn[c].phase # "none"
  \/ \E i \in Ids : kind[i] \notin {"none", "ssh", "socks"}
  \/ \E t \in Threads : arg[t] \notin TwoConfigs \cup {BadJson, None}

MayCall(t) == t = Second => ~Wide

\* Of the two transports one has every shape in turn, the other a common one.
MayStart(t, cfg) ==
  /\ MayCall(t)
  /\ t = Second \/ Racing => cfg \in TwoConfigs \cup {BadJson}
  /\ \/ cfg \in {SshConfig, SocksConfig, DnsConfig, BadJson}
     \/ \A i \in Ids : kind[i] \in {"none", "ssh", "socks", "dns"}

\* Transports have no names of their own: the next one is any not handed out.
NextId == CHOOSE i \in Ids : i \notin made

MCThreadNext(t) ==
  \/ \E cfg \in Configs \cup {BadJson} :
       made # Ids /\ MayStart(t, cfg) /\ CallStart(t, cfg, NextId)
  \/ \E o \in {"stop", "query"} : MayCall(t) /\ Call(t, o)
  \/ Lock(t) \/ ReadActive(t) \/ NothingToStop(t)
  \/ StopSwap(t) \/ StopListener(t) \/ StopClient(t) \/ ClearActive(t)
  \/ RejectJson(t) \/ Dispatch(t)
  \/ \E stage \in Stages : StageSucceeds(t, stage) \/ StageFails(t, stage)
  \/ Publish(t)
  \/ Unlock(t)

MCTransportNext ==
  \/ \E i \in Ids : AcceptError(i) \/ UpstreamDies(i)
  \/ ~Racing /\ \E c \in Conns : \E i \in Ids : Connect(c, i)
  \/ \E c \in Conns : \/ Accept(c) \/ Handshake(c) \/ DialSucceeds(c) \/ DialFails(c)
                      \/ ClientStalls(c) \/ ClientReads(c) \/ PeerEnds(c) \/ RelayCut(c)

MCSpec == Init /\ [][(\E t \in Threads : MCThreadNext(t)) \/ MCTransportNext]_vars /\ Fairness
===============================================================================
