------------------------------ MODULE TunnelConfig ------------------------------
(***************************************************************************)
(* The configuration of a tunnel on its way from a profile of the app to   *)
(* the engine: _providerConfig (src/lib/services/vpn_platform_service.dart)*)
(* puts a profile into the provider configuration of the VPN, buildGoConfig*)
(* (src/ios/DNSly/PacketTunnelProvider.swift) makes the engine's Config of *)
(* it, and Start (src/go/tunnel/tunnel.go) chooses the transport.          *)
(*                                                                         *)
(* Of each only the fields that choose a branch are kept; a profile and a  *)
(* Config name them alike.                                                 *)
(***************************************************************************)

\* The transports built on an ssh.Client.
SshKinds == {"ssh", "sshTls", "sshWebsocket", "sshHttpConnect", "sshPayload"}
Kinds == SshKinds \cup {"dns", "socks"}

\* The fields of Config that choose a branch.
ConfigSet ==
  [type : {"ssh", "vayDnsSsh", "sshTls", "sshWebsocket", "sshHttpConnect",
           "sshPayloadInjection", "vaydns", "vayDns", "socks5", "vayDnsSocks"},
   httpProxy : BOOLEAN, ws : BOOLEAN, wsTls : BOOLEAN, tls : BOOLEAN,
   payload : {"none", "text", "badBase64"}, domain : BOOLEAN]

\* What the profile editor can save: the five tunnel types of the app.
ProfileSet ==
  {p \in ConfigSet : p.type \in {"vayDns", "vayDnsSsh", "vayDnsSocks", "ssh", "socks5"}}

--------------------------------------------------------------------------------
\* _providerConfig has no key for the options that wrap SSH.
providerConfig(p) == [type |-> p.type, domain |-> p.domain]

\* buildGoConfig copies the keys it knows and json.Unmarshal leaves the fields of
\* the others at zero.
buildGoConfig(raw) ==
  [type |-> raw.type, domain |-> raw.domain,
   httpProxy |-> FALSE, ws |-> FALSE, wsTls |-> FALSE, tls |-> FALSE, payload |-> "none"]

\* The transport of the SSH types depends on the fields that are set.
SelectSsh(cfg) ==
  IF cfg.httpProxy THEN "sshHttpConnect"
  ELSE IF cfg.ws THEN "sshWebsocket"
  ELSE IF cfg.payload # "none" THEN "sshPayload"
  ELSE IF cfg.tls THEN "sshTls" ELSE "ssh"

\* The switch of Start.
Select(cfg) ==
  CASE cfg.type \in {"ssh", "vayDnsSsh"} -> SelectSsh(cfg)
    [] cfg.type \in {"sshTls", "sshWebsocket", "sshHttpConnect"} -> cfg.type
    [] cfg.type = "sshPayloadInjection" -> "sshPayload"
    [] cfg.type \in {"vaydns", "vayDns"} -> "dns"
    [] OTHER -> "socks"

================================================================================
