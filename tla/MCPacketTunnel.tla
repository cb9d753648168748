----------------------------- MODULE MCPacketTunnel -----------------------------
(* Instances of PacketTunnel for TLC. *)
EXTENDS PacketTunnel

Ssh == [type |-> "ssh", domain |-> FALSE, httpProxy |-> FALSE, ws |-> FALSE,
        wsTls |-> FALSE, tls |-> FALSE, payload |-> "none"]
SshOverTls == [Ssh EXCEPT !.tls = TRUE]

OneProfile == {Ssh}
WithBypass == {Ssh, SshOverTls}

================================================================================
