----------------------------- MODULE MCDnsScanner -----------------------------
(* Instances of DnsScanner for TLC. *)
EXTENDS DnsScanner

\* Protocols with deadlines alone, without, and one of each.
SomeOffers == {<<"udp", "tcp">>, <<"tcp", "dot">>, <<"doh">>}

================================================================================
