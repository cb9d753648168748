------------------------------- MODULE DnsStream -------------------------------
(***************************************************************************)
(* What a connection through src/go/tunnel/dns_tunnel.go promises to its   *)
(* two ends: each direction is a channel with one place.  The client's     *)
(* next chunk is taken when the target's side has all before it, and the   *)
(* server's next chunk is handed out when the queries of the client have   *)
(* brought it all before it; what the client makes of it is not promised.  *)
(* Two things break the promise, for good and never unnoticed by the       *)
(* history: a resolver that answers a query in the server's stead, and a   *)
(* poll without an answer.  No sequence numbers, queries or deadlines.     *)
(***************************************************************************)
EXTENDS Naturals, Sequences

VARIABLES
  state,     \* "opening", "relaying", "over"
  opened,    \* the server is connected to the target
  taken,     \* chunks taken from the client
  got,       \* those the target's side has
  handed,    \* chunks handed out by the server
  came,      \* those that came back to the client's end, in this order
  refused,   \* a resolver answered an upload query in the server's stead
  missed     \* a poll was not answered

connVars == <<state, opened>>
upVars   == <<taken, got, refused>>
downVars == <<handed, came, missed>>
dvars    == <<connVars, upVars, downVars>>

DInit ==
  /\ state = "opening" /\ opened = FALSE
  /\ taken = 0 /\ got = {} /\ refused = FALSE
  /\ handed = 0 /\ came = <<>> /\ missed = FALSE

\* The server connects to the target, at any time behind the SYN.
Open ==
  /\ ~opened /\ opened' = TRUE
  /\ UNCHANGED <<state, upVars, downVars>>

\* The client is told of success when the server is connected.
Relay ==
  /\ state = "opening" /\ state' = "relaying"
  /\ (opened /\ UNCHANGED refused) \/ refused' = TRUE
  /\ UNCHANGED <<opened, taken, got, downVars>>

End ==
  /\ state # "over" /\ state' = "over"
  /\ UNCHANGED <<opened, upVars, downVars>>

\* The place of the upload is free, or the promise was broken.
Take ==
  /\ state = "relaying"
  /\ got = 1..taken \/ refused
  /\ taken' = taken + 1
  /\ UNCHANGED <<connVars, got, refused, downVars>>

\* A chunk comes to the target's side once; the last one may be late.
Deliver(n) ==
  /\ opened /\ n \in (1..taken) \ got
  /\ got' = got \cup {n}
  /\ UNCHANGED <<connVars, taken, refused, downVars>>

Refuse ==
  /\ state = "relaying" /\ refused' = TRUE
  /\ UNCHANGED <<connVars, taken, got, downVars>>

\* The place of the download is free, or the promise was broken.
HandOut ==
  /\ opened
  /\ Len(came) = handed \/ missed
  /\ handed' = handed + 1
  /\ UNCHANGED <<connVars, upVars, came, missed>>

\* What was handed out comes to the client's end, newer than all before it, and
\* the next one as long as the promise holds.
Come(n) ==
  /\ state = "relaying"
  /\ n <= handed /\ \A i \in DOMAIN came : came[i] < n
  /\ n = Len(came) + 1 \/ missed
  /\ came' = Append(came, n)
  /\ UNCHANGED <<connVars, upVars, handed, missed>>

Miss ==
  /\ state = "relaying" /\ missed' = TRUE
  /\ UNCHANGED <<connVars, upVars, handed, came>>

DNext ==
  \/ Open \/ Relay \/ End
  \/ Take \/ (\E n \in 1..taken : Deliver(n)) \/ Refuse
  \/ HandOut \/ (\E n \in 1..handed : Come(n)) \/ Miss

DSpec == DInit /\ [][DNext]_dvars

================================================================================
