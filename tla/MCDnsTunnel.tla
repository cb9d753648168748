------------------------------ MODULE MCDnsTunnel ------------------------------
(* The connection and the names of its queries do not touch each other:    *)
(* they are explored one at a time, the names for every domain length.     *)
EXTENDS DnsTunnel, QueryName

MCDomains == 1 .. 253
MCTargets == {2, 4, 21, 120, 121, 261}
ShortDomain == 1

\* A step of the connection, while no name is being built.
Tunnel(A) == domain = ShortDomain /\ step = "idle" /\ upload = "new" /\ A /\ UNCHANGED nameVars
\* A step of a name, while there is no connection.
Naming(A) == phase = "new" /\ ~stop /\ localOpen /\ written = 0 /\ A /\ UNCHANGED vars

MCNext ==
  \/ Tunnel(LocalWrites) \/ Tunnel(LocalCloses) \/ Tunnel(Stop) \/ Tunnel(TargetSends)
  \/ \E q \in queries : Tunnel(DataArrives(q))
  \/ \E q \in queries : Tunnel(PollArrives(q))
  \/ Tunnel(SendSyn) \/ Tunnel(HandshakeFails) \/ Tunnel(SynAnswered)
  \/ Tunnel(SynFails) \/ Tunnel(Finish)
  \/ Tunnel(UpCheck) \/ Tunnel(ReadLocal) \/ Tunnel(ReadFails)
  \/ Tunnel(SendAnswered) \/ Tunnel(SendFails)
  \/ Tunnel(Poll) \/ Tunnel(DownStops) \/ Tunnel(PollAnswered) \/ Tunnel(PollFails)
  \/ \E n \in Targets : Naming(SynChunk(n))
  \/ \E n \in 1 .. maxChunk : Naming(DataChunk(n))
  \/ Naming(poll) \/ Naming(VerifyPrismServer) \/ Naming(SplitLabel) \/ Naming(LastLabel)
  \/ Naming(buildQuery) \/ Naming(Return)

MCInit == Init /\ NameInit
MCSpec == MCInit /\ [][MCNext]_<<vars, nameVars>> /\ Fairness
===============================================================================
