-------------------------- MODULE TunnelEngine_proofs --------------------------
(* Theorems about TunnelEngine, for any threads, transports and configurations. *)
EXTENDS TunnelEngine, TLAPS

\* Start's switch always names one of the seven transports.
LEMMA SelectKind == \A cfg \in ConfigSet : Select(cfg) \in Kinds
BY DEF ConfigSet, Select, SelectSsh, Kinds, SshKinds

\* Every constructor ends by listening, and only those with an ssh.Client dial.
LEMMA NeedsShape ==
  \A k \in Kinds, cfg \in ConfigSet :
    /\ Needs(k, cfg) \subseteq Stages
    /\ "listen" \in Needs(k, cfg)
    /\ k \notin SshKinds => "tcpDial" \notin Needs(k, cfg)
BY DEF Needs, Stages, Rank, Kinds, SshKinds, OnlyIf, newSSHProxy, newSSHTLSProxy,
     newSSHWebSocketProxy, newSSHHTTPConnectProxy, newSSHPayloadInjectionProxy,
     newDNSTunnel, newSOCKSRelay

--------------------------------------------------------------------------------
(* Type correctness.                                                       *)

LEMMA TypeInit == Init => TypeOK
BY DEF Init, TypeOK, CallResults

\* A local connection that changes its phase stays well typed.
LEMMA PhaseTyped ==
  ASSUME TypeOK, NEW c \in Conns,
         NEW p \in {"none", "backlog", "handshake", "dial", "relay", "stalled", "closed"}, Phase(c, p)
  PROVE  conn' \in [Conns -> [phase : {"none", "backlog", "handshake", "dial", "relay", "stalled", "closed"},
                             of : Ids \cup {None}]]
<1>1. [conn[c] EXCEPT !.phase = p]
        \in [phase : {"none", "backlog", "handshake", "dial", "relay", "stalled", "closed"},
            of : Ids \cup {None}]
  BY DEF TypeOK
<1> QED
  BY <1>1 DEF TypeOK, Phase

\* Every step keeps the types.
LEMMA TypeStep == IInv /\ [Next]_vars => TypeOK'
<1> SUFFICES ASSUME IInv, [Next]_vars PROVE TypeOK'
  OBVIOUS
<1> USE DEF IInv, TypeOK, CallResults, callVars, transportVars, historyVars, Goto, Answer, Phase
<1>1. ASSUME NEW t \in Threads, NEW cfg \in Configs \cup {BadJson}, NEW i \in Ids, CallStart(t, cfg, i) PROVE TypeOK'
  BY <1>1 DEF CallStart
<1>2. ASSUME NEW t \in Threads, NEW o \in {"stop", "query"}, Call(t, o) PROVE TypeOK'
  BY <1>2 DEF Call
<1>3. ASSUME NEW t \in Threads, Lock(t) PROVE TypeOK'
  BY <1>3 DEF Lock
<1>4. ASSUME NEW t \in Threads, ReadActive(t) PROVE TypeOK'
  BY <1>4 DEF ReadActive
<1>5. ASSUME NEW t \in Threads, NothingToStop(t) PROVE TypeOK'
  BY <1>5 DEF NothingToStop, AfterStop
<1>6. ASSUME NEW t \in Threads, StopSwap(t) PROVE TypeOK'
  BY <1>6 DEF StopSwap
<1>7. ASSUME NEW t \in Threads, StopListener(t) PROVE TypeOK'
  <2> DEFINE ConnType == [phase : {"none", "backlog", "handshake", "dial", "relay", "stalled", "closed"},
                          of : Ids \cup {None}]
             reset(c) == IF conn[c].phase = "backlog" /\ conn[c].of = active
                         THEN [conn[c] EXCEPT !.phase = "closed"] ELSE conn[c]
  <2>1. conn' = [c \in Conns |-> reset(c)]
    BY <1>7 DEF StopListener
  <2>2. ASSUME NEW c \in Conns PROVE reset(c) \in ConnType
    <3>1. conn[c] \in ConnType
      OBVIOUS
    <3>2. [conn[c] EXCEPT !.phase = "closed"] \in ConnType
      BY <3>1
    <3> QED
      BY <3>1, <3>2
  <2>3. conn' \in [Conns -> ConnType]
    BY <2>1, <2>2
  <2> QED
    BY <1>7, <2>3 DEF StopListener
<1>8. ASSUME NEW t \in Threads, StopClient(t) PROVE TypeOK'
  BY <1>8 DEF StopClient
<1>9. ASSUME NEW t \in Threads, ClearActive(t) PROVE TypeOK'
  BY <1>9 DEF ClearActive, AfterStop
<1>10. ASSUME NEW t \in Threads, RejectJson(t) PROVE TypeOK'
  BY <1>10 DEF RejectJson
<1>11. ASSUME NEW t \in Threads, Dispatch(t) PROVE TypeOK'
  <2>1. arg[t] \in ConfigSet
    BY <1>11, ConfigsAssumption DEF Dispatch, CallInv
  <2>2. Select(arg[t]) \in Kinds /\ Needs(Select(arg[t]), arg[t]) \subseteq Stages
    BY <2>1, SelectKind, NeedsShape
  <2> QED
    BY <1>11, <2>2 DEF Dispatch
<1>12. ASSUME NEW t \in Threads, NEW stage \in Stages, StageSucceeds(t, stage) PROVE TypeOK'
  BY <1>12 DEF StageSucceeds
<1>13. ASSUME NEW t \in Threads, NEW stage \in Stages, StageFails(t, stage) PROVE TypeOK'
  BY <1>13 DEF StageFails
<1>14. ASSUME NEW t \in Threads, Publish(t) PROVE TypeOK'
  BY <1>14 DEF Publish, Fresh, CallInv
<1>15. ASSUME NEW t \in Threads, Unlock(t) PROVE TypeOK'
  BY <1>15 DEF Unlock
<1>16. ASSUME NEW i \in Ids, AcceptError(i) PROVE TypeOK'
  BY <1>16 DEF AcceptError
<1>17. ASSUME NEW i \in Ids, UpstreamDies(i) PROVE TypeOK'
  BY <1>17 DEF UpstreamDies
<1>18. ASSUME NEW c \in Conns, NEW i \in Ids, Connect(c, i) PROVE TypeOK'
  BY <1>18 DEF Connect
<1>19. ASSUME NEW c \in Conns, Accept(c) PROVE TypeOK'
  BY <1>19 DEF Accept
<1>20. ASSUME NEW c \in Conns, Handshake(c) PROVE TypeOK'
  <2>1. conn' \in [Conns -> [phase : {"none", "backlog", "handshake", "dial", "relay", "stalled", "closed"},
                             of : Ids \cup {None}]]
    <3> HIDE DEF TypeOK, Phase
    <3> QED
      BY <1>20, PhaseTyped DEF Handshake
  <2> QED
    BY <1>20, <2>1 DEF Handshake
<1>21. ASSUME NEW c \in Conns, DialSucceeds(c) PROVE TypeOK'
  BY <1>21 DEF DialSucceeds
<1>22. ASSUME NEW c \in Conns, DialFails(c) PROVE TypeOK'
  BY <1>22 DEF DialFails
<1>23. ASSUME NEW c \in Conns, ClientStalls(c) \/ ClientReads(c) \/ PeerEnds(c)
       PROVE  TypeOK'
  <2>1. PICK p \in {"relay", "stalled", "closed"} : Phase(c, p)
    BY <1>23 DEF ClientStalls, ClientReads, PeerEnds
  <2>2. UNCHANGED <<callVars, transportVars, historyVars>>
    BY <1>23 DEF ClientStalls, ClientReads, PeerEnds
  <2>3. conn' \in [Conns -> [phase : {"none", "backlog", "handshake", "dial", "relay", "stalled", "closed"},
                             of : Ids \cup {None}]]
    <3> HIDE DEF TypeOK, Phase
    <3> QED
      BY <2>1, PhaseTyped DEF IInv
  <2> QED
    BY <2>2, <2>3
<1>24. ASSUME NEW c \in Conns, RelayCut(c) PROVE TypeOK'
  BY <1>24 DEF RelayCut
<1>25. CASE UNCHANGED vars
  BY <1>25 DEF vars
<1> HIDE DEF IInv, TypeOK, CallResults, callVars, transportVars, historyVars, Goto, Answer, Phase
<1> QED
  BY <1>1, <1>2, <1>3, <1>4, <1>5, <1>6, <1>7, <1>8, <1>9, <1>10, <1>11, <1>12, <1>13, <1>14, <1>15, <1>16, <1>17, <1>18, <1>19, <1>20, <1>21, <1>22, <1>23, <1>24, <1>25 DEF Next, ThreadNext, TransportNext

--------------------------------------------------------------------------------
(* The inductive invariant, one conjunct per lemma.                        *)
\* The mutex excludes.
LEMMA LockStep == IInv /\ [Next]_vars => LockInv'
<1> SUFFICES ASSUME IInv, [Next]_vars PROVE LockInv'
  OBVIOUS
<1> USE DEF IInv, TypeOK, LockInv, callVars, transportVars, historyVars, Goto, Answer, Phase
<1>1. ASSUME NEW t \in Threads, NEW cfg \in Configs \cup {BadJson}, NEW i \in Ids, CallStart(t, cfg, i) PROVE LockInv'
  BY <1>1 DEF CallStart
<1>2. ASSUME NEW t \in Threads, NEW o \in {"stop", "query"}, Call(t, o) PROVE LockInv'
  BY <1>2 DEF Call
<1>3. ASSUME NEW t \in Threads, Lock(t) PROVE LockInv'
  BY <1>3, NoneAssumption DEF Lock
<1>4. ASSUME NEW t \in Threads, ReadActive(t) PROVE LockInv'
  BY <1>4 DEF ReadActive
<1>5. ASSUME NEW t \in Threads, NothingToStop(t) PROVE LockInv'
  BY <1>5 DEF NothingToStop, AfterStop
<1>6. ASSUME NEW t \in Threads, StopSwap(t) PROVE LockInv'
  BY <1>6 DEF StopSwap
<1>7. ASSUME NEW t \in Threads, StopListener(t) PROVE LockInv'
  BY <1>7 DEF StopListener
<1>8. ASSUME NEW t \in Threads, StopClient(t) PROVE LockInv'
  BY <1>8 DEF StopClient
<1>9. ASSUME NEW t \in Threads, ClearActive(t) PROVE LockInv'
  BY <1>9 DEF ClearActive, AfterStop
<1>10. ASSUME NEW t \in Threads, RejectJson(t) PROVE LockInv'
  BY <1>10 DEF RejectJson
<1>11. ASSUME NEW t \in Threads, Dispatch(t) PROVE LockInv'
  BY <1>11 DEF Dispatch
<1>12. ASSUME NEW t \in Threads, NEW stage \in Stages, StageSucceeds(t, stage) PROVE LockInv'
  BY <1>12 DEF StageSucceeds
<1>13. ASSUME NEW t \in Threads, NEW stage \in Stages, StageFails(t, stage) PROVE LockInv'
  BY <1>13 DEF StageFails, At
<1>14. ASSUME NEW t \in Threads, Publish(t) PROVE LockInv'
  BY <1>14 DEF Publish
<1>15. ASSUME NEW t \in Threads, Unlock(t) PROVE LockInv'
  BY <1>15, NoneAssumption DEF Unlock
<1>16. ASSUME NEW i \in Ids, AcceptError(i) PROVE LockInv'
  BY <1>16 DEF AcceptError
<1>17. ASSUME NEW i \in Ids, UpstreamDies(i) PROVE LockInv'
  BY <1>17 DEF UpstreamDies
<1>18. ASSUME NEW c \in Conns, NEW i \in Ids, Connect(c, i) PROVE LockInv'
  BY <1>18 DEF Connect
<1>19. ASSUME NEW c \in Conns, Accept(c) PROVE LockInv'
  BY <1>19 DEF Accept
<1>20. ASSUME NEW c \in Conns, Handshake(c) PROVE LockInv'
  BY <1>20 DEF Handshake
<1>21. ASSUME NEW c \in Conns, DialSucceeds(c) PROVE LockInv'
  BY <1>21 DEF DialSucceeds
<1>22. ASSUME NEW c \in Conns, DialFails(c) PROVE LockInv'
  BY <1>22 DEF DialFails
<1>23. ASSUME NEW c \in Conns, ClientStalls(c) \/ ClientReads(c) \/ PeerEnds(c)
       PROVE  LockInv'
  BY <1>23 DEF ClientStalls, ClientReads, PeerEnds
<1>24. ASSUME NEW c \in Conns, RelayCut(c) PROVE LockInv'
  BY <1>24 DEF RelayCut
<1>25. CASE UNCHANGED vars
  BY <1>25 DEF vars
<1> HIDE DEF IInv, TypeOK, LockInv, callVars, transportVars, historyVars, Goto, Answer, Phase
<1> QED
  BY <1>1, <1>2, <1>3, <1>4, <1>5, <1>6, <1>7, <1>8, <1>9, <1>10, <1>11, <1>12, <1>13, <1>14, <1>15, <1>16, <1>17, <1>18, <1>19, <1>20, <1>21, <1>22, <1>23, <1>24, <1>25 DEF Next, ThreadNext, TransportNext

\* Upstream connections belong to the transports with an ssh.Client.
LEMMA CarrierStep == IInv /\ [Next]_vars => CarrierInv'
<1> SUFFICES ASSUME IInv, [Next]_vars PROVE CarrierInv'
  OBVIOUS
<1> USE DEF IInv, TypeOK, CarrierInv, callVars, transportVars, historyVars, Goto, Answer, Phase
<1>1. ASSUME NEW t \in Threads, NEW cfg \in Configs \cup {BadJson}, NEW i \in Ids, CallStart(t, cfg, i) PROVE CarrierInv'
  BY <1>1 DEF CallStart
<1>2. ASSUME NEW t \in Threads, NEW o \in {"stop", "query"}, Call(t, o) PROVE CarrierInv'
  BY <1>2 DEF Call
<1>3. ASSUME NEW t \in Threads, Lock(t) PROVE CarrierInv'
  BY <1>3 DEF Lock
<1>4. ASSUME NEW t \in Threads, ReadActive(t) PROVE CarrierInv'
  BY <1>4 DEF ReadActive
<1>5. ASSUME NEW t \in Threads, NothingToStop(t) PROVE CarrierInv'
  BY <1>5 DEF NothingToStop
<1>6. ASSUME NEW t \in Threads, StopSwap(t) PROVE CarrierInv'
  BY <1>6 DEF StopSwap
<1>7. ASSUME NEW t \in Threads, StopListener(t) PROVE CarrierInv'
  BY <1>7 DEF StopListener
<1>8. ASSUME NEW t \in Threads, StopClient(t) PROVE CarrierInv'
  BY <1>8 DEF StopClient, AtPoint
<1>9. ASSUME NEW t \in Threads, ClearActive(t) PROVE CarrierInv'
  BY <1>9 DEF ClearActive
<1>10. ASSUME NEW t \in Threads, RejectJson(t) PROVE CarrierInv'
  BY <1>10 DEF RejectJson
<1>11. ASSUME NEW t \in Threads, Dispatch(t) PROVE CarrierInv'
  BY <1>11 DEF Dispatch, Fresh, CallInv, Virgin
<1>12. ASSUME NEW t \in Threads, NEW stage \in Stages, StageSucceeds(t, stage) PROVE CarrierInv'
  BY <1>12 DEF StageSucceeds, AtPoint, At
<1>13. ASSUME NEW t \in Threads, NEW stage \in Stages, StageFails(t, stage) PROVE CarrierInv'
  BY <1>13 DEF StageFails, AtPoint, At
<1>14. ASSUME NEW t \in Threads, Publish(t) PROVE CarrierInv'
  BY <1>14 DEF Publish
<1>15. ASSUME NEW t \in Threads, Unlock(t) PROVE CarrierInv'
  BY <1>15 DEF Unlock
<1>16. ASSUME NEW i \in Ids, AcceptError(i) PROVE CarrierInv'
  BY <1>16 DEF AcceptError
<1>17. ASSUME NEW i \in Ids, UpstreamDies(i) PROVE CarrierInv'
  BY <1>17 DEF UpstreamDies
<1>18. ASSUME NEW c \in Conns, NEW i \in Ids, Connect(c, i) PROVE CarrierInv'
  BY <1>18 DEF Connect
<1>19. ASSUME NEW c \in Conns, Accept(c) PROVE CarrierInv'
  BY <1>19 DEF Accept
<1>20. ASSUME NEW c \in Conns, Handshake(c) PROVE CarrierInv'
  BY <1>20 DEF Handshake
<1>21. ASSUME NEW c \in Conns, DialSucceeds(c) PROVE CarrierInv'
  BY <1>21 DEF DialSucceeds
<1>22. ASSUME NEW c \in Conns, DialFails(c) PROVE CarrierInv'
  BY <1>22 DEF DialFails
<1>23. ASSUME NEW c \in Conns, ClientStalls(c) \/ ClientReads(c) \/ PeerEnds(c)
       PROVE  CarrierInv'
  BY <1>23 DEF ClientStalls, ClientReads, PeerEnds
<1>24. ASSUME NEW c \in Conns, RelayCut(c) PROVE CarrierInv'
  BY <1>24 DEF RelayCut
<1>25. CASE UNCHANGED vars
  BY <1>25 DEF vars
<1> HIDE DEF IInv, TypeOK, CarrierInv, callVars, transportVars, historyVars, Goto, Answer, Phase
<1> QED
  BY <1>1, <1>2, <1>3, <1>4, <1>5, <1>6, <1>7, <1>8, <1>9, <1>10, <1>11, <1>12, <1>13, <1>14, <1>15, <1>16, <1>17, <1>18, <1>19, <1>20, <1>21, <1>22, <1>23, <1>24, <1>25 DEF Next, ThreadNext, TransportNext

\* A transport is untouched until its constructor begins.
LEMMA FreshStep == IInv /\ [Next]_vars => Fresh'
<1> SUFFICES ASSUME IInv, [Next]_vars PROVE Fresh'
  OBVIOUS
<1> USE DEF IInv, TypeOK, Fresh, Virgin, Holds, callVars, transportVars, historyVars, Goto, Answer, Phase
<1>1. ASSUME NEW t \in Threads, NEW cfg \in Configs \cup {BadJson}, NEW i \in Ids, CallStart(t, cfg, i) PROVE Fresh'
  BY <1>1, NoneAssumption DEF CallStart, CallInv
<1>2. ASSUME NEW t \in Threads, NEW o \in {"stop", "query"}, Call(t, o) PROVE Fresh'
  BY <1>2, NoneAssumption DEF Call, CallInv
<1>3. ASSUME NEW t \in Threads, Lock(t) PROVE Fresh'
  BY <1>3 DEF Lock
<1>4. ASSUME NEW t \in Threads, ReadActive(t) PROVE Fresh'
  BY <1>4 DEF ReadActive
<1>5. ASSUME NEW t \in Threads, NothingToStop(t) PROVE Fresh'
  BY <1>5 DEF NothingToStop, AfterStop
<1>6. ASSUME NEW t \in Threads, StopSwap(t) PROVE Fresh'
  BY <1>6 DEF StopSwap, CallInv
<1>7. ASSUME NEW t \in Threads, StopListener(t) PROVE Fresh'
  BY <1>7 DEF StopListener
<1>8. ASSUME NEW t \in Threads, StopClient(t) PROVE Fresh'
  BY <1>8 DEF StopClient
<1>9. ASSUME NEW t \in Threads, ClearActive(t) PROVE Fresh'
  BY <1>9, NoneAssumption DEF ClearActive, AfterStop, CallInv
<1>10. ASSUME NEW t \in Threads, RejectJson(t) PROVE Fresh'
  BY <1>10 DEF RejectJson
<1>11. ASSUME NEW t \in Threads, Dispatch(t) PROVE Fresh'
  BY <1>11 DEF Dispatch
<1>12. ASSUME NEW t \in Threads, NEW stage \in Stages, StageSucceeds(t, stage) PROVE Fresh'
  BY <1>12 DEF StageSucceeds, At, CallInv, LockInv
<1>13. ASSUME NEW t \in Threads, NEW stage \in Stages, StageFails(t, stage) PROVE Fresh'
  BY <1>13 DEF StageFails, At, CallInv
<1>14. ASSUME NEW t \in Threads, Publish(t) PROVE Fresh'
  BY <1>14 DEF Publish, CallInv, LockInv
<1>15. ASSUME NEW t \in Threads, Unlock(t) PROVE Fresh'
  BY <1>15, NoneAssumption DEF Unlock, CallInv, LockInv
<1>16. ASSUME NEW i \in Ids, AcceptError(i) PROVE Fresh'
  BY <1>16 DEF AcceptError
<1>17. ASSUME NEW i \in Ids, UpstreamDies(i) PROVE Fresh'
  BY <1>17 DEF UpstreamDies
<1>18. ASSUME NEW c \in Conns, NEW i \in Ids, Connect(c, i) PROVE Fresh'
  BY <1>18 DEF Connect
<1>19. ASSUME NEW c \in Conns, Accept(c) PROVE Fresh'
  BY <1>19 DEF Accept
<1>20. ASSUME NEW c \in Conns, Handshake(c) PROVE Fresh'
  BY <1>20 DEF Handshake
<1>21. ASSUME NEW c \in Conns, DialSucceeds(c) PROVE Fresh'
  BY <1>21 DEF DialSucceeds
<1>22. ASSUME NEW c \in Conns, DialFails(c) PROVE Fresh'
  BY <1>22 DEF DialFails
<1>23. ASSUME NEW c \in Conns, ClientStalls(c) \/ ClientReads(c) \/ PeerEnds(c)
       PROVE  Fresh'
  BY <1>23 DEF ClientStalls, ClientReads, PeerEnds
<1>24. ASSUME NEW c \in Conns, RelayCut(c) PROVE Fresh'
  BY <1>24 DEF RelayCut
<1>25. CASE UNCHANGED vars
  BY <1>25 DEF vars
<1> HIDE DEF IInv, TypeOK, Fresh, Virgin, Holds, callVars, transportVars, historyVars, Goto, Answer, Phase
<1> QED
  BY <1>1, <1>2, <1>3, <1>4, <1>5, <1>6, <1>7, <1>8, <1>9, <1>10, <1>11, <1>12, <1>13, <1>14, <1>15, <1>16, <1>17, <1>18, <1>19, <1>20, <1>21, <1>22, <1>23, <1>24, <1>25 DEF Next, ThreadNext, TransportNext

\* Outside the engine, active alone holds sockets.
LEMMA IdleStep == IInv /\ [Next]_vars => (mu = None => Quiet /\ active = served)'
<1> SUFFICES ASSUME IInv, [Next]_vars PROVE (mu = None => Quiet /\ active = served)'
  OBVIOUS
<1> USE DEF IInv, TypeOK, Quiet, Holds, callVars, transportVars, historyVars, Goto, Answer, Phase
<1>1. ASSUME NEW t \in Threads, NEW cfg \in Configs \cup {BadJson}, NEW i \in Ids, CallStart(t, cfg, i) PROVE (mu = None => Quiet /\ active = served)'
  BY <1>1 DEF CallStart
<1>2. ASSUME NEW t \in Threads, NEW o \in {"stop", "query"}, Call(t, o) PROVE (mu = None => Quiet /\ active = served)'
  BY <1>2, NoneAssumption DEF Call
<1>3. ASSUME NEW t \in Threads, Lock(t) PROVE (mu = None => Quiet /\ active = served)'
  BY <1>3, NoneAssumption DEF Lock
<1>4. ASSUME NEW t \in Threads, ReadActive(t) PROVE (mu = None => Quiet /\ active = served)'
  BY <1>4, NoneAssumption DEF ReadActive, LockInv
<1>5. ASSUME NEW t \in Threads, NothingToStop(t) PROVE (mu = None => Quiet /\ active = served)'
  BY <1>5, NoneAssumption DEF NothingToStop, LockInv
<1>6. ASSUME NEW t \in Threads, StopSwap(t) PROVE (mu = None => Quiet /\ active = served)'
  BY <1>6, NoneAssumption DEF StopSwap, LockInv
<1>7. ASSUME NEW t \in Threads, StopListener(t) PROVE (mu = None => Quiet /\ active = served)'
  BY <1>7, NoneAssumption DEF StopListener, LockInv
<1>8. ASSUME NEW t \in Threads, StopClient(t) PROVE (mu = None => Quiet /\ active = served)'
  BY <1>8, NoneAssumption DEF StopClient, LockInv
<1>9. ASSUME NEW t \in Threads, ClearActive(t) PROVE (mu = None => Quiet /\ active = served)'
  BY <1>9, NoneAssumption DEF ClearActive, LockInv
<1>10. ASSUME NEW t \in Threads, RejectJson(t) PROVE (mu = None => Quiet /\ active = served)'
  BY <1>10, NoneAssumption DEF RejectJson, LockInv
<1>11. ASSUME NEW t \in Threads, Dispatch(t) PROVE (mu = None => Quiet /\ active = served)'
  BY <1>11, NoneAssumption DEF Dispatch, LockInv
<1>12. ASSUME NEW t \in Threads, NEW stage \in Stages, StageSucceeds(t, stage) PROVE (mu = None => Quiet /\ active = served)'
  BY <1>12, NoneAssumption DEF StageSucceeds, LockInv, At
<1>13. ASSUME NEW t \in Threads, NEW stage \in Stages, StageFails(t, stage) PROVE (mu = None => Quiet /\ active = served)'
  BY <1>13, NoneAssumption DEF StageFails, LockInv, At
<1>14. ASSUME NEW t \in Threads, Publish(t) PROVE (mu = None => Quiet /\ active = served)'
  BY <1>14, NoneAssumption DEF Publish, LockInv
<1>15. ASSUME NEW t \in Threads, Unlock(t) PROVE (mu = None => Quiet /\ active = served)'
  BY <1>15, NoneAssumption DEF Unlock, AtPoint, LockInv
<1>16. ASSUME NEW i \in Ids, AcceptError(i) PROVE (mu = None => Quiet /\ active = served)'
  BY <1>16 DEF AcceptError
<1>17. ASSUME NEW i \in Ids, UpstreamDies(i) PROVE (mu = None => Quiet /\ active = served)'
  BY <1>17 DEF UpstreamDies, CarrierInv
<1>18. ASSUME NEW c \in Conns, NEW i \in Ids, Connect(c, i) PROVE (mu = None => Quiet /\ active = served)'
  BY <1>18 DEF Connect
<1>19. ASSUME NEW c \in Conns, Accept(c) PROVE (mu = None => Quiet /\ active = served)'
  BY <1>19 DEF Accept
<1>20. ASSUME NEW c \in Conns, Handshake(c) PROVE (mu = None => Quiet /\ active = served)'
  BY <1>20 DEF Handshake
<1>21. ASSUME NEW c \in Conns, DialSucceeds(c) PROVE (mu = None => Quiet /\ active = served)'
  BY <1>21 DEF DialSucceeds
<1>22. ASSUME NEW c \in Conns, DialFails(c) PROVE (mu = None => Quiet /\ active = served)'
  BY <1>22 DEF DialFails
<1>23. ASSUME NEW c \in Conns, ClientStalls(c) \/ ClientReads(c) \/ PeerEnds(c)
       PROVE  (mu = None => Quiet /\ active = served)'
  BY <1>23 DEF ClientStalls, ClientReads, PeerEnds
<1>24. ASSUME NEW c \in Conns, RelayCut(c) PROVE (mu = None => Quiet /\ active = served)'
  BY <1>24 DEF RelayCut
<1>25. CASE UNCHANGED vars
  BY <1>25 DEF vars
<1> HIDE DEF IInv, TypeOK, Quiet, Holds, callVars, transportVars, historyVars, Goto, Answer, Phase
<1> QED
  BY <1>1, <1>2, <1>3, <1>4, <1>5, <1>6, <1>7, <1>8, <1>9, <1>10, <1>11, <1>12, <1>13, <1>14, <1>15, <1>16, <1>17, <1>18, <1>19, <1>20, <1>21, <1>22, <1>23, <1>24, <1>25 DEF Next, ThreadNext, TransportNext

\* What a call is about to answer.
LEMMA CallInvStep == IInv /\ [Next]_vars => (\A u \in Threads : CallInv(u))'
<1> SUFFICES ASSUME IInv, [Next]_vars PROVE (\A u \in Threads : CallInv(u))'
  OBVIOUS
<1> USE DEF IInv, TypeOK, CallInv, callVars, transportVars, historyVars, Goto, Answer, Phase
<1>1. ASSUME NEW t \in Threads, NEW cfg \in Configs \cup {BadJson}, NEW i \in Ids, CallStart(t, cfg, i) PROVE (\A u \in Threads : CallInv(u))'
  BY <1>1, NoneAssumption DEF CallStart
<1>2. ASSUME NEW t \in Threads, NEW o \in {"stop", "query"}, Call(t, o) PROVE (\A u \in Threads : CallInv(u))'
  BY <1>2 DEF Call
<1>3. ASSUME NEW t \in Threads, Lock(t) PROVE (\A u \in Threads : CallInv(u))'
  BY <1>3 DEF Lock, LockInv
<1>4. ASSUME NEW t \in Threads, ReadActive(t) PROVE (\A u \in Threads : CallInv(u))'
  BY <1>4, NoneAssumption DEF ReadActive, LockInv
<1>5. ASSUME NEW t \in Threads, NothingToStop(t) PROVE (\A u \in Threads : CallInv(u))'
  BY <1>5, NoneAssumption DEF NothingToStop, LockInv,AfterStop
<1>6. ASSUME NEW t \in Threads, StopSwap(t) PROVE (\A u \in Threads : CallInv(u))'
  BY <1>6, NoneAssumption DEF StopSwap, LockInv, AtPoint, Quiet, Holds
<1>7. ASSUME NEW t \in Threads, StopListener(t) PROVE (\A u \in Threads : CallInv(u))'
  BY <1>7, NoneAssumption DEF StopListener, LockInv
<1>8. ASSUME NEW t \in Threads, StopClient(t) PROVE (\A u \in Threads : CallInv(u))'
  BY <1>8, NoneAssumption DEF StopClient, LockInv
<1>9. ASSUME NEW t \in Threads, ClearActive(t) PROVE (\A u \in Threads : CallInv(u))'
  BY <1>9, NoneAssumption DEF ClearActive, LockInv,AfterStop
<1>10. ASSUME NEW t \in Threads, RejectJson(t) PROVE (\A u \in Threads : CallInv(u))'
  BY <1>10, NoneAssumption DEF RejectJson, LockInv,AtPoint
<1>11. ASSUME NEW t \in Threads, Dispatch(t) PROVE (\A u \in Threads : CallInv(u))'
  BY <1>11, NoneAssumption DEF Dispatch, LockInv
<1>12. ASSUME NEW t \in Threads, NEW stage \in Stages, StageSucceeds(t, stage) PROVE (\A u \in Threads : CallInv(u))'
  BY <1>12, NoneAssumption DEF StageSucceeds, LockInv, At
<1>13. ASSUME NEW t \in Threads, NEW stage \in Stages, StageFails(t, stage) PROVE (\A u \in Threads : CallInv(u))'
  BY <1>13, NoneAssumption DEF StageFails, LockInv, At, AtPoint
<1>14. ASSUME NEW t \in Threads, Publish(t) PROVE (\A u \in Threads : CallInv(u))'
  BY <1>14, NoneAssumption DEF Publish, LockInv,AtPoint
<1>15. ASSUME NEW t \in Threads, Unlock(t) PROVE (\A u \in Threads : CallInv(u))'
  BY <1>15, NoneAssumption DEF Unlock, LockInv
<1>16. ASSUME NEW i \in Ids, AcceptError(i) PROVE (\A u \in Threads : CallInv(u))'
  BY <1>16 DEF AcceptError
<1>17. ASSUME NEW i \in Ids, UpstreamDies(i) PROVE (\A u \in Threads : CallInv(u))'
  BY <1>17 DEF UpstreamDies
<1>18. ASSUME NEW c \in Conns, NEW i \in Ids, Connect(c, i) PROVE (\A u \in Threads : CallInv(u))'
  BY <1>18 DEF Connect
<1>19. ASSUME NEW c \in Conns, Accept(c) PROVE (\A u \in Threads : CallInv(u))'
  BY <1>19 DEF Accept
<1>20. ASSUME NEW c \in Conns, Handshake(c) PROVE (\A u \in Threads : CallInv(u))'
  BY <1>20 DEF Handshake
<1>21. ASSUME NEW c \in Conns, DialSucceeds(c) PROVE (\A u \in Threads : CallInv(u))'
  BY <1>21 DEF DialSucceeds
<1>22. ASSUME NEW c \in Conns, DialFails(c) PROVE (\A u \in Threads : CallInv(u))'
  BY <1>22 DEF DialFails
<1>23. ASSUME NEW c \in Conns, ClientStalls(c) \/ ClientReads(c) \/ PeerEnds(c)
       PROVE  (\A u \in Threads : CallInv(u))'
  BY <1>23 DEF ClientStalls, ClientReads, PeerEnds
<1>24. ASSUME NEW c \in Conns, RelayCut(c) PROVE (\A u \in Threads : CallInv(u))'
  BY <1>24 DEF RelayCut
<1>25. CASE UNCHANGED vars
  BY <1>25 DEF vars
<1> HIDE DEF IInv, TypeOK, CallInv, callVars, transportVars, historyVars, Goto, Answer, Phase
<1> QED
  BY <1>1, <1>2, <1>3, <1>4, <1>5, <1>6, <1>7, <1>8, <1>9, <1>10, <1>11, <1>12, <1>13, <1>14, <1>15, <1>16, <1>17, <1>18, <1>19, <1>20, <1>21, <1>22, <1>23, <1>24, <1>25 DEF Next, ThreadNext, TransportNext

\* While one thread is inside the engine, the others are outside or wait for mu.
LEMMA Others ==
  ASSUME IInv, NEW t \in Threads, NEW u \in Threads, u # t, pc[t] \notin {"idle", "lock"}
  PROVE  pc[u] \in {"idle", "lock"}
BY DEF IInv, LockInv

\* What holds where the thread inside the engine stands.
LEMMA PointStep == IInv /\ [Next]_vars => (\A u \in Threads : AtPoint(u))'
<1> SUFFICES ASSUME IInv, [Next]_vars PROVE (\A u \in Threads : AtPoint(u))'
  OBVIOUS
<1> USE DEF IInv, TypeOK, AtPoint, Quiet, Holds, OnlyHolder, callVars, transportVars, historyVars, Goto, Answer, Phase
<1>1. ASSUME NEW t \in Threads, NEW cfg \in Configs \cup {BadJson}, NEW i \in Ids, CallStart(t, cfg, i) PROVE (\A u \in Threads : AtPoint(u))'
  BY <1>1, NoneAssumption DEF CallStart
<1>2. ASSUME NEW t \in Threads, NEW o \in {"stop", "query"}, Call(t, o) PROVE (\A u \in Threads : AtPoint(u))'
  BY <1>2 DEF Call
<1>3. ASSUME NEW t \in Threads, Lock(t) PROVE (\A u \in Threads : AtPoint(u))'
  BY <1>3 DEF Lock, LockInv
<1>4. ASSUME NEW t \in Threads, ReadActive(t) PROVE (\A u \in Threads : AtPoint(u))'
  BY <1>4, NoneAssumption DEF ReadActive, LockInv
<1>5. ASSUME NEW t \in Threads, NothingToStop(t) PROVE (\A u \in Threads : AtPoint(u))'
<2>1. ASSUME NEW u \in Threads, u # t PROVE AtPoint(u)'
  <3>1. pc'[u] \in {"idle", "lock"}
    BY <1>5, <2>1, Others DEF NothingToStop
  <3> QED BY <3>1
<2>2. AtPoint(t)'
  <3>1. (\A i \in Ids : ~Holds(i)) /\ Quiet
    BY <1>5, NoneAssumption DEF NothingToStop
  <3>2. (\A i \in Ids : ~Holds(i)') /\ Quiet' /\ active' = None
    BY <1>5, <3>1 DEF NothingToStop
  <3>3. pc'[t] \in {"load", "unlock"}
    BY <1>5 DEF NothingToStop, AfterStop
  <3> HIDE DEF Quiet, Holds
  <3> QED BY <3>2, <3>3
<2> QED BY <2>1, <2>2
<1>6. ASSUME NEW t \in Threads, StopSwap(t) PROVE (\A u \in Threads : AtPoint(u))'
<2>1. ASSUME NEW u \in Threads, u # t PROVE AtPoint(u)'
  <3>1. pc'[u] \in {"idle", "lock"}
    BY <1>6, <2>1, Others DEF StopSwap
  <3> QED BY <3>1
<2>2. AtPoint(t)'
  <3>1. active \in Ids /\ ~stopped[active] /\ OnlyHolder(active)
    BY <1>6 DEF StopSwap
  <3>2. pc'[t] = "closeListener" /\ active' = active /\ OnlyHolder(active)'
    BY <1>6, <3>1 DEF StopSwap
  <3> QED BY <3>1, <3>2
<2> QED BY <2>1, <2>2
<1>7. ASSUME NEW t \in Threads, StopListener(t) PROVE (\A u \in Threads : AtPoint(u))'
<2>1. ASSUME NEW u \in Threads, u # t PROVE AtPoint(u)'
  <3>1. pc'[u] \in {"idle", "lock"}
    BY <1>7, <2>1, Others DEF StopListener
  <3> QED BY <3>1
<2>2. AtPoint(t)'
  <3>1. active \in Ids /\ OnlyHolder(active) /\ pc' = [pc EXCEPT ![t] = pc'[t]]
    BY <1>7 DEF StopListener
  <3>2. CASE kind[active] \in SshKinds
    BY <1>7, <3>1, <3>2 DEF StopListener
  <3>3. CASE kind[active] \notin SshKinds
    <4>1. pc'[t] = "clear" /\ upstream[active] = "none"
      BY <1>7, <3>1, <3>3 DEF StopListener, CarrierInv
    <4>2. \A i \in Ids : ~Holds(i)'
      BY <1>7, <3>1, <4>1 DEF StopListener
    <4> QED BY <4>1, <4>2
  <3> QED BY <3>2, <3>3
<2> QED BY <2>1, <2>2
<1>8. ASSUME NEW t \in Threads, StopClient(t) PROVE (\A u \in Threads : AtPoint(u))'
  BY <1>8, NoneAssumption DEF StopClient, LockInv
<1>9. ASSUME NEW t \in Threads, ClearActive(t) PROVE (\A u \in Threads : AtPoint(u))'
  BY <1>9, NoneAssumption DEF ClearActive, LockInv,AfterStop
<1>10. ASSUME NEW t \in Threads, RejectJson(t) PROVE (\A u \in Threads : AtPoint(u))'
  BY <1>10, NoneAssumption DEF RejectJson, LockInv
<1>11. ASSUME NEW t \in Threads, Dispatch(t) PROVE (\A u \in Threads : AtPoint(u))'
  BY <1>11, NoneAssumption, SelectKind, NeedsShape, ConfigsAssumption DEF Dispatch, LockInv, CallInv, Fresh, Virgin
<1>12. ASSUME NEW t \in Threads, NEW stage \in Stages, StageSucceeds(t, stage) PROVE (\A u \in Threads : AtPoint(u))'
<2>1. ASSUME NEW u \in Threads, u # t PROVE AtPoint(u)'
  <3>1. pc'[u] \in {"idle", "lock"}
    BY <1>12, <2>1, Others DEF StageSucceeds, At, Fresh, CallInv
  <3> QED BY <3>1
<2>2. AtPoint(t)'
  <3>1. mine[t] \in Ids /\ pc[t] = "build" /\ stage \in todo[t] /\ todo[t] \subseteq Stages
    BY <1>12 DEF StageSucceeds, At, Fresh, CallInv
  <3>2. CASE stage = "listen"
    <4>1. todo'[t] = {}
      BY <1>12, <3>1, <3>2 DEF StageSucceeds, At, Stages, Rank
    <4> QED BY <1>12, <3>1, <3>2, <4>1 DEF StageSucceeds
  <3>3. CASE stage # "listen"
    <4>1. todo'[t] = todo[t] \ {stage} /\ "listen" \in todo'[t] /\ listener' = listener
      BY <1>12, <3>1, <3>3 DEF StageSucceeds
    <4> QED BY <1>12, <3>1, <3>3, <4>1 DEF StageSucceeds
  <3> QED BY <3>2, <3>3
<2> QED BY <2>1, <2>2
<1>13. ASSUME NEW t \in Threads, NEW stage \in Stages, StageFails(t, stage) PROVE (\A u \in Threads : AtPoint(u))'
<2>1. ASSUME NEW u \in Threads, u # t PROVE AtPoint(u)'
  <3>1. pc'[u] \in {"idle", "lock"}
    BY <1>13, <2>1, Others DEF StageFails, At, Fresh, CallInv
  <3> QED BY <3>1
<2>2. AtPoint(t)'
  <3>1. mine[t] \in Ids /\ active = None /\ listener[mine[t]] = "none" /\ OnlyHolder(mine[t])
    BY <1>13 DEF StageFails, At, Fresh, CallInv
  <3>2. upstream'[mine[t]] \in {"none", "closed"}
    <4>1. upstream[mine[t]] \in {"none", "open", "closed"}
      BY <3>1 DEF CarrierInv
    <4> QED BY <1>13, <3>1, <4>1 DEF StageFails
  <3>3. \A i \in Ids : ~Holds(i)'
    BY <1>13, <3>1, <3>2 DEF StageFails
  <3> QED BY <1>13, <3>1, <3>3, NoneAssumption DEF StageFails, At
<2> QED BY <2>1, <2>2
<1>14. ASSUME NEW t \in Threads, Publish(t) PROVE (\A u \in Threads : AtPoint(u))'
  BY <1>14, NoneAssumption DEF Publish, LockInv, CallInv, Fresh
<1>15. ASSUME NEW t \in Threads, Unlock(t) PROVE (\A u \in Threads : AtPoint(u))'
  BY <1>15, NoneAssumption DEF Unlock, LockInv
<1>16. ASSUME NEW i \in Ids, AcceptError(i) PROVE (\A u \in Threads : AtPoint(u))'
  BY <1>16 DEF AcceptError
<1>17. ASSUME NEW i \in Ids, UpstreamDies(i) PROVE (\A u \in Threads : AtPoint(u))'
  BY <1>17 DEF UpstreamDies, LockInv
<1>18. ASSUME NEW c \in Conns, NEW i \in Ids, Connect(c, i) PROVE (\A u \in Threads : AtPoint(u))'
  BY <1>18 DEF Connect
<1>19. ASSUME NEW c \in Conns, Accept(c) PROVE (\A u \in Threads : AtPoint(u))'
  BY <1>19 DEF Accept
<1>20. ASSUME NEW c \in Conns, Handshake(c) PROVE (\A u \in Threads : AtPoint(u))'
  BY <1>20 DEF Handshake
<1>21. ASSUME NEW c \in Conns, DialSucceeds(c) PROVE (\A u \in Threads : AtPoint(u))'
  BY <1>21 DEF DialSucceeds
<1>22. ASSUME NEW c \in Conns, DialFails(c) PROVE (\A u \in Threads : AtPoint(u))'
  BY <1>22 DEF DialFails
<1>23. ASSUME NEW c \in Conns, ClientStalls(c) \/ ClientReads(c) \/ PeerEnds(c)
       PROVE  (\A u \in Threads : AtPoint(u))'
  BY <1>23 DEF ClientStalls, ClientReads, PeerEnds
<1>24. ASSUME NEW c \in Conns, RelayCut(c) PROVE (\A u \in Threads : AtPoint(u))'
  BY <1>24 DEF RelayCut
<1>25. CASE UNCHANGED vars
  BY <1>25 DEF vars
<1> HIDE DEF IInv, TypeOK, AtPoint, Quiet, Holds, OnlyHolder, callVars, transportVars, historyVars, Goto, Answer, Phase
<1> QED
  BY <1>1, <1>2, <1>3, <1>4, <1>5, <1>6, <1>7, <1>8, <1>9, <1>10, <1>11, <1>12, <1>13, <1>14, <1>15, <1>16, <1>17, <1>18, <1>19, <1>20, <1>21, <1>22, <1>23, <1>24, <1>25 DEF Next, ThreadNext, TransportNext

LEMMA InitIInv == Init => IInv
<1> SUFFICES ASSUME Init PROVE IInv
  OBVIOUS
<1>1. TypeOK
  BY TypeInit
<1>2. (mu = None => Quiet /\ active = served) /\ LockInv /\ CarrierInv
  BY NoneAssumption DEF Init, Quiet, Holds, LockInv, CarrierInv
<1>3. Fresh
  BY NoneAssumption DEF Init, Fresh, Virgin
<1>4. (\A t \in Threads : AtPoint(t)) /\ (\A t \in Threads : CallInv(t))
  BY DEF Init, AtPoint, CallInv
<1> QED BY <1>1, <1>2, <1>3, <1>4 DEF IInv

\* The invariant is inductive.
THEOREM Inductive == Spec => []IInv
<1>1. IInv /\ [Next]_vars => IInv'
  BY TypeStep, LockStep, CarrierStep, FreshStep, IdleStep, PointStep, CallInvStep DEF IInv
<1> QED BY InitIInv, <1>1, PTL DEF Spec

--------------------------------------------------------------------------------
(* The theorems.                                                           *)

\* Every variable keeps its type, whatever the callers and the network do.
THEOREM TypeCorrect == Spec => []TypeOK
<1>1. IInv => TypeOK
  BY DEF IInv
<1> QED BY Inductive, <1>1, PTL

\* Whenever the engine is left, only active holds a port or an SSH connection:
\* failed Starts and Stops leak nothing, for any interleaving of any callers.
THEOREM NothingLeftBehindHolds == Spec => []NothingLeftBehind
<1>1. IInv => NothingLeftBehind
  BY DEF IInv, NothingLeftBehind
<1> QED BY Inductive, <1>1, PTL

\* The old transport is completely closed before the new one dials.
THEOREM OneTransportHolds == Spec => []OneTransport
<1>1. IInv => OneTransport
  <2> SUFFICES ASSUME IInv, NEW i \in Ids, NEW j \in Ids, Holds(i), Holds(j)
               PROVE  i = j
    BY DEF OneTransport
  <2>1. ASSUME Quiet PROVE i = j
    BY <2>1 DEF Quiet
  <2>2. ASSUME NEW k, OnlyHolder(k) PROVE i = j
    BY <2>2 DEF OnlyHolder
  <2>3. CASE mu = None
    BY <2>1, <2>3 DEF IInv
  <2>4. CASE mu # None
    <3>1. mu \in Threads /\ pc[mu] \notin {"idle", "lock"} /\ AtPoint(mu)
      BY <2>4 DEF IInv, TypeOK, LockInv
    <3>2. pc[mu] \in {"entered", "closeListener", "closeClient", "clear", "load", "build", "unlock"}
      BY <3>1 DEF IInv, TypeOK
    <3> QED BY <2>1, <2>2, <3>1, <3>2 DEF AtPoint
  <2> QED BY <2>3, <2>4
<1> QED BY Inductive, <1>1, PTL

--------------------------------------------------------------------------------
(* The engine implements TunnelService.                                    *)

\* Releasing the mutex is the instant at which a call takes effect.
LEMMA UnlockIsAtomicCall ==
  ASSUME IInv, NEW t \in Threads, Unlock(t)
  PROVE  Service!SNext
<1> USE DEF Unlock, Goto, Service!Respond
<1>1. op[t] \in {"start", "stop", "query"}
  BY DEF IInv, TypeOK, CallInv
<1>2. CASE op[t] = "start" /\ result[t] = "-1"
  <2>1. active = None
    BY <1>2, IdsAssumption DEF IInv, CallInv, Fresh, TypeOK
  <2>2. Service!StartFails(t)
    BY <1>2, <2>1 DEF Service!StartFails
  <2> QED BY <2>2 DEF Service!SNext
<1>3. CASE op[t] = "start" /\ result[t] # "-1"
  <2>1. active = mine[t] /\ result[t] = active /\ mine[t] \in Ids /\ mine[t] # served
    BY <1>3 DEF IInv, CallInv, Fresh, TypeOK
  <2>2. Service!StartServes(t, mine[t])
    BY <1>3, <2>1 DEF Service!StartServes
  <2> QED BY <2>1, <2>2 DEF Service!SNext
<1>4. CASE op[t] = "stop"
  <2>1. Service!StopServes(t)
    BY <1>4 DEF Service!StopServes, IInv, CallInv
  <2> QED BY <2>1 DEF Service!SNext
<1>5. CASE op[t] = "query"
  <2>1. active = served /\ result[t] = IF served # None THEN "true" ELSE "false"
    BY <1>5 DEF IInv, CallInv
  <2>2. Service!QueryAnswers(t)
    BY <1>5, <2>1 DEF Service!QueryAnswers
  <2> QED BY <2>2 DEF Service!SNext
<1> QED BY <1>1, <1>2, <1>3, <1>4, <1>5

\* Every step of the engine is a step of the service or leaves it unchanged.
LEMMA StepImplements == IInv /\ [Next]_vars => [Service!SNext]_(Service!svars)
<1> SUFFICES ASSUME IInv, [Next]_vars PROVE [Service!SNext]_(Service!svars)
  OBVIOUS
<1>1. ASSUME NEW t \in Threads, NEW cfg \in Configs \cup {BadJson}, NEW i \in Ids, CallStart(t, cfg, i)
      PROVE  Service!SNext
  <2>1. Service!Invoke(t, "start")
    BY <1>1 DEF CallStart, historyVars, Service!Invoke, IInv, CallInv
  <2> QED BY <2>1 DEF Service!SNext
<1>2. ASSUME NEW t \in Threads, NEW o \in {"stop", "query"}, Call(t, o)
      PROVE  Service!SNext
  <2>1. Service!Invoke(t, o)
    BY <1>2 DEF Call, historyVars, Service!Invoke, IInv, CallInv
  <2> QED BY <2>1 DEF Service!SNext
<1>3. ASSUME NEW t \in Threads, Unlock(t) PROVE Service!SNext
  BY <1>3, UnlockIsAtomicCall
<1>4. ASSUME NEW t \in Threads,
             \/ Lock(t) \/ ReadActive(t) \/ NothingToStop(t)
             \/ StopSwap(t) \/ StopListener(t) \/ StopClient(t) \/ ClearActive(t)
             \/ RejectJson(t) \/ Dispatch(t) \/ Publish(t)
             \/ \E stage \in Stages : StageSucceeds(t, stage) \/ StageFails(t, stage)
      PROVE  UNCHANGED Service!svars
  BY <1>4 DEF Lock, ReadActive, NothingToStop, StopSwap, StopListener, StopClient, ClearActive,
       RejectJson, Dispatch, Publish, StageSucceeds, StageFails, historyVars, Service!svars
<1>5. CASE TransportNext
  BY <1>5 DEF TransportNext, AcceptError, UpstreamDies, Connect, Accept, Handshake, DialSucceeds,
       DialFails, ClientStalls, ClientReads, PeerEnds, RelayCut, callVars, historyVars, Service!svars
<1>6. CASE UNCHANGED vars
  BY <1>6 DEF vars, callVars, historyVars, Service!svars
<1> QED BY <1>1, <1>2, <1>3, <1>4, <1>5, <1>6 DEF Next, ThreadNext

\* Start, Stop and IsRunning are linearizable, and Start never answers the port
\* of the transport it replaces.
THEOREM EngineImplementsService == Spec => ImplementsService
<1>1. Init => Service!SInit
  BY DEF Init, Service!SInit
<1> QED BY <1>1, StepImplements, Inductive, PTL DEF Spec, ImplementsService, Service!SSpec

================================================================================
