--------------------------- MODULE PacketTunnel_proofs ---------------------------
(* Proofs about PacketTunnel. *)
EXTENDS PacketTunnel, TLAPS

\* The threads of a session are its own.
LEMMA ThreadFacts ==
  /\ \A s \in Sessions : Io(s) \in Threads /\ System(s) \in Threads
  /\ \A r, s \in Sessions :
       /\ Io(r) # System(s)
       /\ Io(r) = Io(s) => r = s
       /\ System(r) = System(s) => r = s
BY DEF Threads, Io, System

LEMMA InitIInv == Init => IInv
BY NoneAssumption, ThreadFacts
   DEF Init, IInv, TypeOK, OneCurrent, ServesLast, ActsOnIt, SessionInv, LateInv, Acting, Coming, Over, Engine!SInit

\* The steps of one session; the rest of Next is Exit.
SessionNext(s) ==
  \/ \E p \in Profiles \cup {None} : startTunnel(s, p)
  \/ SettingsApplied(s) \/ SettingsRefused(s) \/ RunBlock(s)
  \/ StartReturned(s) \/ ProbePasses(s) \/ ProbeFails(s)
  \/ stopTunnel(s) \/ StopReturned(s) \/ Release(s)
  \/ EngineStarts(s) \/ EngineFails(s) \/ EngineStops(s)

LEMMA ExitStep == IInv /\ Exit => IInv'
<1> SUFFICES ASSUME IInv, Exit PROVE IInv'
  OBVIOUS
<1>1. TypeOK'
  BY ThreadFacts DEF IInv, TypeOK, Exit
<1>2. \A s \in Sessions : pending'[Io(s)] = "none" /\ pending'[System(s)] = "none"
  BY ThreadFacts DEF Exit
<1>3. OneCurrent'
  BY DEF Exit, OneCurrent, IInv, TypeOK
<1>4. (last = None => serving = None)' /\ \A s \in Sessions : ServesLast(s)' /\ ActsOnIt(s)'
  BY DEF Exit, ServesLast, ActsOnIt, Acting
<1>5. \A s \in Sessions : SessionInv(s)' /\ LateInv(s)'
  BY <1>2 DEF Exit, SessionInv, LateInv, Coming, IInv, TypeOK
<1>6. QED
  BY <1>1, <1>3, <1>4, <1>5 DEF IInv, Exit

\* Every step of a session keeps the types.
LEMMA TypeStep ==
  ASSUME IInv, NEW s \in Sessions, SessionNext(s)
  PROVE  TypeOK'
<1> USE ThreadFacts DEF IInv, TypeOK
<1>1. ASSUME NEW p \in Profiles \cup {None}, startTunnel(s, p) PROVE TypeOK'
  BY <1>1 DEF startTunnel, Tell, Goto, engineVars, historyVars
<1>2. CASE SettingsApplied(s) \/ SettingsRefused(s)
  <2>1. CASE SettingsApplied(s)
    BY <2>1 DEF SettingsApplied, Callback, Goto, engineVars, historyVars
  <2>2. CASE SettingsRefused(s)
    BY <2>2 DEF SettingsRefused, Callback, Tell, Goto, engineVars, historyVars
  <2>3. QED
    BY <1>2, <2>1, <2>2
<1>3. CASE RunBlock(s)
  BY <1>3 DEF RunBlock, Goto, Engine!Invoke, engineVars, historyVars
<1>tun. ASSUME NEW p \in Ports \cup {None}, startTun2Socks(s, p) PROVE TypeOK'
  <2>1. CASE "Tun2Socks" \in linked
    BY <1>tun, <2>1 DEF startTun2Socks, Tell, Goto, engineVars, historyVars
  <2>2. CASE "Tun2Socks" \notin linked
    BY <1>tun, <2>2 DEF startTun2Socks, Tell, Goto, engineVars, historyVars
  <2>3. QED
    BY <2>1, <2>2
<1>4. CASE StartReturned(s)
  <2>1. answer[Io(s)] \in Ports \cup {"-1"}
    BY <1>4 DEF StartReturned, SessionInv
  <2>2. CASE answer[Io(s)] = "-1"
    <3>1. finish(s)
      BY <1>4, <2>2 DEF StartReturned
    <3>2. QED
      BY <3>1 DEF finish, Tell, Goto, engineVars, historyVars
  <2>3. CASE answer[Io(s)] # "-1"
    <3>1. startTun2Socks(s, answer[Io(s)])
      BY <1>4, <2>3 DEF StartReturned
    <3>2. QED
      BY <1>tun, <2>1, <2>3, <3>1
  <2>4. QED
    BY <2>2, <2>3
<1>5. CASE ProbePasses(s) \/ ProbeFails(s)
  <2>1. CASE ProbePasses(s)
    BY <1>tun, <2>1 DEF ProbePasses
  <2>2. CASE ProbeFails(s)
    BY <2>2 DEF ProbeFails, finish, Tell, Goto, engineVars, historyVars
  <2>3. QED
    BY <1>5, <2>1, <2>2
<1>6. CASE stopTunnel(s)
  BY <1>6 DEF stopTunnel, Engine!Invoke, engineVars, historyVars
<1>7. CASE StopReturned(s) \/ Release(s)
  <2>1. CASE StopReturned(s)
    BY <2>1 DEF StopReturned, engineVars, historyVars
  <2>2. CASE Release(s)
    BY <2>2 DEF Release, engineVars, historyVars
  <2>3. QED
    BY <1>7, <2>1, <2>2
<1>8. CASE EngineStarts(s)
  BY <1>8 DEF EngineStarts, Engine!StartServes, Engine!Respond, sessionVars
<1>9. CASE EngineFails(s)
  BY <1>9 DEF EngineFails, Engine!StartFails, Engine!Respond, sessionVars
<1>10. CASE EngineStops(s)
  BY <1>10 DEF EngineStops, Engine!StopServes, Engine!Respond, sessionVars
<1>11. QED
  BY <1>1, <1>2, <1>3, <1>4, <1>5, <1>6, <1>7, <1>8, <1>9, <1>10 DEF SessionNext

\* A step of a session leaves the others' variables alone.
Kept(r) ==
  /\ life'[r] = life[r] /\ start'[r] = start[r] /\ stop'[r] = stop[r]
  /\ told'[r] = told[r] /\ port'[r] = port[r]
  /\ pending'[Io(r)] = pending[Io(r)] /\ pending'[System(r)] = pending[System(r)]
  /\ answer'[Io(r)] = answer[Io(r)]
  /\ r \in overtaken' <=> r \in overtaken

LEMMA Others ==
  ASSUME IInv, NEW s \in Sessions, SessionNext(s)
  PROVE  linked' = linked /\ \A r \in Sessions \ {s} : Kept(r)
<1> USE ThreadFacts DEF IInv, TypeOK, Kept
<1>1. ASSUME NEW p \in Profiles \cup {None}, startTunnel(s, p)
      PROVE  linked' = linked /\ \A r \in Sessions \ {s} : Kept(r)
  BY <1>1 DEF startTunnel, Tell, Goto, engineVars, historyVars
<1>2. CASE SettingsApplied(s) \/ SettingsRefused(s)
  BY <1>2 DEF SettingsApplied, SettingsRefused, Callback, Tell, Goto, engineVars, historyVars
<1>3. CASE RunBlock(s)
  BY <1>3 DEF RunBlock, Goto, Engine!Invoke, engineVars, historyVars
<1>4. CASE StartReturned(s)
  BY <1>4 DEF StartReturned, startTun2Socks, finish, Tell, Goto, engineVars, historyVars
<1>5. CASE ProbePasses(s) \/ ProbeFails(s)
  BY <1>5 DEF ProbePasses, ProbeFails, startTun2Socks, finish, Tell, Goto, engineVars, historyVars
<1>6. CASE stopTunnel(s)
  BY <1>6 DEF stopTunnel, Engine!Invoke, engineVars, historyVars
<1>7. CASE StopReturned(s) \/ Release(s)
  BY <1>7 DEF StopReturned, Release, engineVars, historyVars
<1>8. CASE EngineStarts(s) \/ EngineFails(s)
  BY <1>8 DEF EngineStarts, EngineFails, Engine!StartServes, Engine!StartFails, Engine!Respond, sessionVars
<1>9. CASE EngineStops(s)
  BY <1>9 DEF EngineStops, Engine!StopServes, Engine!Respond, sessionVars
<1>10. QED
  BY <1>1, <1>2, <1>3, <1>4, <1>5, <1>6, <1>7, <1>8, <1>9 DEF SessionNext

\* A session stays where it may be, with the calls it may have in the engine.
LEMMA SessionStep ==
  ASSUME IInv, NEW s \in Sessions, SessionNext(s)
  PROVE  \A r \in Sessions : SessionInv(r)'
<1>1. ASSUME NEW r \in Sessions \ {s} PROVE SessionInv(r)'
  BY <1>1, Others DEF Kept, SessionInv, IInv
<1>2. SessionInv(s)'
  <2> USE ThreadFacts DEF IInv, TypeOK
  <2> SessionInv(s)
    BY DEF IInv
  <2> USE DEF SessionInv
  <2>1. ASSUME NEW p \in Profiles \cup {None}, startTunnel(s, p) PROVE SessionInv(s)'
    BY <2>1 DEF startTunnel, Tell, Goto, engineVars, historyVars
  <2>2. CASE SettingsApplied(s) \/ SettingsRefused(s)
    BY <2>2 DEF SettingsApplied, SettingsRefused, Callback, Tell, Goto, engineVars, historyVars
  <2>3. CASE RunBlock(s)
    BY <2>3 DEF RunBlock, Goto, Engine!Invoke, engineVars, historyVars
  <2>4. CASE StartReturned(s)
    BY <2>4 DEF StartReturned, startTun2Socks, finish, Tell, Goto, engineVars, historyVars
  <2>5. CASE ProbePasses(s) \/ ProbeFails(s)
    BY <2>5 DEF ProbePasses, ProbeFails, startTun2Socks, finish, Tell, Goto, engineVars, historyVars
  <2>6. CASE stopTunnel(s)
    BY <2>6 DEF stopTunnel, Engine!Invoke, engineVars, historyVars
  <2>7. CASE StopReturned(s) \/ Release(s)
    BY <2>7 DEF StopReturned, Release, Over, engineVars, historyVars
  <2>8. CASE EngineStarts(s)
    BY <2>8 DEF EngineStarts, Engine!StartServes, Engine!Respond, sessionVars
  <2>9. CASE EngineFails(s)
    BY <2>9 DEF EngineFails, Engine!StartFails, Engine!Respond, sessionVars
  <2>10. CASE EngineStops(s)
    BY <2>10 DEF EngineStops, Engine!StopServes, Engine!Respond, sessionVars
  <2>11. QED
    BY <2>1, <2>2, <2>3, <2>4, <2>5, <2>6, <2>7, <2>8, <2>9, <2>10 DEF SessionNext
<1>3. QED
  BY <1>1, <1>2

\* Only startTunnel brings a session to life, and what is over stays over.
LEMMA OverStays ==
  ASSUME IInv, NEW s \in Sessions, SessionNext(s),
         ~ \E p \in Profiles \cup {None} : startTunnel(s, p)
  PROVE  (life'[s] = "live" => life[s] = "live") /\ (Over(s) => Over(s)')
<1> USE ThreadFacts DEF IInv, TypeOK, Over
<1> SessionInv(s)
  BY DEF IInv
<1> USE DEF SessionInv
<1>2. CASE SettingsApplied(s) \/ SettingsRefused(s)
  BY <1>2 DEF SettingsApplied, SettingsRefused, Callback, Tell, Goto
<1>3. CASE RunBlock(s)
  BY <1>3 DEF RunBlock
<1>4. CASE StartReturned(s)
  BY <1>4 DEF StartReturned, startTun2Socks, finish, Tell, Goto
<1>5. CASE ProbePasses(s) \/ ProbeFails(s)
  BY <1>5 DEF ProbePasses, ProbeFails, startTun2Socks, finish, Tell, Goto
<1>6. CASE stopTunnel(s)
  BY <1>6 DEF stopTunnel
<1>7. CASE StopReturned(s) \/ Release(s)
  BY <1>7 DEF StopReturned, Release
<1>8. CASE EngineStarts(s) \/ EngineFails(s) \/ EngineStops(s)
  BY <1>8 DEF EngineStarts, EngineFails, EngineStops, sessionVars
<1>9. QED
  BY <1>2, <1>3, <1>4, <1>5, <1>6, <1>7, <1>8 DEF SessionNext

LEMMA OneCurrentStep ==
  ASSUME IInv, NEW s \in Sessions, SessionNext(s)
  PROVE  OneCurrent'
<1> SUFFICES ASSUME NEW q \in Sessions, NEW r \in Sessions, q # r,
                    life'[q] = "live", life'[r] = "live"
             PROVE  Over(q)' \/ Over(r)'
  BY DEF OneCurrent
<1>1. \A o \in Sessions \ {s} : life'[o] = life[o] /\ (Over(o) => Over(o)')
  BY Others DEF Kept, Over
<1>2. CASE \E p \in Profiles \cup {None} : startTunnel(s, p)
  <2>1. \A o \in Sessions : life[o] = "live" => Over(o)
    BY <1>2 DEF startTunnel
  <2>2. QED
    BY <1>1, <2>1
<1>3. CASE ~ \E p \in Profiles \cup {None} : startTunnel(s, p)
  <2>1. \A o \in Sessions : (life'[o] = "live" => life[o] = "live") /\ (Over(o) => Over(o)')
    BY <1>1, <1>3, OverStays
  <2>2. QED
    BY <2>1 DEF IInv, OneCurrent
<1>4. QED
  BY <1>2, <1>3

\* A start that its stop has overtaken stays known as such.
LEMMA LateStep ==
  ASSUME IInv, NEW s \in Sessions, SessionNext(s)
  PROVE  \A r \in Sessions : LateInv(r)'
<1>1. ASSUME NEW r \in Sessions \ {s} PROVE LateInv(r)'
  BY <1>1, Others DEF Kept, LateInv, Coming, IInv
<1>2. LateInv(s)'
  <2> USE ThreadFacts DEF IInv, TypeOK
  <2> SessionInv(s) /\ LateInv(s)
    BY DEF IInv
  <2> USE DEF SessionInv, LateInv, Coming
  <2>1. ASSUME NEW p \in Profiles \cup {None}, startTunnel(s, p) PROVE LateInv(s)'
    BY <2>1 DEF startTunnel, Tell, Goto, engineVars, historyVars
  <2>2. CASE SettingsApplied(s) \/ SettingsRefused(s)
    BY <2>2 DEF SettingsApplied, SettingsRefused, Callback, Tell, Goto, engineVars, historyVars
  <2>3. CASE RunBlock(s)
    BY <2>3 DEF RunBlock, Goto, Engine!Invoke, engineVars, historyVars
  <2>4. CASE StartReturned(s)
    BY <2>4 DEF StartReturned, startTun2Socks, finish, Tell, Goto, engineVars, historyVars
  <2>5. CASE ProbePasses(s) \/ ProbeFails(s)
    BY <2>5 DEF ProbePasses, ProbeFails, startTun2Socks, finish, Tell, Goto, engineVars, historyVars
  <2>6. CASE stopTunnel(s)
    BY <2>6 DEF stopTunnel, Engine!Invoke, engineVars, historyVars
  <2>7. CASE StopReturned(s) \/ Release(s)
    BY <2>7 DEF StopReturned, Release, engineVars, historyVars
  <2>8. CASE EngineStarts(s) \/ EngineFails(s)
    BY <2>8 DEF EngineStarts, EngineFails, Engine!StartServes, Engine!StartFails, Engine!Respond, sessionVars
  <2>9. CASE EngineStops(s)
    BY <2>9 DEF EngineStops, Engine!StopServes, Engine!Respond, sessionVars
  <2>10. QED
    BY <2>1, <2>2, <2>3, <2>4, <2>5, <2>6, <2>7, <2>8, <2>9 DEF SessionNext
<1>3. QED
  BY <1>1, <1>2

\* Only an overtaken start, or no start at all, reaches the engine while another
\* session acts on its own.
LEMMA Intruder ==
  ASSUME IInv, NEW r \in Sessions, NEW s \in Sessions, r # s, Acting(r)
  PROVE  /\ pending[System(s)] # "stop"
         /\ pending[Io(s)] = "start" => s \in overtaken
<1> SessionInv(r) /\ SessionInv(s) /\ LateInv(s) /\ OneCurrent
  BY DEF IInv
<1>1. life[r] = "live" /\ ~Over(r)
  BY DEF Acting, Over, SessionInv
<1>2. life[s] = "live" => Over(s)
  BY <1>1 DEF OneCurrent
<1>3. pending[System(s)] # "stop"
  BY <1>2 DEF SessionInv, Over
<1>4. ASSUME pending[Io(s)] = "start" PROVE s \in overtaken
  <2>1. start[s] = "engine" /\ life[s] = "live" /\ told[s] = "none" /\ "Go" \in linked
    BY <1>4 DEF SessionInv
  <2>2. stop[s] = "done" /\ pending[System(s)] = "none"
    BY <1>2, <2>1 DEF Over, SessionInv
  <2>3. QED
    BY <1>4, <2>1, <2>2 DEF LateInv, Coming
<1>5. QED
  BY <1>3, <1>4

\* A call of a session takes effect in the engine.
EngineNext(s) == EngineStarts(s) \/ EngineFails(s) \/ EngineStops(s)

LEMMA EngineCalls ==
  ASSUME IInv, NEW s \in Sessions, EngineNext(s)
  PROVE  /\ last' = s
         /\ \A r \in Sessions : ServesLast(r)' /\ ActsOnIt(r)'
<1> USE ThreadFacts, NoneAssumption DEF IInv, TypeOK
<1>1. last' = s
  BY DEF EngineNext, EngineStarts, EngineFails, EngineStops
<1>2. ASSUME NEW r \in Sessions \ {s} PROVE ServesLast(r)' /\ ActsOnIt(r)'
  <2>1. Kept(r) /\ linked' = linked
    BY Others DEF EngineNext, SessionNext
  <2>2. ServesLast(r)'
    BY <1>1 DEF ServesLast
  <2>3. ASSUME Acting(r) PROVE s \in overtaken'
    <3>1. pending[System(s)] # "stop" /\ (pending[Io(s)] = "start" => s \in overtaken)
      BY <2>3, Intruder
    <3>2. QED
      BY <3>1 DEF EngineNext, EngineStarts, EngineFails, EngineStops, Engine!StartServes,
                  Engine!StartFails, Engine!StopServes
  <2>4. ActsOnIt(r)'
    BY <1>1, <2>1, <2>3 DEF ActsOnIt, Acting, Kept
  <2>5. QED
    BY <2>2, <2>4
<1>3. ServesLast(s)' /\ ActsOnIt(s)'
  <2> SessionInv(s) /\ LateInv(s) /\ ActsOnIt(s)
    BY DEF IInv
  <2>1. CASE EngineStarts(s)
    <3>1. /\ pending[Io(s)] = "start" /\ pending'[Io(s)] = "none"
          /\ pending'[System(s)] = pending[System(s)]
          /\ serving' = answer'[Io(s)] /\ serving' # None
          /\ UNCHANGED <<linked, sessionVars, overtaken>>
      BY <2>1 DEF EngineStarts, Engine!StartServes, Engine!Respond
    <3>2. start[s] = "engine" /\ told[s] = "none" /\ life[s] = "live" /\ "Go" \in linked
      BY <3>1 DEF SessionInv
    <3>3. s \in overtaken \/ stop[s] = "none" \/ pending[System(s)] = "stop"
      BY <3>1, <3>2 DEF LateInv, Coming, SessionInv
    <3>4. QED
      BY <1>1, <3>1, <3>2, <3>3 DEF ServesLast, ActsOnIt, Acting, sessionVars
  <2>2. CASE EngineFails(s)
    <3>1. /\ pending[Io(s)] = "start" /\ answer'[Io(s)] = "-1" /\ serving' = None
          /\ UNCHANGED <<linked, sessionVars, overtaken>>
      BY <2>2 DEF EngineFails, Engine!StartFails, Engine!Respond
    <3>2. start[s] = "engine" /\ told[s] = "none"
      BY <3>1 DEF SessionInv
    <3>3. QED
      BY <3>1, <3>2 DEF ServesLast, ActsOnIt, Acting, sessionVars
  <2>3. CASE EngineStops(s)
    <3>1. /\ pending[System(s)] = "stop" /\ serving' = None
          /\ answer'[Io(s)] = answer[Io(s)]
          /\ UNCHANGED <<linked, sessionVars>>
      BY <2>3 DEF EngineStops, Engine!StopServes, Engine!Respond
    <3>2. stop[s] = "calling"
      BY <3>1 DEF SessionInv
    <3>3. QED
      BY <3>1, <3>2 DEF ServesLast, ActsOnIt, Acting, sessionVars
  <2>4. QED
    BY <2>1, <2>2, <2>3 DEF EngineNext
<1>4. QED
  BY <1>1, <1>2, <1>3

\* What a session does outside the engine.
LEMMA EngineAside ==
  ASSUME IInv, NEW s \in Sessions, SessionNext(s), ~EngineNext(s)
  PROVE  /\ UNCHANGED <<serving, last, overtaken>>
         /\ \A r \in Sessions : ServesLast(r)' /\ ActsOnIt(r)'
<1>1. UNCHANGED <<serving, last, overtaken>>
  BY DEF SessionNext, EngineNext, startTunnel, SettingsApplied, SettingsRefused, Callback, RunBlock,
         StartReturned, startTun2Socks, finish, ProbePasses, ProbeFails, stopTunnel, StopReturned,
         Release, Engine!Invoke, engineVars, historyVars
<1>2. ASSUME NEW r \in Sessions \ {s} PROVE ServesLast(r)' /\ ActsOnIt(r)'
  BY <1>1, <1>2, Others DEF Kept, ServesLast, ActsOnIt, Acting, IInv
<1>3. ServesLast(s)' /\ ActsOnIt(s)'
  <2> USE ThreadFacts, NoneAssumption, PortsAssumption DEF IInv, TypeOK
  <2> SessionInv(s) /\ LateInv(s) /\ ServesLast(s) /\ ActsOnIt(s)
    BY DEF IInv
  <2> USE DEF SessionInv, ServesLast, ActsOnIt, Acting
  <2>1. ASSUME NEW p \in Profiles \cup {None}, startTunnel(s, p) PROVE ServesLast(s)' /\ ActsOnIt(s)'
    BY <2>1 DEF startTunnel, Tell, Goto, engineVars, historyVars
  <2>2. CASE SettingsApplied(s) \/ SettingsRefused(s)
    BY <2>2 DEF SettingsApplied, SettingsRefused, Callback, Tell, Goto, engineVars, historyVars
  <2>3. CASE RunBlock(s)
    BY <2>3 DEF RunBlock, Goto, Engine!Invoke, engineVars, historyVars
  <2>4. CASE StartReturned(s)
    BY <2>4 DEF StartReturned, startTun2Socks, finish, Tell, Goto, engineVars, historyVars
  <2>5. CASE ProbePasses(s) \/ ProbeFails(s)
    <3>1. start[s] = "probe" /\ "Go" \notin linked /\ last = None /\ linked' = linked /\ last' = last
      BY <1>1, <2>5, Others DEF ProbePasses, ProbeFails
    <3>2. QED
      BY <3>1 DEF ServesLast, ActsOnIt, Acting
  <2>6. CASE stopTunnel(s)
    <3>1. CASE "Go" \notin linked
      BY <1>1, <2>6, <3>1, Others DEF ServesLast, ActsOnIt, Acting
    <3>2. CASE "Go" \in linked
      BY <2>6, <3>2 DEF stopTunnel, Engine!Invoke, engineVars, historyVars
    <3>3. QED
      BY <3>1, <3>2
  <2>7. CASE StopReturned(s) \/ Release(s)
    BY <2>7, <1>1 DEF StopReturned, Release, Over, engineVars, historyVars
  <2>8. QED
    BY <2>1, <2>2, <2>3, <2>4, <2>5, <2>6, <2>7 DEF SessionNext, EngineNext
<1>4. QED
  BY <1>1, <1>2, <1>3

\* The invariant is inductive.
LEMMA NextIInv == IInv /\ [Next]_vars => IInv'
<1> SUFFICES ASSUME IInv, [Next]_vars PROVE IInv'
  OBVIOUS
<1>1. ASSUME NEW s \in Sessions, SessionNext(s) PROVE IInv'
  <2>1. TypeOK' /\ OneCurrent'
    BY <1>1, TypeStep, OneCurrentStep
  <2>2. \A r \in Sessions : SessionInv(r)' /\ LateInv(r)'
    BY <1>1, SessionStep, LateStep
  <2>3. CASE EngineNext(s)
    <3>1. last' = s /\ \A r \in Sessions : ServesLast(r)' /\ ActsOnIt(r)'
      BY <2>3, EngineCalls
    <3>2. "Go" \in linked
      BY <2>3, ThreadFacts DEF EngineNext, EngineStarts, EngineFails, EngineStops,
         Engine!StartServes, Engine!StartFails, Engine!StopServes, IInv, SessionInv
    <3>3. linked' = linked
      BY <1>1, Others
    <3>4. QED
      BY <2>1, <2>2, <3>1, <3>2, <3>3, NoneAssumption DEF IInv
  <2>4. CASE ~EngineNext(s)
    <3>1. /\ UNCHANGED <<serving, last, overtaken>>
          /\ \A r \in Sessions : ServesLast(r)' /\ ActsOnIt(r)'
      BY <1>1, <2>4, EngineAside
    <3>2. linked' = linked
      BY <1>1, Others
    <3>3. QED
      BY <2>1, <2>2, <3>1, <3>2 DEF IInv
  <2>5. QED
    BY <2>3, <2>4
<1>2. CASE Exit
  BY <1>2, ExitStep
<1>3. CASE UNCHANGED vars
  BY <1>3 DEF vars, sessionVars, engineVars, historyVars, IInv, TypeOK, OneCurrent, Over, SessionInv,
              LateInv, Coming, ServesLast, ActsOnIt, Acting
<1>4. QED
  BY <1>1, <1>2, <1>3 DEF Next, SessionNext

\* The types, the single current session, what is known of late starts, and whom
\* the engine serves: all of it holds for any sessions, ports and profiles.
THEOREM Inductive == Spec => []IInv
<1>1. IInv /\ [Next]_vars => IInv'
  BY NextIInv
<1>2. QED
  BY InitIInv, <1>1, PTL DEF Spec

\* A session the system takes for connected has, in Tun2Socks, the port that the
\* engine serves, unless an overtaken start came after it.
THEOREM UpIsServedHolds == Spec => []UpIsServed
<1>1. ASSUME IInv PROVE UpIsServed
  <2> SUFFICES ASSUME NEW s \in Sessions, told[s] = "up", life[s] = "live", stop[s] = "none",
                      "Go" \in linked, last \notin overtaken
               PROVE  last = s /\ serving = port[s] /\ serving # None
    BY DEF UpIsServed
  <2>1. last = s /\ serving # None /\ port[s] = answer[Io(s)]
    BY <1>1 DEF IInv, ActsOnIt, Acting
  <2>2. answer[Io(s)] = serving
    BY <1>1, <2>1 DEF IInv, ServesLast
  <2>3. QED
    BY <2>1, <2>2
<1>2. QED
  BY Inductive, <1>1, PTL

\* A session that is over leaves an engine that serves nothing, unless its start
\* came after its stop.
THEOREM OverIsDownHolds == Spec => []OverIsDown
<1>1. ASSUME IInv PROVE OverIsDown
  <2> SUFFICES ASSUME NEW s \in Sessions, Over(s), last = s, s \notin overtaken,
                      "Tun2Socks" \in linked, serving # None
               PROVE  FALSE
    BY DEF OverIsDown
  <2>1. ServesLast(s) /\ SessionInv(s)
    BY <1>1 DEF IInv
  <2>2. told[s] # "error"
    BY <2>1 DEF ServesLast
  <2>3. stop[s] = "done"
    BY <2>2 DEF Over
  <2>4. QED
    BY <2>1, <2>3 DEF ServesLast, SessionInv
<1>2. QED
  BY Inductive, <1>1, PTL

================================================================================
