----------------------------- MODULE ResolverTests -----------------------------
(***************************************************************************)
(* End-to-end tests of DNS resolvers (src/go/tunnel/resolver_tester.go and *)
(* dns_edns.go): what TestResolver reports of a network, and the pool of   *)
(* goroutines in which ParallelTestResolvers runs one test per resolver.   *)
(*                                                                         *)
(* A resolver is a position of the list under test: the same address may   *)
(* be listed twice.  A network is what it lets happen to one test.         *)
(***************************************************************************)
EXTENDS Integers, Sequences, FiniteSets

CONSTANTS
  Positions,   \* the positions of the list of resolvers
  Nets,        \* the networks a test may meet
  None

totalCount == 10   \* probes of a transmission test

\* udp, tcp: the dials succeed.  edns: the answer to the EDNS probe.  nx: the one to
\* the question for a name that is not there.  lookup: the test domain resolves.
\* answered: the probes that are answered.  cut: the first probe to find the context
\* done, if it is not past the last.
NetType ==
  [udp : BOOLEAN, tcp : BOOLEAN, edns : {"none", "plain", "opt"},
   nx : {"none", "nxdomain", "empty", "answers"}, lookup : BOOLEAN, answered : SUBSET (1..totalCount),
   cut : 1..(totalCount + 1)]

ASSUME NetsAssumption == Nets \subseteq NetType

--------------------------------------------------------------------------------
(* One test.                                                               *)

testReachability(net) == net.udp /\ net.tcp

\* No answer, a short one or one that does not parse is no support.
testEDNSSupport(net) == net.udp /\ net.edns = "opt"

\* Silence is no hijacking.
checkNXDOMAINHijacking(net) == net.udp /\ net.nx = "answers"

\* Its Error is never set.
ProbeEDNS(net) ==
  [SupportEDNS |-> testEDNSSupport(net), NXDOMAINHijacked |-> checkNXDOMAINHijacking(net)]

EDNSScore(net) ==
  LET result == ProbeEDNS(net)
  IN  2 + (IF result.SupportEDNS THEN 2 ELSE 0) + (IF result.NXDOMAINHijacked THEN 0 ELSE 2)

testDNSResolution(net) == net.lookup

\* The loss is counted in probes: packetLoss is lost / totalCount.
testTunnelTransmission(net) ==
  LET successCount == Cardinality(net.answered)
      lost == totalCount - successCount
  IN  IF net.cut <= totalCount \/ successCount = 0
      THEN [ok |-> FALSE, lost |-> totalCount]
      ELSE IF 2 * lost > totalCount THEN [ok |-> FALSE, lost |-> lost]
      ELSE [ok |-> TRUE, lost |-> lost]

\* Mutant of TestResolver: a failed transmission is no error.
TestForgetsTunnel(net) ==
  LET tunnel == testTunnelTransmission(net)
  IN  [reachable |-> testReachability(net), edns |-> ProbeEDNS(net).SupportEDNS, resolves |-> testDNSResolution(net),
       tunnel |-> tunnel.ok, lost |-> tunnel.lost,
       error |-> IF ~testDNSResolution(net) THEN "resolution failed" ELSE ""]

\* A test that cannot reach the resolver ends there, its loss never measured.
\* The error of the transmission replaces that of the resolution.
TestResolver(net) ==
  LET tunnel == testTunnelTransmission(net)
  IN  IF ~testReachability(net)
      THEN [reachable |-> FALSE, edns |-> FALSE, resolves |-> FALSE, tunnel |-> FALSE,
            lost |-> 0, error |-> "unreachable"]
      ELSE [reachable |-> TRUE, edns |-> ProbeEDNS(net).SupportEDNS, resolves |-> testDNSResolution(net),
            tunnel |-> tunnel.ok, lost |-> tunnel.lost,
            error |-> IF ~tunnel.ok THEN "tunnel failed"
                      ELSE IF ~testDNSResolution(net) THEN "resolution failed" ELSE ""]

Results == {TestResolver(net) : net \in Nets}

--------------------------------------------------------------------------------
(* ParallelTestResolvers.                                                  *)

VARIABLES
  pool,         \* where the call is: not made, waiting for its goroutines, returned
  concurrency,  \* the capacity of the semaphore channel
  sem,          \* the tokens in it
  worker,       \* where the goroutine of each position is
  results,      \* the slice the goroutines write
  completed     \* history: the positions in the order in which their tests ended

poolVars == <<pool, concurrency, sem, worker, results, completed>>

PoolInit ==
  /\ pool = "idle"
  /\ concurrency = 0 /\ sem = 0
  /\ worker = [p \in Positions |-> "none"]
  /\ results = [p \in Positions |-> None]
  /\ completed = <<>>

\* One goroutine per resolver of the list, those at the positions ps.  A negative
\* concurrency panics.
StartPool(ps, c) ==
  /\ pool = "idle"
  /\ c >= 0
  /\ pool' = "wait"
  /\ concurrency' = c /\ sem' = 0
  /\ worker' = [p \in Positions |-> IF p \in ps THEN "new" ELSE "none"]
  /\ results' = [p \in Positions |-> None]
  /\ completed' = <<>>

\* Mutant of Acquire: the semaphore does not block.
AcquireAnyway(p) ==
  /\ worker[p] = "new"
  /\ sem' = sem + 1
  /\ worker' = [worker EXCEPT ![p] = "testing"]
  /\ UNCHANGED <<pool, concurrency, results, completed>>

\* sem <- struct{}{}: of an unbuffered channel (concurrency 0) nobody receives.
Acquire(p) ==
  /\ worker[p] = "new"
  /\ sem < concurrency
  /\ sem' = sem + 1
  /\ worker' = [worker EXCEPT ![p] = "testing"]
  /\ UNCHANGED <<pool, concurrency, results, completed>>

\* results[idx] = tt.TestResolver(...)
Test(p) ==
  /\ worker[p] = "testing"
  /\ \E r \in Results : results' = [results EXCEPT ![p] = [of |-> p, is |-> r]]
  /\ worker' = [worker EXCEPT ![p] = "tested"]
  /\ completed' = Append(completed, p)
  /\ UNCHANGED <<pool, concurrency, sem>>

\* Mutant of Release: the token stays in the channel.
KeepToken(p) ==
  /\ worker[p] = "tested"
  /\ worker' = [worker EXCEPT ![p] = "done"]
  /\ UNCHANGED <<pool, concurrency, sem, results, completed>>

\* The deferred <-sem and wg.Done().
Release(p) ==
  /\ worker[p] = "tested"
  /\ sem' = sem - 1
  /\ worker' = [worker EXCEPT ![p] = "done"]
  /\ UNCHANGED <<pool, concurrency, results, completed>>

\* Mutant of Wait: wg.Add(1) is called by the goroutine, and Wait knows nothing of
\* one that does not run yet.
WaitForRunning ==
  /\ pool = "wait"
  /\ \A p \in Positions : worker[p] \in {"none", "new", "done"}
  /\ pool' = "returned"
  /\ UNCHANGED <<concurrency, sem, worker, results, completed>>

\* wg.Wait()
Wait ==
  /\ pool = "wait"
  /\ \A p \in Positions : worker[p] \in {"none", "done"}
  /\ pool' = "returned"
  /\ UNCHANGED <<concurrency, sem, worker, results, completed>>

\* The call hands its slice over and is gone.
PoolReturns ==
  /\ pool = "returned"
  /\ pool' = "idle"
  /\ concurrency' = 0
  /\ worker' = [p \in Positions |-> "none"]
  /\ results' = [p \in Positions |-> None]
  /\ completed' = <<>>
  /\ UNCHANGED sem

PoolNext ==
  \/ \E p \in Positions : Acquire(p) \/ Test(p) \/ Release(p)
  \/ Wait

================================================================================
