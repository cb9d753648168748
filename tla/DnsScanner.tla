------------------------------- MODULE DnsScanner -------------------------------
(***************************************************************************)
(* The DNS scanner bloc of the app                                         *)
(* (src/lib/screens/dns_scanner/dns_scanner_bloc.dart) and the button that *)
(* drives it.  A scan is a loop over the resolvers that awaits one probe   *)
(* after another; _cancelled and the state are shared by all the loops     *)
(* that are still awaiting something.  An action is a turn of a handler,   *)
(* from an event or the end of a probe to the next await.                  *)
(*                                                                         *)
(* Left out: currentResolver, showOnlyWorking, selectedResolvers, and of a *)
(* result everything but the resolver and success.                         *)
(***************************************************************************)
EXTENDS Integers, SequencesExt

CONSTANTS
  Scans,      \* activations of _onStarted that may overlap
  Resolvers,
  Offers,     \* the sequences of protocols a scan may try
  MaxPorts    \* bounds the ports verified after a pass: HTTP, SSH

ASSUME OffersAssumption ==
  /\ Offers \subseteq Seq({"udp", "tcp", "doh", "dot"}) \ {<<>>}
  /\ MaxPorts \in 0..2
  /\ IsFiniteSet(Resolvers)

\* The probes that end in time whatever the resolver does.  The body of a DoH
\* answer is read without a deadline, and the timeout of SecureSocket.connect
\* ends with the TCP connect: the TLS handshake of a DoT probe has none.
Deadlines == {"udp", "tcp"}

VARIABLES
  isScanning, results, progress,   \* DnsScannerState; progress is a fraction <<a, b>>
  _cancelled,
  scan,       \* scan[s]: the local variables of an activation
  overlap     \* history: the latest scan began while another one was alive

vars == <<isScanning, results, progress, _cancelled, scan, overlap>>

\* todo holds the resolvers from the i-th on; left the protocols not yet
\* tried on its head; ports what is still to be verified.
Idle == [phase |-> "idle", list |-> <<>>, todo |-> <<>>, found |-> <<>>,
         offer |-> <<>>, left |-> <<>>, verify |-> 0, ports |-> 0]

Init ==
  /\ isScanning = FALSE /\ results = <<>> /\ progress = <<0, 1>>
  /\ _cancelled = FALSE
  /\ scan = [s \in Scans |-> Idle]
  /\ overlap = FALSE

Alive(s) == scan[s].phase # "idle"
AnyAlive == \E s \in Scans : Alive(s)

\* The screen's parser and _normalizeResolvers: distinct resolvers, in the
\* order given or shuffled.
Lists == UNION {SetToSeqs(S) : S \in (SUBSET Resolvers) \ {{}}}

\* Variant: the flag of the last Stop is not cleared.
StartedStillCancelled(s, list, offer, verify) ==
  /\ ~isScanning
  /\ ~Alive(s)
  /\ isScanning' = TRUE /\ results' = <<>> /\ progress' = <<0, Len(list)>>
  /\ overlap' = AnyAlive
  /\ scan' = [scan EXCEPT ![s] =
       [phase |-> "probe", list |-> list, todo |-> list, found |-> <<>>,
        offer |-> offer, left |-> offer, verify |-> verify, ports |-> 0]]
  /\ UNCHANGED _cancelled

\* _onStarted up to its first probe.
Started(s, list, offer, verify) ==
  /\ ~isScanning
  /\ ~Alive(s)
  /\ _cancelled' = FALSE
  /\ isScanning' = TRUE /\ results' = <<>> /\ progress' = <<0, Len(list)>>
  /\ overlap' = AnyAlive
  /\ scan' = [scan EXCEPT ![s] =
       [phase |-> "probe", list |-> list, todo |-> list, found |-> <<>>,
        offer |-> offer, left |-> offer, verify |-> verify, ports |-> 0]]

\* _onStopped
Stopped ==
  /\ isScanning
  /\ _cancelled' = TRUE
  /\ isScanning' = FALSE
  /\ UNCHANGED <<results, progress, scan, overlap>>

\* The loop is left: the last emit of _onStarted.
Finish(s) ==
  /\ isScanning' = FALSE /\ progress' = <<1, 1>>
  /\ scan' = [scan EXCEPT ![s] = Idle]

\* Variant: the result is added to the list of the shared state.
ReturnedToState(s, success) ==
  LET result == [resolver |-> Head(scan[s].todo), success |-> success]
      rest == Tail(scan[s].todo)
  IN /\ results' = IF _cancelled THEN results ELSE Append(results, result)
     /\ IF _cancelled \/ rest = <<>> THEN Finish(s)
        ELSE /\ progress' = <<Len(scan[s].found) + 1, Len(scan[s].list)>>
             /\ scan' = [scan EXCEPT ![s] =
                  [@ EXCEPT !.phase = "probe", !.todo = rest, !.found = Append(@, result),
                            !.left = scan[s].offer]]
             /\ UNCHANGED isScanning

\* _scanResolver returned: the rest of the loop's body and the next turn's
\* beginning.
Returned(s, success) ==
  LET found == Append(scan[s].found, [resolver |-> Head(scan[s].todo), success |-> success])
      rest == Tail(scan[s].todo)
  IN IF _cancelled THEN Finish(s) /\ UNCHANGED results
     ELSE /\ results' = found
          /\ IF rest = <<>> THEN Finish(s)
             ELSE /\ progress' = <<Len(found), Len(scan[s].list)>>
                  /\ scan' = [scan EXCEPT ![s] =
                       [@ EXCEPT !.phase = "probe", !.todo = rest, !.found = found,
                                 !.left = scan[s].offer]]
                  /\ UNCHANGED isScanning

Awaiting(s, phase) ==
  /\ scan[s].phase = phase
  /\ UNCHANGED <<_cancelled, overlap>>

\* A usable answer: the ports are verified next, if any.
ProbePasses(s) ==
  /\ Awaiting(s, "probe")
  /\ IF scan[s].verify = 0 THEN Returned(s, TRUE)
     ELSE /\ scan' = [scan EXCEPT ![s].phase = "verify", ![s].ports = scan[s].verify]
          /\ UNCHANGED <<isScanning, results, progress>>

\* Variants: the last protocol is not recognised, or followed by the first.
ProbeFailsPastLast(s) ==
  /\ Awaiting(s, "probe")
  /\ scan' = [scan EXCEPT ![s].left = Tail(@)]
  /\ UNCHANGED <<isScanning, results, progress>>

\* An answer that does not do: the next protocol is tried.
ProbeFails(s) ==
  /\ Awaiting(s, "probe")
  /\ IF Len(scan[s].left) = 1 THEN Returned(s, FALSE)
     ELSE /\ scan' = [scan EXCEPT ![s].left = Tail(@)]
          /\ UNCHANGED <<isScanning, results, progress>>

\* Variant: the exception leaves _onStarted's loop.
ProbeThrowsThrough(s) ==
  /\ Awaiting(s, "probe")
  /\ Finish(s)
  /\ UNCHANGED results

\* A timeout or a socket error leaves the loop over the protocols too.
ProbeThrows(s) ==
  /\ Awaiting(s, "probe")
  /\ Returned(s, FALSE)

\* _verifyPort answers, one way or the other.
PortVerified(s) ==
  /\ Awaiting(s, "verify")
  /\ IF scan[s].ports = 1 THEN Returned(s, TRUE)
     ELSE /\ scan' = [scan EXCEPT ![s].ports = @ - 1]
          /\ UNCHANGED <<isScanning, results, progress>>

Probed(s) == ProbePasses(s) \/ ProbeFails(s) \/ ProbeThrows(s)
ProbedInTime(s) == Probed(s) /\ Head(scan[s].left) \in Deadlines

Next ==
  \/ \E s \in Scans :
       \/ \E list \in Lists, offer \in Offers, verify \in 0..MaxPorts :
            Started(s, list, offer, verify)
       \/ ProbePasses(s) \/ ProbeFails(s) \/ ProbeThrows(s) \/ PortVerified(s)
  \/ Stopped

\* UDP and TCP probes and port checks have deadlines; the user owes nothing.
Fairness == \A s \in Scans : WF_vars(ProbedInTime(s)) /\ WF_vars(PortVerified(s))

Spec == Init /\ [][Next]_vars
FairSpec == Spec /\ Fairness

--------------------------------------------------------------------------------
Result == [resolver : Resolvers, success : BOOLEAN]

Activation ==
  [phase : {"idle", "probe", "verify"}, list : Seq(Resolvers), todo : Seq(Resolvers),
   found : Seq(Result), offer : Seq({"udp", "tcp", "doh", "dot"}),
   left : Seq({"udp", "tcp", "doh", "dot"}), verify : 0..MaxPorts, ports : 0..MaxPorts]

Unfinished(s) ==
  /\ scan[s].todo # <<>> /\ scan[s].left # <<>> /\ scan[s].offer # <<>>
  /\ Len(scan[s].found) + Len(scan[s].todo) = Len(scan[s].list)
  /\ \A i \in DOMAIN scan[s].found : scan[s].found[i].resolver = scan[s].list[i]
  /\ \A i \in DOMAIN scan[s].todo :
       scan[s].todo[i] = scan[s].list[Len(scan[s].found) + i]
  /\ scan[s].phase = "verify" => scan[s].ports > 0

\* Types, and what a loop has found and has to do make up its list.
TypeOK ==
  /\ isScanning \in BOOLEAN /\ _cancelled \in BOOLEAN /\ overlap \in BOOLEAN
  /\ results \in Seq(Result)
  /\ progress \in Nat \X (Nat \ {0})
  /\ scan \in [Scans -> Activation]
  /\ \A s \in Scans : Alive(s) => Unfinished(s)

\* However scans overlap, the list shown names no resolver twice: it is one
\* loop's own list, never a mixture.
NoResolverTwice ==
  \A i, j \in DOMAIN results : results[i].resolver = results[j].resolver => i = j

\* As long as scans do not overlap, the screen tells the truth: it shows a
\* scan exactly while one runs that was not stopped, progress counts the
\* results, and what ends by itself has a result for every resolver.
ScreenIsTrue ==
  ~overlap =>
    /\ isScanning <=> ~_cancelled /\ AnyAlive
    /\ \A s \in Scans : Alive(s) /\ isScanning =>
         /\ results = scan[s].found
         /\ progress = <<Len(results), Len(scan[s].list)>>

\* What the two rest on: types, lists without repetition, and that scans not
\* said to overlap do not.
IInv ==
  /\ TypeOK /\ NoResolverTwice /\ ScreenIsTrue
  /\ \A s \in Scans : Alive(s) => IsInjective(scan[s].list)
  /\ ~overlap => \A s, t \in Scans : Alive(s) /\ Alive(t) => s = t

\* A scan that begins while none is alive ends with every resolver tested,
\* unless it is stopped or another one begins before it has ended.
EndsComplete ==
  [][\A s \in Scans :
       Alive(s) /\ scan'[s] = Idle /\ ~overlap /\ ~_cancelled
         => {results'[i].resolver : i \in DOMAIN results'} = ToSet(scan[s].list)]_vars


================================================================================
