------------------------------- MODULE GeoRanges -------------------------------
(***************************************************************************)
(* The country ranges of a GeoIPScanner (src/go/tunnel/geo_scanner.go),    *)
(* shared by goroutines that import ranges, filter resolvers by country    *)
(* and scan the resolvers of a country with the pool of ResolverTests.     *)
(*                                                                         *)
(* The ranges are guarded by a sync.RWMutex.  A writer first announces     *)
(* itself, then waits for the readers to leave; as long as one is          *)
(* announced, who asks for a read lock waits, also who holds one already.  *)
(***************************************************************************)
EXTENDS ResolverTests

CONSTANTS
  Threads,        \* goroutines that use the scanner
  Calls,          \* the calls each of them makes: "import", "filter", "scan"
  Countries,
  Cidrs, BadCidrs,  \* ranges as written, and those among them that do not parse
  Holds,          \* the positions of the list whose address a range contains
  Upper,          \* strings.ToUpper on country codes
  Texts,          \* the texts that are imported, as sequences of their entries
  Concurrencies   \* the concurrencies scans are called with

\* An entry is a line with a country and at least one range: blank lines, comments
\* and lines without a range are passed over.
Entries == [country : Countries, ranges : SUBSET Cidrs]

ASSUME GeoAssumption ==
  /\ None \notin Threads /\ None \notin [of : Positions, is : Results]
  /\ Positions \subseteq Nat /\ IsFiniteSet(Positions)
  /\ Calls \in [Threads -> SUBSET {"import", "filter", "scan"}]
  /\ BadCidrs \subseteq Cidrs
  /\ Holds \in [Cidrs -> SUBSET Positions]
  /\ Upper \in [Countries -> Countries]
  /\ Texts \subseteq Seq(Entries)
  /\ Concurrencies \subseteq Nat

VARIABLES
  countryRanges,  \* the ranges of each country; none if it has no entry
  pending,        \* the writer announced or inside, or None
  readers,        \* read locks held by each thread
  rwait,          \* threads that wait for a read lock
  pc,
  lines,          \* entries still to add
  countrySet,     \* the countries a filter is for, in upper case
  left, filtered, \* positions a filter has not looked at, and those it keeps
  after           \* the call the filter is for: "filter", "scan", or none

lockVars == <<pending, readers, rwait>>
filterVars == <<countrySet, left, filtered, after>>
geoVars == <<countryRanges, lockVars, pc, lines, filterVars>>
vars == <<geoVars, poolVars>>

Init ==
  /\ countryRanges = [c \in Countries |-> {}]
  /\ pending = None
  /\ readers = [t \in Threads |-> 0]
  /\ rwait = {}
  /\ pc = [t \in Threads |-> "idle"]
  /\ lines = [t \in Threads |-> <<>>]
  /\ countrySet = [t \in Threads |-> {}]
  /\ left = [t \in Threads |-> {}]
  /\ filtered = [t \in Threads |-> {}]
  /\ after = [t \in Threads |-> "none"]
  /\ PoolInit

Goto(t, label) == pc' = [pc EXCEPT ![t] = label]

\* The locals of the call go with it.
CallReturns(t) ==
  /\ Goto(t, "idle")
  /\ countrySet' = [countrySet EXCEPT ![t] = {}]
  /\ left' = [left EXCEPT ![t] = {}]
  /\ filtered' = [filtered EXCEPT ![t] = {}]
  /\ after' = [after EXCEPT ![t] = "none"]

--------------------------------------------------------------------------------
(* The lock.                                                               *)

\* mu.RLock(): held at once, unless a writer is announced.
RLock(t) ==
  /\ IF pending = None
     THEN readers' = [readers EXCEPT ![t] = @ + 1] /\ UNCHANGED rwait
     ELSE rwait' = rwait \cup {t} /\ UNCHANGED readers
  /\ UNCHANGED pending

RUnlock(t) ==
  /\ readers' = [readers EXCEPT ![t] = @ - 1]
  /\ UNCHANGED <<pending, rwait>>

\* mu.Unlock(): the readers that waited go first.
Unlock ==
  /\ pending' = None
  /\ readers' = [t \in Threads |-> readers[t] + (IF t \in rwait THEN 1 ELSE 0)]
  /\ rwait' = {}

--------------------------------------------------------------------------------
(* Writers: AddCountryRanges for one entry, ImportRangesFromText and       *)
(* PopulateGlobalRanges for one after the other.                           *)

ImportRangesFromText(t, text) ==
  /\ pc[t] = "idle" /\ "import" \in Calls[t]
  /\ Goto(t, "import")
  /\ lines' = [lines EXCEPT ![t] = text]
  /\ UNCHANGED <<countryRanges, lockVars, filterVars, poolVars>>

\* mu.Lock(): announced once no other writer is ...
Lock(t) ==
  /\ pc[t] = "import" /\ lines[t] # <<>>
  /\ pending = None
  /\ pending' = t
  /\ Goto(t, "drain")
  /\ UNCHANGED <<countryRanges, readers, rwait, lines, filterVars, poolVars>>

\* Mutant of AddCountryRanges: the lock is a read lock.
AddUnderReadLock(t) ==
  LET entry == Head(lines[t])
      ok == entry.ranges \cap BadCidrs = {}
  IN  /\ pc[t] = "drain"
      /\ countryRanges' = IF ok THEN [countryRanges EXCEPT ![entry.country] = entry.ranges]
                          ELSE countryRanges
      /\ lines' = [lines EXCEPT ![t] = IF ok THEN Tail(lines[t]) ELSE <<>>]
      /\ Unlock
      /\ Goto(t, "import")
      /\ UNCHANGED <<filterVars, poolVars>>

\* Mutant of AddCountryRanges: the error returns before the lock is released.
AddFailsLocked(t) ==
  LET entry == Head(lines[t])
      ok == entry.ranges \cap BadCidrs = {}
  IN  /\ pc[t] = "drain"
      /\ \A r \in Threads : readers[r] = 0
      /\ countryRanges' = IF ok THEN [countryRanges EXCEPT ![entry.country] = entry.ranges]
                          ELSE countryRanges
      /\ lines' = [lines EXCEPT ![t] = IF ok THEN Tail(lines[t]) ELSE <<>>]
      /\ IF ok THEN Unlock ELSE UNCHANGED lockVars
      /\ Goto(t, "import")
      /\ UNCHANGED <<filterVars, poolVars>>

\* ... and inside once the readers have left.  The entry takes the place of the
\* country's old one; if one of its ranges does not parse it changes nothing, and the
\* lines behind it are not looked at.
AddCountryRanges(t) ==
  LET entry == Head(lines[t])
      ok == entry.ranges \cap BadCidrs = {}
  IN  /\ pc[t] = "drain"
      /\ \A r \in Threads : readers[r] = 0
      /\ countryRanges' = IF ok THEN [countryRanges EXCEPT ![entry.country] = entry.ranges]
                          ELSE countryRanges
      /\ lines' = [lines EXCEPT ![t] = IF ok THEN Tail(lines[t]) ELSE <<>>]
      /\ Unlock
      /\ Goto(t, "import")
      /\ UNCHANGED <<filterVars, poolVars>>

ImportReturns(t) ==
  /\ pc[t] = "import" /\ lines[t] = <<>>
  /\ Goto(t, "idle")
  /\ UNCHANGED <<countryRanges, lockVars, lines, filterVars, poolVars>>

--------------------------------------------------------------------------------
(* Readers.                                                                *)

\* The countries some range of which contains the address at p.
GetCountriesForIP(p) ==
  {c \in Countries : \E cidr \in countryRanges[c] \ BadCidrs : p \in Holds[cidr]}

\* FilterResolversByCountry for at least one country (for none it returns the list
\* as it is), called directly or by ScanResolversInCountry for one.  Bound: one scan
\* at a time.
FilterResolversByCountry(t, cs, call) ==
  /\ pc[t] = "idle" /\ call \in Calls[t]
  /\ cs # {}
  /\ call = "scan" => (\E c \in Countries : cs = {c}) /\ (\A r \in Threads : after[r] # "scan")
  /\ countrySet' = [countrySet EXCEPT ![t] = {Upper[c] : c \in cs}]
  /\ left' = [left EXCEPT ![t] = Positions]
  /\ filtered' = [filtered EXCEPT ![t] = {}]
  /\ after' = [after EXCEPT ![t] = call]
  /\ RLock(t)
  /\ Goto(t, "outer")
  /\ UNCHANGED <<countryRanges, lines, poolVars>>

\* The loop calls GetCountriesForIP for the next resolver, which takes the read lock
\* a second time ...
RLockAgain(t) ==
  /\ pc[t] = "outer" /\ t \notin rwait
  /\ left[t] # {}
  /\ RLock(t)
  /\ Goto(t, "inner")
  /\ UNCHANGED <<countryRanges, lines, filterVars, poolVars>>

\* ... looks it up and releases it.
LookUp(t) ==
  /\ pc[t] = "inner" /\ t \notin rwait
  /\ \E p \in left[t] :
       /\ \A q \in left[t] : p <= q
       /\ left' = [left EXCEPT ![t] = @ \ {p}]
       /\ filtered' = [filtered EXCEPT ![t] =
            IF \E c \in GetCountriesForIP(p) : Upper[c] \in countrySet[t] THEN @ \cup {p} ELSE @]
  /\ RUnlock(t)
  /\ Goto(t, "outer")
  /\ UNCHANGED <<countryRanges, lines, countrySet, after, poolVars>>

\* The loop is over: a scan goes on with what the filter kept.
FilterReturns(t) ==
  /\ pc[t] = "outer" /\ t \notin rwait
  /\ left[t] = {}
  /\ RUnlock(t)
  /\ IF after[t] = "scan" THEN Goto(t, "scan") /\ UNCHANGED filterVars ELSE CallReturns(t)
  /\ UNCHANGED <<countryRanges, lines, poolVars>>

--------------------------------------------------------------------------------
(* ScanResolversInCountry, behind the filter.                              *)

\* No resolver of the country: nil.
ScanNothing(t) ==
  /\ pc[t] = "scan" /\ filtered[t] = {}
  /\ CallReturns(t)
  /\ UNCHANGED <<countryRanges, lockVars, lines, poolVars>>

ScanResolversInCountry(t, c) ==
  /\ pc[t] = "scan" /\ filtered[t] # {}
  /\ StartPool(filtered[t], c)
  /\ Goto(t, "tests")
  /\ UNCHANGED <<countryRanges, lockVars, lines, filterVars>>

ScanReturns(t) ==
  /\ pc[t] = "tests"
  /\ PoolReturns
  /\ CallReturns(t)
  /\ UNCHANGED <<countryRanges, lockVars, lines>>

--------------------------------------------------------------------------------
Next ==
  \/ \E t \in Threads :
       \/ \E text \in Texts : ImportRangesFromText(t, text)
       \/ Lock(t) \/ AddCountryRanges(t) \/ ImportReturns(t)
       \/ \E cs \in SUBSET Countries, call \in {"filter", "scan"} :
            FilterResolversByCountry(t, cs, call)
       \/ RLockAgain(t) \/ LookUp(t) \/ FilterReturns(t)
       \/ ScanNothing(t) \/ (\E c \in Concurrencies : ScanResolversInCountry(t, c))
       \/ ScanReturns(t)
  \/ PoolNext /\ UNCHANGED geoVars

Spec == Init /\ [][Next]_vars

\* Goroutines run, and a mutex serves a writer that keeps asking.
Fairness ==
  /\ \A t \in Threads :
       /\ SF_vars(Lock(t))
       /\ WF_vars(AddCountryRanges(t)) /\ WF_vars(ImportReturns(t))
       /\ WF_vars(RLockAgain(t)) /\ WF_vars(LookUp(t)) /\ WF_vars(FilterReturns(t))
       /\ WF_vars(ScanNothing(t)) /\ WF_vars(ScanReturns(t))
       /\ WF_vars(\E c \in Concurrencies : ScanResolversInCountry(t, c))
  /\ \A p \in Positions :
       WF_vars(Acquire(p) /\ UNCHANGED geoVars) /\ WF_vars((Test(p) \/ Release(p)) /\ UNCHANGED geoVars)
  /\ WF_vars(Wait /\ UNCHANGED geoVars)

FairSpec == Spec /\ Fairness

--------------------------------------------------------------------------------
(* Properties.                                                             *)

\* The variables have their types.
TypeOK ==
  /\ countryRanges \in [Countries -> SUBSET Cidrs]
  /\ pending \in Threads \cup {None}
  /\ readers \in [Threads -> Nat]
  /\ rwait \in SUBSET Threads
  /\ pc \in [Threads -> {"idle", "import", "drain", "outer", "inner", "scan", "tests"}]
  /\ lines \in [Threads -> Seq(Entries)]
  /\ countrySet \in [Threads -> SUBSET Countries]
  /\ left \in [Threads -> SUBSET Positions]
  /\ filtered \in [Threads -> SUBSET Positions]
  /\ after \in [Threads -> {"none", "filter", "scan"}]
  /\ pool \in {"idle", "wait", "returned"}
  /\ concurrency \in Nat /\ sem \in Nat
  /\ worker \in [Positions -> {"none", "new", "testing", "tested", "done"}]
  /\ results \in [Positions -> {None} \cup [of : Positions, is : Results]]
  /\ completed \in Seq(Positions)

Reads(t) == pc[t] \in {"outer", "inner"}

InCountries(p, cs) == \E c \in GetCountriesForIP(p) : Upper[c] \in cs

\* A filter answers for one state of the ranges, however many goroutines replace
\* them meanwhile: what it has kept so far is right for the ranges as they are now.
FilterIsExact ==
  \A t \in Threads : Reads(t) =>
    filtered[t] = {p \in Positions \ left[t] : InCountries(p, countrySet[t])}

Busy(t) == pc[t] # "idle"

PoolBlocked ==
  /\ pool = "wait"
  /\ \A p \in Positions : worker[p] \in {"none", "new", "done"}
  /\ \E p \in Positions : worker[p] = "new"
  /\ sem >= concurrency

Blocked(t) ==
  \/ pc[t] = "import" /\ lines[t] # <<>> /\ pending # None
  \/ pc[t] = "drain" /\ \E r \in Threads : readers[r] > 0
  \/ Reads(t) /\ t \in rwait
  \/ pc[t] = "tests" /\ PoolBlocked

\* A reader that waits for its second lock on a writer that waits for its first.
Nested == \E t \in rwait : readers[t] > 0

\* Goroutines that have called and all wait wait on one of two things only: a filter
\* on its own second read lock, behind a writer, or a scan that was called with a
\* concurrency of 0.  No other order of the calls stalls them.
OnlyNestingStalls ==
  (\E t \in Threads : Busy(t)) /\ (\A t \in Threads : Busy(t) => Blocked(t)) =>
    Nested \/ (pool = "wait" /\ concurrency = 0)

Returned == {p \in Positions : results[p] # None}

\* A scan returns when the test of each resolver of the country has ended, and with
\* one result for each of them: none is missing, none is there twice, none is of a
\* resolver the filter dropped.
ScanIsWhole ==
  \A t \in Threads : pc[t] = "tests" /\ pool = "returned" =>
    /\ \A p \in filtered[t] : \E q \in Returned : results[q].of = p
    /\ \A q \in Returned : results[q].of \in filtered[t]
    /\ \A p, q \in Returned : results[p].of = results[q].of => p = q

\* "Returns results in order of completion" (resolver_tester.go:180): of two results
\* of the slice the first is that of the test that ended first.
OrderOfCompletion ==
  pool = "returned" =>
    \A p, q \in Returned : p < q =>
      \E i, j \in DOMAIN completed :
        i < j /\ completed[i] = results[p].of /\ completed[j] = results[q].of

\* What the app reads of a result agrees: there is no error exactly when all that
\* makes a resolver usable is there, and a tunnel that is said to work lost at most
\* half of the probes.
ReportsAgree ==
  \A p \in Positions : results[p] # None =>
    LET r == results[p].is
    IN  /\ r.error = "" <=> r.reachable /\ r.resolves /\ r.tunnel
        /\ r.tunnel => r.reachable /\ 2 * r.lost <= totalCount

\* Every call returns, unless one of the two stalls has come about.
CallsReturn ==
  \A t \in Threads :
    Busy(t) ~> (~Busy(t) \/ Nested \/ (pool = "wait" /\ concurrency = 0))

--------------------------------------------------------------------------------
(* The inductive invariant.                                                *)

\* What a thread holds and waits for is told by where it is.
LockInv ==
  /\ \A t \in Threads : pending = t <=> pc[t] = "drain"
  /\ rwait # {} => pending # None
  /\ \A t \in rwait : Reads(t)
  /\ \A t \in Threads :
       readers[t] = CASE pc[t] = "outer" -> IF t \in rwait THEN 0 ELSE 1
                      [] pc[t] = "inner" -> IF t \in rwait THEN 1 ELSE 2
                      [] OTHER -> 0

\* A filter that has no lock yet has looked nothing up, and there is one more
\* resolver whenever it asks for its second lock, one more entry whenever a writer waits.
FilterInv ==
  /\ \A t \in Threads : pc[t] = "outer" /\ t \in rwait => left[t] = Positions /\ filtered[t] = {}
  /\ \A t \in Threads : pc[t] = "inner" => left[t] # {}
  /\ \A t \in Threads : pc[t] = "drain" => lines[t] # <<>>

\* A token for each test under way, never more than the channel holds; results where
\* tests have been; one scan, whose resolvers the goroutines are for.
PoolInv ==
  /\ sem = Cardinality({p \in Positions : worker[p] \in {"testing", "tested"}})
  /\ sem <= concurrency
  /\ \A p \in Positions : results[p] # None <=> worker[p] \in {"tested", "done"}
  /\ \A p \in Positions : results[p] # None => results[p].of = p
  /\ pool # "wait" => \A p \in Positions : worker[p] \in {"none", "done"}
  /\ \A t \in Threads : pc[t] \in {"scan", "tests"} => after[t] = "scan"
  /\ \A t, u \in Threads : after[t] = "scan" /\ after[u] = "scan" => t = u
  /\ pool = "idle" <=> \A t \in Threads : pc[t] # "tests"
  /\ \A t \in Threads, p \in Positions : pc[t] = "tests" => (worker[p] # "none" <=> p \in filtered[t])

\* The locks, the filters and the pool agree with where the goroutines are.
IInv == TypeOK /\ LockInv /\ FilterInv /\ FilterIsExact /\ PoolInv

================================================================================
