---------------------------- MODULE GeoRanges_proofs ----------------------------
(***************************************************************************)
(* Proofs about GeoRanges: its inductive invariant, that a filter answers  *)
(* for one state of the ranges, that goroutines stall in no other way than *)
(* the two named, and that a scan is whole.                                *)
(***************************************************************************)
EXTENDS GeoRanges, FiniteSetTheorems, TLAPS

Calling(t) ==
  \/ \E text \in Texts : ImportRangesFromText(t, text)
  \/ Lock(t) \/ AddCountryRanges(t) \/ ImportReturns(t)
  \/ \E cs \in SUBSET Countries, call \in {"filter", "scan"} :
       FilterResolversByCountry(t, cs, call)
  \/ RLockAgain(t) \/ LookUp(t) \/ FilterReturns(t)
  \/ ScanNothing(t) \/ (\E c \in Concurrencies : ScanResolversInCountry(t, c))
  \/ ScanReturns(t)

\* The next-state relation by actor.
LEMMA NextByActor == Next => (\E t \in Threads : Calling(t)) \/ (PoolNext /\ UNCHANGED geoVars)
BY DEF Next, Calling

LEMMA InitIInv == Init => IInv
<1> SUFFICES ASSUME Init PROVE IInv
  OBVIOUS
<1> USE GeoAssumption
<1>1. TypeOK
  BY DEF Init, PoolInit, TypeOK
<1>2. LockInv /\ FilterInv /\ FilterIsExact
  BY DEF Init, LockInv, FilterInv, FilterIsExact, Reads
<1>3. {p \in Positions : worker[p] \in {"testing", "tested"}} = {}
  BY DEF Init, PoolInit
<1>4. PoolInv
  <2>1. sem = Cardinality({p \in Positions : worker[p] \in {"testing", "tested"}})
    BY <1>3, FS_EmptySet DEF Init, PoolInit
  <2> QED
    BY <2>1 DEF Init, PoolInit, PoolInv
<1> QED
  BY <1>1, <1>2, <1>4 DEF IInv

--------------------------------------------------------------------------------
(* Types.                                                                  *)

\* The lock operations keep the types of the lock.
LEMMA LockTypes ==
  ASSUME TypeOK, LockInv, NEW t \in Threads
  PROVE  /\ RLock(t) \/ Unlock => readers' \in [Threads -> Nat] /\ rwait' \in SUBSET Threads
                                  /\ pending' \in Threads \cup {None}
         /\ pc[t] \in {"outer", "inner"} /\ t \notin rwait /\ RUnlock(t) =>
              readers' \in [Threads -> Nat] /\ rwait' \in SUBSET Threads
              /\ pending' \in Threads \cup {None}
<1>1. RLock(t) => readers' \in [Threads -> Nat] /\ rwait' \in SUBSET Threads
                  /\ pending' \in Threads \cup {None}
  <2>1. readers \in [Threads -> Nat] /\ rwait \in SUBSET Threads /\ pending \in Threads \cup {None}
    BY DEF TypeOK
  <2>2. CASE pending = None
    BY <2>1, <2>2 DEF RLock
  <2>3. CASE pending # None
    BY <2>1, <2>3 DEF RLock
  <2> QED
    BY <2>2, <2>3
<1>2. Unlock => readers' \in [Threads -> Nat] /\ rwait' \in SUBSET Threads
                /\ pending' \in Threads \cup {None}
  BY DEF Unlock, TypeOK
<1>3. ASSUME pc[t] \in {"outer", "inner"}, t \notin rwait, RUnlock(t)
      PROVE  readers' \in [Threads -> Nat] /\ rwait' \in SUBSET Threads
             /\ pending' \in Threads \cup {None}
  <2>1. readers[t] \in {1, 2}
    BY <1>3 DEF LockInv
  <2> QED
    BY <2>1, <1>3 DEF RUnlock, TypeOK
<1> QED
  BY <1>1, <1>2, <1>3

\* The two ways a filter ends.
LEMMA FilterEnds ==
  ASSUME TypeOK, NEW t \in Threads, FilterReturns(t)
  PROVE  /\ pc[t] = "outer" /\ t \notin rwait /\ RUnlock(t)
         /\ UNCHANGED <<countryRanges, lines, poolVars>>
         /\ pc' = [pc EXCEPT ![t] = IF after[t] = "scan" THEN "scan" ELSE "idle"]
         /\ after[t] = "scan" => UNCHANGED filterVars
         /\ after[t] # "scan" => CallReturns(t)
<1>1. CASE after[t] = "scan"
  BY <1>1 DEF FilterReturns, Goto
<1>2. CASE after[t] # "scan"
  BY <1>2 DEF FilterReturns, CallReturns, Goto
<1> QED
  BY <1>1, <1>2

LEMMA TypeThread ==
  ASSUME IInv, NEW t \in Threads, Calling(t)
  PROVE  TypeOK'
<1> USE GeoAssumption DEF IInv, filterVars, poolVars, Goto, CallReturns
<1>1. CASE \E text \in Texts : ImportRangesFromText(t, text)
  BY <1>1 DEF ImportRangesFromText, TypeOK, lockVars
<1>2. CASE Lock(t)
  BY <1>2 DEF Lock, TypeOK
<1>3. CASE AddCountryRanges(t)
  <2>1. lines[t] # <<>>
    BY <1>3 DEF AddCountryRanges, FilterInv
  <2>2. /\ Head(lines[t]) \in Entries /\ Tail(lines[t]) \in Seq(Entries) /\ <<>> \in Seq(Entries)
    BY <2>1 DEF TypeOK
  <2>3. Head(lines[t]).country \in Countries /\ Head(lines[t]).ranges \in SUBSET Cidrs
    BY <2>2 DEF Entries
  <2>4. countryRanges' \in [Countries -> SUBSET Cidrs] /\ lines' \in [Threads -> Seq(Entries)]
    BY <1>3, <2>2, <2>3 DEF AddCountryRanges, TypeOK
  <2> QED
    BY <1>3, <2>4, LockTypes DEF AddCountryRanges, TypeOK
<1>4. CASE ImportReturns(t)
  BY <1>4 DEF ImportReturns, TypeOK, lockVars
<1>5. CASE \E cs \in SUBSET Countries, call \in {"filter", "scan"} :
             FilterResolversByCountry(t, cs, call)
  <2>1. PICK cs \in SUBSET Countries, call \in {"filter", "scan"} :
               FilterResolversByCountry(t, cs, call)
    BY <1>5
  <2>2. {Upper[c] : c \in cs} \in SUBSET Countries
    OBVIOUS
  <2>3. countrySet' \in [Threads -> SUBSET Countries]
    BY <2>1, <2>2 DEF FilterResolversByCountry, TypeOK
  <2> QED
    BY <2>1, <2>3, LockTypes DEF FilterResolversByCountry, TypeOK
<1>6. CASE RLockAgain(t)
  BY <1>6, LockTypes DEF RLockAgain, TypeOK
<1>7. CASE LookUp(t)
  BY <1>7, LockTypes DEF LookUp, TypeOK
<1>8. CASE FilterReturns(t)
  <2>1. readers' \in [Threads -> Nat] /\ rwait' \in SUBSET Threads
        /\ pending' \in Threads \cup {None}
    BY <1>8, LockTypes DEF FilterReturns
  <2>2. /\ countrySet' \in [Threads -> SUBSET Countries] /\ left' \in [Threads -> SUBSET Positions]
        /\ filtered' \in [Threads -> SUBSET Positions] /\ after' \in [Threads -> {"none", "filter", "scan"}]
    <3>1. CASE after[t] = "scan"
      BY <1>8, <3>1, FilterEnds DEF TypeOK
    <3>2. CASE after[t] # "scan"
      <4>1. CallReturns(t)
        BY <1>8, <3>2, FilterEnds
      <4> QED
        BY <4>1 DEF TypeOK
    <3> QED
      BY <3>1, <3>2
  <2>3. pc' \in [Threads -> {"idle", "import", "drain", "outer", "inner", "scan", "tests"}]
    BY <1>8, FilterEnds DEF TypeOK
  <2>4. UNCHANGED <<countryRanges, lines, poolVars>>
    BY <1>8, FilterEnds
  <2> QED
    BY <2>1, <2>2, <2>3, <2>4 DEF TypeOK
<1>9. CASE ScanNothing(t)
  BY <1>9 DEF ScanNothing, TypeOK, lockVars
<1>10. CASE \E c \in Concurrencies : ScanResolversInCountry(t, c)
  BY <1>10 DEF ScanResolversInCountry, StartPool, TypeOK, lockVars
<1>11. CASE ScanReturns(t)
  BY <1>11 DEF ScanReturns, PoolReturns, TypeOK, lockVars
<1> QED
  BY <1>1, <1>2, <1>3, <1>4, <1>5, <1>6, <1>7, <1>8, <1>9, <1>10, <1>11 DEF Calling

--------------------------------------------------------------------------------
(* The lock and the filters.                                               *)

LEMMA LockThread ==
  ASSUME IInv, NEW t \in Threads, Calling(t)
  PROVE  LockInv'
<1> USE GeoAssumption DEF IInv, TypeOK, LockInv, Reads, filterVars, Goto, CallReturns
<1>1. CASE \E text \in Texts : ImportRangesFromText(t, text)
  BY <1>1 DEF ImportRangesFromText, lockVars
<1>2. CASE Lock(t)
  BY <1>2 DEF Lock
<1>3. CASE AddCountryRanges(t)
  BY <1>3 DEF AddCountryRanges, Unlock
<1>4. CASE ImportReturns(t)
  BY <1>4 DEF ImportReturns, lockVars
<1>5. CASE \E cs \in SUBSET Countries, call \in {"filter", "scan"} :
             FilterResolversByCountry(t, cs, call)
  BY <1>5 DEF FilterResolversByCountry, RLock
<1>6. CASE RLockAgain(t)
  BY <1>6 DEF RLockAgain, RLock
<1>7. CASE LookUp(t)
  BY <1>7 DEF LookUp, RUnlock
<1>8. CASE FilterReturns(t)
  <2>1. /\ pc[t] = "outer" /\ t \notin rwait /\ UNCHANGED <<pending, rwait>>
        /\ readers' = [readers EXCEPT ![t] = readers[t] - 1]
        /\ pc' = [pc EXCEPT ![t] = IF after[t] = "scan" THEN "scan" ELSE "idle"]
    BY <1>8, FilterEnds DEF RUnlock
  <2>2. pc'[t] \in {"idle", "scan"} /\ \A u \in Threads \ {t} : pc'[u] = pc[u]
    BY <2>1
  <2>3. readers'[t] = 0 /\ \A u \in Threads \ {t} : readers'[u] = readers[u]
    BY <2>1
  <2> HIDE DEF IInv, TypeOK
  <2>4. LockInv
    BY DEF IInv
  <2>5. \A u \in Threads : pending' = u <=> pc'[u] = "drain"
    BY <2>1, <2>2, <2>4
  <2> QED
    BY <2>1, <2>2, <2>3, <2>4, <2>5
<1>9. CASE ScanNothing(t)
  BY <1>9 DEF ScanNothing, lockVars
<1>10. CASE \E c \in Concurrencies : ScanResolversInCountry(t, c)
  BY <1>10 DEF ScanResolversInCountry, lockVars
<1>11. CASE ScanReturns(t)
  BY <1>11 DEF ScanReturns, lockVars
<1> QED
  BY <1>1, <1>2, <1>3, <1>4, <1>5, <1>6, <1>7, <1>8, <1>9, <1>10, <1>11 DEF Calling

\* A step that leaves the ranges and the filters of others alone, and the lookups of
\* its own.
LEMMA ExactFrame ==
  ASSUME FilterIsExact, NEW t \in Threads, UNCHANGED countryRanges,
         \A u \in Threads \ {t} : pc'[u] = pc[u] /\ countrySet'[u] = countrySet[u]
                                  /\ left'[u] = left[u] /\ filtered'[u] = filtered[u],
         Reads(t)' => filtered'[t] = {p \in Positions \ left'[t] : InCountries(p, countrySet'[t])}
  PROVE  FilterIsExact'
BY DEF FilterIsExact, Reads, InCountries, GetCountriesForIP

LEMMA ExactThread ==
  ASSUME IInv, NEW t \in Threads, Calling(t)
  PROVE  FilterIsExact'
<1> USE DEF IInv
<1>1. CASE AddCountryRanges(t)
  <2>1. ASSUME NEW u \in Threads, Reads(u)' PROVE filtered'[u] = {} /\ left'[u] = Positions
    <3>1. Reads(u) /\ readers[u] = 0 /\ u # t
      BY <1>1, <2>1 DEF AddCountryRanges, Goto, Reads, TypeOK
    <3>2. pc[u] = "outer" /\ u \in rwait
      BY <3>1 DEF LockInv, Reads
    <3> QED
      BY <3>2, <1>1 DEF FilterInv, AddCountryRanges, filterVars
  <2> QED
    BY <2>1 DEF FilterIsExact
<1>2. CASE \E cs \in SUBSET Countries, call \in {"filter", "scan"} :
             FilterResolversByCountry(t, cs, call)
  <2>1. filtered'[t] = {} /\ left'[t] = Positions
    BY <1>2 DEF FilterResolversByCountry, TypeOK
  <2> QED
    BY <1>2, <2>1, ExactFrame DEF FilterResolversByCountry, TypeOK, Goto
<1>3. CASE LookUp(t)
  <2>1. PICK p \in left[t] :
          /\ left' = [left EXCEPT ![t] = @ \ {p}]
          /\ filtered' = [filtered EXCEPT ![t] =
               IF \E c \in GetCountriesForIP(p) : Upper[c] \in countrySet[t] THEN @ \cup {p} ELSE @]
    BY <1>3 DEF LookUp
  <2>2. filtered[t] = {q \in Positions \ left[t] : InCountries(q, countrySet[t])}
    BY <1>3 DEF FilterIsExact, LookUp, Reads
  <2>3. left'[t] = left[t] \ {p} /\ p \in Positions
    BY <2>1 DEF TypeOK
  <2>4. filtered'[t] = IF InCountries(p, countrySet[t]) THEN filtered[t] \cup {p} ELSE filtered[t]
    BY <2>1 DEF TypeOK, InCountries
  <2>5. filtered'[t] = {q \in Positions \ left'[t] : InCountries(q, countrySet[t])}
    <3> HIDE DEF IInv
    <3> QED
      BY <2>2, <2>3, <2>4, <2>1
  <2>6. UNCHANGED countryRanges /\ countrySet' = countrySet
    BY <1>3 DEF LookUp
  <2>7. \A u \in Threads \ {t} : pc'[u] = pc[u] /\ left'[u] = left[u] /\ filtered'[u] = filtered[u]
    BY <1>3 DEF LookUp, TypeOK, Goto
  <2>8. filtered'[t] = {q \in Positions \ left'[t] : InCountries(q, countrySet'[t])}
    BY <2>5, <2>6
  <2> QED
    BY <2>6, <2>7, <2>8, ExactFrame
<1>4. CASE \/ \E text \in Texts : ImportRangesFromText(t, text)
           \/ Lock(t) \/ ImportReturns(t)
  BY <1>4, ExactFrame DEF ImportRangesFromText, Lock, ImportReturns, TypeOK, Goto, filterVars, Reads
<1>5. CASE RLockAgain(t)
  <2>1. filtered[t] = {q \in Positions \ left[t] : InCountries(q, countrySet[t])}
    BY <1>5 DEF FilterIsExact, RLockAgain, Reads
  <2> QED
    BY <1>5, <2>1, ExactFrame DEF RLockAgain, TypeOK, Goto, filterVars
<1>6. CASE FilterReturns(t) \/ ScanNothing(t) \/ ScanReturns(t)
           \/ \E c \in Concurrencies : ScanResolversInCountry(t, c)
  <2>1. UNCHANGED countryRanges /\ ~Reads(t)'
    BY <1>6 DEF FilterReturns, ScanNothing, ScanReturns, ScanResolversInCountry, Goto, CallReturns,
                Reads, TypeOK
  <2>2. \A u \in Threads \ {t} : pc'[u] = pc[u] /\ countrySet'[u] = countrySet[u]
                                 /\ left'[u] = left[u] /\ filtered'[u] = filtered[u]
    BY <1>6 DEF FilterReturns, ScanNothing, ScanReturns, ScanResolversInCountry, Goto, CallReturns,
                filterVars, TypeOK
  <2> QED
    BY <2>1, <2>2, ExactFrame
<1> QED
  BY <1>1, <1>2, <1>3, <1>4, <1>5, <1>6 DEF Calling

LEMMA FilterThread ==
  ASSUME IInv, NEW t \in Threads, Calling(t)
  PROVE  FilterInv' 
<1> USE DEF IInv, TypeOK, FilterInv, Goto, CallReturns, filterVars
<1>1. CASE \E text \in Texts : ImportRangesFromText(t, text)
  BY <1>1 DEF ImportRangesFromText, lockVars
<1>2. CASE Lock(t) \/ ImportReturns(t)
  BY <1>2 DEF Lock, ImportReturns, lockVars
<1>3. CASE AddCountryRanges(t)
  BY <1>3 DEF AddCountryRanges, Unlock
<1>5. CASE \E cs \in SUBSET Countries, call \in {"filter", "scan"} :
             FilterResolversByCountry(t, cs, call)
  BY <1>5 DEF FilterResolversByCountry, RLock
<1>6. CASE RLockAgain(t)
  BY <1>6 DEF RLockAgain, RLock
<1>7. CASE LookUp(t)
  <2>1. /\ pc[t] = "inner" /\ t \notin rwait /\ pc' = [pc EXCEPT ![t] = "outer"]
        /\ rwait' = rwait /\ lines' = lines
        /\ \A u \in Threads \ {t} : left'[u] = left[u] /\ filtered'[u] = filtered[u]
    BY <1>7 DEF LookUp, RUnlock
  <2> QED
    BY <2>1
<1>8. CASE FilterReturns(t)
  <2>1. CASE after[t] = "scan"
    <3>1. pc' = [pc EXCEPT ![t] = "scan"] /\ UNCHANGED <<rwait, lines, left, filtered>>
      BY <1>8, <2>1, FilterEnds DEF RUnlock
    <3> QED
      BY <3>1
  <2>2. CASE after[t] # "scan"
    <3>1. CallReturns(t) /\ RUnlock(t) /\ UNCHANGED lines
      BY <1>8, <2>2, FilterEnds
    <3> QED
      BY <3>1 DEF RUnlock
  <2> QED
    BY <2>1, <2>2
<1>9. CASE ScanNothing(t) \/ ScanReturns(t)
  <2>1. CallReturns(t) /\ UNCHANGED <<rwait, lines>>
    BY <1>9 DEF ScanNothing, ScanReturns, lockVars
  <2> QED
    BY <2>1
<1>10. CASE \E c \in Concurrencies : ScanResolversInCountry(t, c)
  BY <1>10 DEF ScanResolversInCountry, lockVars
<1> QED
  BY <1>1, <1>2, <1>3, <1>5, <1>6, <1>7, <1>8, <1>9, <1>10 DEF Calling

--------------------------------------------------------------------------------
(* The pool.                                                               *)

Tokens == {p \in Positions : worker[p] \in {"testing", "tested"}}

LEMMA TokensFinite == IsFiniteSet(Tokens) /\ Cardinality(Tokens) \in Nat
<1>1. Tokens \subseteq Positions /\ IsFiniteSet(Positions)
  BY GeoAssumption DEF Tokens
<1> QED
  BY <1>1, FS_Subset, FS_CardinalityType

LEMMA PoolThread ==
  ASSUME IInv, NEW t \in Threads, Calling(t)
  PROVE  PoolInv'
<1> USE DEF IInv, TypeOK, Goto, CallReturns, filterVars, poolVars
<1>1. CASE UNCHANGED <<pool, concurrency, sem, worker, results, filtered, after>>
           /\ pc'[t] # "tests" /\ pc[t] # "tests" /\ (pc'[t] = "scan" => after[t] = "scan")
           /\ \A u \in Threads \ {t} : pc'[u] = pc[u]
  <2>1. pool' = "idle" <=> \A u \in Threads : pc'[u] # "tests"
    BY <1>1 DEF PoolInv
  <2>2. \A u \in Threads : pc'[u] \in {"scan", "tests"} => after'[u] = "scan"
    BY <1>1 DEF PoolInv
  <2>3. \A u \in Threads, p \in Positions : pc'[u] = "tests" => (worker'[p] # "none" <=> p \in filtered'[u])
    BY <1>1 DEF PoolInv
  <2> HIDE DEF IInv, TypeOK
  <2> QED
    BY <1>1, <2>1, <2>2, <2>3 DEF PoolInv, IInv
<1>2. CASE \/ \E text \in Texts : ImportRangesFromText(t, text)
           \/ Lock(t) \/ AddCountryRanges(t) \/ ImportReturns(t) \/ RLockAgain(t)
  BY <1>1, <1>2 DEF ImportRangesFromText, Lock, AddCountryRanges, ImportReturns, RLockAgain
<1>3. CASE \E cs \in SUBSET Countries, call \in {"filter", "scan"} :
             FilterResolversByCountry(t, cs, call)
  BY <1>3 DEF FilterResolversByCountry, PoolInv
<1>4. CASE LookUp(t)
  BY <1>4 DEF LookUp, PoolInv
<1>5. CASE FilterReturns(t) \/ ScanNothing(t)
  <2>1. CASE FilterReturns(t) /\ after[t] = "scan"
    BY <1>1, <2>1 DEF FilterReturns
  <2>2. CASE FilterReturns(t) /\ after[t] # "scan"
    <3>1. CallReturns(t) /\ pc[t] = "outer" /\ UNCHANGED poolVars
      BY <2>2, FilterEnds
    <3> QED
      BY <3>1, <2>2 DEF PoolInv
  <2>3. CASE ScanNothing(t)
    BY <2>3 DEF ScanNothing, PoolInv
  <2> QED
    BY <1>5, <2>1, <2>2, <2>3
<1>6. CASE \E c \in Concurrencies : ScanResolversInCountry(t, c)
  <2>1. PICK c \in Concurrencies : ScanResolversInCountry(t, c)
    BY <1>6
  <2>2. /\ pool' = "wait" /\ sem' = 0 /\ concurrency' = c /\ c \in Nat
        /\ worker' = [p \in Positions |-> IF p \in filtered[t] THEN "new" ELSE "none"]
        /\ results' = [p \in Positions |-> None]
        /\ pc' = [pc EXCEPT ![t] = "tests"] /\ filtered' = filtered /\ after' = after
        /\ pc[t] = "scan"
    BY <2>1, GeoAssumption DEF ScanResolversInCountry, StartPool
  <2>3. {p \in Positions : worker'[p] \in {"testing", "tested"}} = {}
    BY <2>2
  <2>4. sem' = Cardinality({p \in Positions : worker'[p] \in {"testing", "tested"}})
    BY <2>2, <2>3, FS_EmptySet
  <2>5. /\ \A u \in Threads : pc'[u] \in {"scan", "tests"} => after'[u] = "scan"
        /\ \A u, v \in Threads : after'[u] = "scan" /\ after'[v] = "scan" => u = v
        /\ \A u \in Threads : pc'[u] = "tests" => u = t
    BY <2>2 DEF PoolInv
  <2>6. \A p \in Positions : worker'[p] # "none" <=> p \in filtered'[t]
    BY <2>2
  <2> QED
    BY <2>2, <2>4, <2>5, <2>6 DEF PoolInv
<1>7. CASE ScanReturns(t)
  <2>1. /\ pool = "returned" /\ pool' = "idle" /\ concurrency' = 0 /\ sem' = sem
        /\ worker' = [p \in Positions |-> "none"] /\ results' = [p \in Positions |-> None]
        /\ pc[t] = "tests" /\ pc' = [pc EXCEPT ![t] = "idle"]
        /\ after' = [after EXCEPT ![t] = "none"]
    BY <1>7 DEF ScanReturns, PoolReturns
  <2>2. Tokens = {} /\ {p \in Positions : worker'[p] \in {"testing", "tested"}} = {}
    BY <2>1 DEF Tokens, PoolInv
  <2>3. sem = 0
    BY <2>2, FS_EmptySet DEF PoolInv, Tokens
  <2>4. sem' = Cardinality({p \in Positions : worker'[p] \in {"testing", "tested"}}) /\ sem' <= concurrency'
    <3> HIDE DEF IInv, TypeOK
    <3>1. Cardinality({p \in Positions : worker'[p] \in {"testing", "tested"}}) = 0
      BY <2>2, FS_EmptySet
    <3> QED
      BY <2>1, <2>3, <3>1
  <2>5. /\ \A u \in Threads : pc'[u] \in {"scan", "tests"} => after'[u] = "scan"
        /\ \A u, v \in Threads : after'[u] = "scan" /\ after'[v] = "scan" => u = v
        /\ \A u \in Threads : pc'[u] # "tests"
    BY <2>1 DEF PoolInv
  <2> QED
    BY <2>1, <2>4, <2>5 DEF PoolInv
<1> QED
  BY <1>2, <1>3, <1>4, <1>5, <1>6, <1>7 DEF Calling

\* A step of the pool keeps the types, and all that is said of the pool.
LEMMA PoolStep ==
  ASSUME IInv, PoolNext, UNCHANGED geoVars
  PROVE  TypeOK' /\ PoolInv'
<1> USE TokensFinite DEF IInv
<1>0. sem = Cardinality(Tokens) /\ sem \in Nat /\ concurrency \in Nat
  BY DEF PoolInv, Tokens, TypeOK
<1>1. ASSUME NEW p \in Positions, Acquire(p) PROVE TypeOK' /\ PoolInv'
  <2>1. TypeOK'
    BY <1>1 DEF TypeOK, Acquire, geoVars, lockVars, filterVars
  <2>2. Tokens' = Tokens \cup {p} /\ p \notin Tokens
    BY <1>1 DEF Acquire, TypeOK, Tokens
  <2>3. sem' = Cardinality(Tokens') /\ sem' <= concurrency'
    <3>1. Cardinality(Tokens') = Cardinality(Tokens) + 1
      BY <2>2, FS_AddElement
    <3> QED
      BY <1>0, <1>1, <3>1 DEF Acquire
  <2>4. /\ \A q \in Positions : results'[q] # None <=> worker'[q] \in {"tested", "done"}
        /\ \A q \in Positions : worker'[q] # "none" <=> worker[q] # "none"
        /\ pool = "wait" /\ pool' = pool
    BY <1>1 DEF Acquire, TypeOK, PoolInv
  <2> QED
    BY <1>1, <2>1, <2>3, <2>4 DEF PoolInv, Tokens, Acquire, geoVars, filterVars
<1>2. ASSUME NEW p \in Positions, Test(p) PROVE TypeOK' /\ PoolInv'
  <2>1. PICK r \in Results : results' = [results EXCEPT ![p] = [of |-> p, is |-> r]]
    BY <1>2 DEF Test
  <2>2. [of |-> p, is |-> r] \in [of : Positions, is : Results]
    OBVIOUS
  <2>3. results' \in [Positions -> {None} \cup [of : Positions, is : Results]]
    BY <2>1, <2>2 DEF TypeOK
  <2>4. TypeOK'
    BY <1>2, <2>3 DEF TypeOK, Test, geoVars, lockVars, filterVars
  <2>5. Tokens' = Tokens
    BY <1>2 DEF Test, TypeOK, Tokens
  <2>6. results'[p] # None /\ results'[p].of = p /\ \A q \in Positions \ {p} : results'[q] = results[q]
    BY <2>1, <2>2, GeoAssumption DEF TypeOK
  <2>7. /\ worker' = [worker EXCEPT ![p] = "tested"] /\ worker[p] = "testing"
        /\ UNCHANGED <<pool, concurrency, sem, pc, after, filtered>>
    BY <1>2 DEF Test, geoVars, filterVars
  <2>8. /\ worker'[p] = "tested"
        /\ \A q \in Positions \ {p} : worker'[q] = worker[q]
    BY <2>7 DEF TypeOK
  <2>9. pool = "wait"
    BY <2>7 DEF PoolInv
  <2>10. /\ \A q \in Positions : results'[q] # None <=> worker'[q] \in {"tested", "done"}
         /\ \A q \in Positions : results'[q] # None => results'[q].of = q
         /\ \A q \in Positions : worker'[q] # "none" <=> worker[q] # "none"
    <3> HIDE DEF IInv
    <3>1. /\ \A q \in Positions : results[q] # None <=> worker[q] \in {"tested", "done"}
          /\ \A q \in Positions : results[q] # None => results[q].of = q
      BY DEF IInv, PoolInv
    <3> QED
      BY <2>6, <2>7, <2>8, <3>1
  <2>11. sem' = Cardinality(Tokens') /\ sem' <= concurrency'
    BY <2>5, <2>7, <1>0 DEF PoolInv
  <2> QED
    BY <2>4, <2>7, <2>9, <2>10, <2>11 DEF PoolInv, Tokens
<1>3. ASSUME NEW p \in Positions, Release(p) PROVE TypeOK' /\ PoolInv'
  <2>1. Tokens' = Tokens \ {p} /\ p \in Tokens
    BY <1>3 DEF Release, TypeOK, Tokens
  <2>2. Cardinality(Tokens') = Cardinality(Tokens) - 1 /\ Cardinality(Tokens) # 0
    BY <2>1, FS_RemoveElement, FS_EmptySet
  <2>3. sem' = Cardinality(Tokens') /\ sem' \in Nat /\ sem' <= concurrency'
    BY <1>0, <1>3, <2>2 DEF Release, PoolInv
  <2>4. TypeOK'
    BY <1>3, <2>3 DEF TypeOK, Release, geoVars, lockVars, filterVars
  <2>5. /\ \A q \in Positions : results'[q] # None <=> worker'[q] \in {"tested", "done"}
        /\ \A q \in Positions : worker'[q] # "none" <=> worker[q] # "none"
        /\ pool = "wait" /\ pool' = pool
    BY <1>3 DEF Release, TypeOK, PoolInv
  <2> QED
    BY <1>3, <2>3, <2>4, <2>5 DEF PoolInv, Tokens, Release, geoVars, filterVars
<1>4. CASE Wait
  <2>1. TypeOK'
    BY <1>4 DEF TypeOK, Wait, geoVars, lockVars, filterVars
  <2> QED
    BY <1>4, <2>1 DEF Wait, PoolInv, geoVars, filterVars
<1> QED
  BY <1>1, <1>2, <1>3, <1>4 DEF PoolNext

--------------------------------------------------------------------------------
LEMMA StepIInv == IInv /\ [Next]_vars => IInv'
<1> SUFFICES ASSUME IInv, [Next]_vars PROVE IInv'
  OBVIOUS
<1>1. ASSUME NEW t \in Threads, Calling(t) PROVE IInv'
  BY <1>1, TypeThread, LockThread, FilterThread, ExactThread, PoolThread DEF IInv
<1>2. CASE PoolNext /\ UNCHANGED geoVars
  <2>1. LockInv' /\ FilterInv' /\ FilterIsExact'
    BY <1>2 DEF IInv, LockInv, FilterInv, FilterIsExact, Reads, InCountries, GetCountriesForIP,
                geoVars, lockVars, filterVars
  <2> QED
    BY <1>2, <2>1, PoolStep DEF IInv
<1>3. CASE UNCHANGED vars
  BY <1>3 DEF IInv, TypeOK, LockInv, FilterInv, FilterIsExact, PoolInv, Reads, InCountries,
              GetCountriesForIP, vars, geoVars, lockVars, filterVars, poolVars
<1> QED
  BY <1>1, <1>2, <1>3, NextByActor

\* The invariant of the run holds in every instance.
THEOREM Inductive == Spec => []IInv
<1> QED
  BY InitIInv, StepIInv, PTL DEF Spec

\* A filter answers for one state of the ranges, however many goroutines write them.
THEOREM FiltersAreExact == Spec => []FilterIsExact
<1>1. IInv => FilterIsExact
  BY DEF IInv
<1> QED
  BY <1>1, Inductive, PTL

\* Whatever the goroutines are waiting for, a nested read lock or a scan without
\* concurrency is at the bottom of it.
THEOREM NestingIsTheOnlyStall == Spec => []OnlyNestingStalls
<1>1. IInv => OnlyNestingStalls
  <2> SUFFICES ASSUME IInv, \A t \in Threads : Busy(t) => Blocked(t),
                      NEW t \in Threads, Busy(t), ~Nested, ~(pool = "wait" /\ concurrency = 0)
               PROVE  FALSE
    BY DEF OnlyNestingStalls
  <2>1. ~PoolBlocked
    <3> SUFFICES ASSUME PoolBlocked PROVE FALSE
      OBVIOUS
    <3>1. Tokens = {}
      BY DEF PoolBlocked, Tokens
    <3>2. sem = 0 /\ concurrency = 0
      <4>1. sem = Cardinality(Tokens) /\ sem >= concurrency /\ concurrency \in Nat
        BY DEF IInv, PoolInv, TypeOK, Tokens, PoolBlocked
      <4>2. Cardinality(Tokens) = 0
        BY <3>1, FS_EmptySet
      <4> QED
        BY <4>1, <4>2
    <3> QED
      BY <3>2 DEF PoolBlocked
  <2>2. CASE pending = None
    BY <2>1, <2>2, GeoAssumption DEF Blocked, IInv, LockInv
  <2>3. CASE pending # None
    <3>1. PICK w \in Threads : pending = w
      BY <2>3 DEF IInv, TypeOK
    <3>2. pc[w] = "drain"
      BY <3>1 DEF IInv, LockInv
    <3>3. PICK r \in Threads : readers[r] > 0
      BY <3>2 DEF Busy, Blocked, Reads
    <3>4. pc[r] \in {"outer", "inner"}
      BY <3>3 DEF IInv, TypeOK, LockInv
    <3>5. r \in rwait
      BY <3>4 DEF Busy, Blocked, Reads
    <3> QED
      BY <3>3, <3>5 DEF Nested, IInv, TypeOK
  <2> QED
    BY <2>2, <2>3
<1> QED
  BY <1>1, Inductive, PTL

\* In whatever order the tests end, a scan returns one result per resolver of the
\* country: none is missing, none is there twice.
THEOREM ScansAreWhole == Spec => []ScanIsWhole
<1>1. IInv => ScanIsWhole
  <2> SUFFICES ASSUME IInv, NEW t \in Threads, pc[t] = "tests", pool = "returned"
               PROVE  /\ \A p \in filtered[t] : \E q \in Returned : results[q].of = p
                      /\ \A q \in Returned : results[q].of \in filtered[t]
                      /\ \A p, q \in Returned : results[p].of = results[q].of => p = q
    BY DEF ScanIsWhole
  <2>1. \A q \in Returned : results[q].of = q
    BY DEF Returned, IInv, PoolInv
  <2>2. filtered[t] \subseteq Positions
    BY DEF IInv, TypeOK
  <2>3. \A p \in Positions : p \in filtered[t] <=> p \in Returned
    BY DEF Returned, IInv, PoolInv
  <2>4. Returned = filtered[t]
    BY <2>2, <2>3 DEF Returned
  <2> QED
    BY <2>1, <2>4
<1> QED
  BY <1>1, Inductive, PTL

\* On every network what a result says of the tunnel agrees with its error.
THEOREM EveryReportAgrees == Spec => []ReportsAgree
<1>1. \A r \in Results : /\ r.error = "" <=> r.reachable /\ r.resolves /\ r.tunnel
                         /\ r.tunnel => r.reachable /\ 2 * r.lost <= totalCount
  <2> SUFFICES ASSUME NEW net \in Nets
               PROVE  LET r == TestResolver(net)
                      IN  /\ r.error = "" <=> r.reachable /\ r.resolves /\ r.tunnel
                          /\ r.tunnel => r.reachable /\ 2 * r.lost <= totalCount
    BY DEF Results
  <2> DEFINE T == testTunnelTransmission(net)
  <2>1. T.ok => 2 * T.lost <= totalCount
    <3>1. net.answered \subseteq 1..totalCount
      BY NetsAssumption DEF NetType
    <3>0. IsFiniteSet(1..totalCount)
      <4>1. 1 \in Int /\ totalCount \in Int
        BY DEF totalCount
      <4> QED
        BY <4>1, FS_Interval
    <3>2. Cardinality(net.answered) \in Nat
      BY <3>0, <3>1, FS_Subset, FS_CardinalityType
    <3> QED
      BY <3>2 DEF testTunnelTransmission, totalCount
  <2>2. T.ok \in BOOLEAN
    BY DEF testTunnelTransmission
  <2> HIDE DEF T
  <2>3. CASE testReachability(net)
    BY <2>1, <2>2, <2>3 DEF TestResolver, T
  <2>4. CASE ~testReachability(net)
    BY <2>4 DEF TestResolver
  <2> QED
    BY <2>3, <2>4
<1>2. IInv => \A p \in Positions : results[p] # None => results[p].is \in Results
  BY DEF IInv, TypeOK
<1>3. IInv => ReportsAgree
  BY <1>1, <1>2 DEF ReportsAgree
<1> QED
  BY <1>3, Inductive, PTL

--------------------------------------------------------------------------------
\* EDNSScore ranks a resolver that answers nothing above one that does answer, without
\* EDNS and for names that are not there: it never learns that nothing came back.
THEOREM SilenceScoresFour ==
  ASSUME NEW net \in NetType
  PROVE  /\ ~net.udp \/ (net.edns = "none" /\ net.nx = "none") => EDNSScore(net) = 4
         /\ net.udp /\ net.edns = "plain" /\ net.nx = "answers" => EDNSScore(net) = 2
<1>1. ~net.udp \/ (net.edns = "none" /\ net.nx = "none") =>
        ~testEDNSSupport(net) /\ ~checkNXDOMAINHijacking(net)
  BY DEF testEDNSSupport, checkNXDOMAINHijacking
<1>2. net.udp /\ net.edns = "plain" /\ net.nx = "answers" =>
        ~testEDNSSupport(net) /\ checkNXDOMAINHijacking(net)
  BY DEF testEDNSSupport, checkNXDOMAINHijacking
<1>3. ASSUME ~testEDNSSupport(net)
      PROVE  EDNSScore(net) = IF checkNXDOMAINHijacking(net) THEN 2 ELSE 4
  BY <1>3 DEF EDNSScore, ProbeEDNS
<1> QED
  BY <1>1, <1>2, <1>3

================================================================================
