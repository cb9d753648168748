---------------------------- MODULE AppBlocs_proofs ----------------------------
(***************************************************************************)
(* Proofs for two blocs of the app, which share their lemmas on lists.     *)
(*                                                                         *)
(* DnsScanner, for every number of overlapping scans, resolvers and        *)
(* protocols: IInv is inductive, the properties of the screen are parts of *)
(* it, and a scan that ends without a stop has tried everything.           *)
(*                                                                         *)
(* ProfileBloc, for every set of ids and contents and every number of      *)
(* events, failed writes and restarts: ProfilesInv is inductive, and what  *)
(* is shown, kept and deleted follows from it.                             *)
(***************************************************************************)
EXTENDS DnsScanner, ProfileBloc, SequenceTheorems, FiniteSetTheorems,
        WellFoundedInduction, TLAPS

Protocols == {"udp", "tcp", "doh", "dot"}

--------------------------------------------------------------------------------
(* Sequences.                                                              *)

\* An appended element is the last one and leaves the others where they are.
LEMMA Appended ==
  ASSUME NEW S, NEW q \in Seq(S), NEW x \in S
  PROVE  /\ Append(q, x) \in Seq(S)
         /\ Len(q) \in Nat
         /\ DOMAIN q = 1..Len(q)
         /\ Len(Append(q, x)) = Len(q) + 1
         /\ DOMAIN Append(q, x) = 1..(Len(q) + 1)
         /\ \A i \in DOMAIN q : Append(q, x)[i] = q[i]
         /\ Append(q, x)[Len(q) + 1] = x
  BY AppendProperties, LenProperties

\* Behind the first element the others follow in their order.
LEMMA Taken ==
  ASSUME NEW S, NEW q \in Seq(S), q # <<>>
  PROVE  /\ Head(q) \in S /\ Head(q) = q[1] /\ 1 \in DOMAIN q
         /\ Tail(q) \in Seq(S)
         /\ Len(q) \in Nat /\ Len(q) > 0
         /\ DOMAIN q = 1..Len(q)
         /\ Len(Tail(q)) = Len(q) - 1
         /\ DOMAIN Tail(q) = 1..(Len(q) - 1)
         /\ \A i \in DOMAIN Tail(q) : Tail(q)[i] = q[i + 1]
         /\ Tail(q) = <<>> <=> Len(q) = 1
<1>1. /\ Len(q) \in Nat /\ DOMAIN q = 1..Len(q) /\ Len(q) # 0
  BY LenProperties, EmptySeq
<1>2. /\ Head(q) \in S /\ Head(q) = q[1] /\ Tail(q) \in Seq(S)
      /\ Len(Tail(q)) = Len(q) - 1
      /\ \A i \in 1..Len(Tail(q)) : Tail(q)[i] = q[i + 1]
  BY HeadTailProperties
<1>3. DOMAIN Tail(q) = 1..(Len(q) - 1)
  BY <1>2, LenProperties
<1>4. Tail(q) = <<>> <=> Len(Tail(q)) = 0
  BY <1>2, EmptySeq
<1> QED
  BY <1>1, <1>2, <1>3, <1>4

\* A list of the screen is not empty and names no resolver twice.
LEMMA ListsAreInjective ==
  ASSUME NEW list \in Lists
  PROVE  /\ list \in Seq(Resolvers) /\ list # <<>>
         /\ Len(list) \in Nat \ {0} /\ DOMAIN list = 1..Len(list)
         /\ IsInjective(list)
<1>1. PICK S \in (SUBSET Resolvers) \ {{}} : list \in SetToSeqs(S)
  BY DEF Lists
<1>2. IsFiniteSet(S) /\ S # {} /\ S \subseteq Resolvers
  BY <1>1, OffersAssumption, FS_Subset
<1>3. Cardinality(S) \in Nat
  BY <1>2, FS_CardinalityType
<1>4. Cardinality(S) # 0
  BY <1>2, FS_EmptySet
<1>5. /\ list \in [1..Cardinality(S) -> S]
      /\ \A i, j \in 1..Cardinality(S) : i # j => list[i] # list[j]
  BY <1>1 DEF SetToSeqs
<1>6. list \in Seq(Resolvers)
  BY <1>2, <1>3, <1>5
<1>7. Len(list) = Cardinality(S) /\ DOMAIN list = 1..Cardinality(S)
  BY <1>3, <1>5
<1>8. IsInjective(list)
  BY <1>5, <1>7 DEF IsInjective
<1> QED
  BY <1>3, <1>4, <1>6, <1>7, <1>8, EmptySeq

--------------------------------------------------------------------------------
(* What IInv says of one activation that is alive.                         *)

Sound(s) == Unfinished(s) /\ IsInjective(scan[s].list)

\* The fields of an activation that is alive have their types.
LEMMA AliveTypes ==
  ASSUME IInv, NEW s \in Scans, Alive(s)
  PROVE  /\ scan[s] \in Activation
         /\ scan[s].list \in Seq(Resolvers) /\ scan[s].todo \in Seq(Resolvers)
         /\ scan[s].found \in Seq(Result)
         /\ scan[s].offer \in Seq(Protocols) /\ scan[s].left \in Seq(Protocols)
         /\ scan[s].verify \in 0..MaxPorts /\ scan[s].ports \in 0..MaxPorts
         /\ Sound(s)
  BY DEF IInv, TypeOK, Activation, Sound, Protocols

\* An activation that is not touched stays as it was.
LEMMA OthersStay ==
  ASSUME IInv, NEW s \in Scans, NEW new, scan' = [scan EXCEPT ![s] = new]
  PROVE  /\ scan'[s] = new
         /\ \A t \in Scans : t # s => /\ scan'[t] = scan[t]
                                      /\ Alive(t)' <=> Alive(t)
                                      /\ Sound(t)' <=> Sound(t)
  BY DEF IInv, TypeOK, Alive, Sound, Unfinished

LEMMA IdleIsActivation == Idle \in Activation
  BY OffersAssumption DEF Idle, Activation

--------------------------------------------------------------------------------
(* The steps.                                                              *)

\* What a scan has found and has to do when one more resolver is through.
Found(s, success) ==
  Append(scan[s].found, [resolver |-> Head(scan[s].todo), success |-> success])
Rest(s) == Tail(scan[s].todo)

\* The result of one more resolver extends what was found along the list.
LEMMA FoundGrows ==
  ASSUME IInv, NEW s \in Scans, Alive(s), NEW success \in BOOLEAN,
         NEW found, found = Found(s, success), NEW rest, rest = Rest(s)
  PROVE  /\ found \in Seq(Result) /\ rest \in Seq(Resolvers)
         /\ Len(found) \in Nat /\ Len(scan[s].list) \in Nat \ {0}
         /\ DOMAIN found = 1..Len(found)
         /\ Len(found) + Len(rest) = Len(scan[s].list)
         /\ \A i \in DOMAIN found : found[i].resolver = scan[s].list[i]
         /\ \A i \in DOMAIN rest : rest[i] = scan[s].list[Len(found) + i]
         /\ \A i, j \in DOMAIN found : found[i].resolver = found[j].resolver => i = j
<1> DEFINE list == scan[s].list
           old  == scan[s].found
           todo == scan[s].todo
           new  == [resolver |-> Head(todo), success |-> success]
<1>1. /\ list \in Seq(Resolvers) /\ old \in Seq(Result) /\ todo \in Seq(Resolvers)
      /\ todo # <<>> /\ Len(old) + Len(todo) = Len(list)
      /\ \A i \in DOMAIN old : old[i].resolver = list[i]
      /\ \A i \in DOMAIN todo : todo[i] = list[Len(old) + i]
      /\ IsInjective(list)
  BY AliveTypes DEF Sound, Unfinished
<1>2. found = Append(old, new) /\ rest = Tail(todo)
  BY DEF Found, Rest
<1> HIDE DEF list, old, todo
<1>3. /\ Head(todo) \in Resolvers /\ Head(todo) = todo[1] /\ 1 \in DOMAIN todo
      /\ Tail(todo) \in Seq(Resolvers) /\ Len(todo) \in Nat /\ Len(todo) > 0
      /\ DOMAIN todo = 1..Len(todo)
      /\ Len(Tail(todo)) = Len(todo) - 1 /\ DOMAIN Tail(todo) = 1..(Len(todo) - 1)
      /\ \A i \in DOMAIN Tail(todo) : Tail(todo)[i] = todo[i + 1]
  BY <1>1, Taken
<1>4. new \in Result /\ new.resolver = todo[1]
  BY <1>3 DEF Result, new
<1> HIDE DEF new
<1>5. /\ Append(old, new) \in Seq(Result) /\ Len(old) \in Nat /\ DOMAIN old = 1..Len(old)
      /\ Len(Append(old, new)) = Len(old) + 1
      /\ DOMAIN Append(old, new) = 1..(Len(old) + 1)
      /\ \A i \in DOMAIN old : Append(old, new)[i] = old[i]
      /\ Append(old, new)[Len(old) + 1] = new
  BY <1>1, <1>4, Appended
<1>13. /\ rest \in Seq(Resolvers) /\ Len(rest) = Len(todo) - 1
       /\ DOMAIN rest = 1..(Len(todo) - 1)
       /\ \A i \in DOMAIN rest : rest[i] = todo[i + 1]
  BY <1>2, <1>3
<1>14. /\ found \in Seq(Result) /\ Len(found) = Len(old) + 1
       /\ DOMAIN found = 1..(Len(old) + 1)
       /\ \A i \in DOMAIN old : found[i] = old[i]
       /\ found[Len(old) + 1] = new
  BY <1>2, <1>5
<1>6. Len(list) \in Nat /\ DOMAIN list = 1..Len(list)
  BY <1>1, LenProperties
<1>7. todo[1] = list[Len(old) + 1]
  BY <1>1, <1>3
<1>8. \A i \in DOMAIN found : found[i].resolver = list[i]
  <2> TAKE i \in DOMAIN found
  <2>1. CASE i = Len(old) + 1
    BY <2>1, <1>4, <1>14, <1>7
  <2>2. CASE i # Len(old) + 1
    <3>1. i \in DOMAIN old
      BY <2>2, <1>5, <1>14
    <3> QED
      BY <3>1, <1>1, <1>14
  <2> QED
    BY <2>1, <2>2
<1>9. \A i \in DOMAIN rest : rest[i] = list[Len(found) + i]
  <2> TAKE i \in DOMAIN rest
  <2>1. i \in Nat /\ i + 1 \in DOMAIN todo /\ rest[i] = todo[i + 1]
    BY <1>3, <1>13
  <2>2. todo[i + 1] = list[Len(old) + (i + 1)]
    BY <2>1, <1>1
  <2>3. Len(old) + (i + 1) = Len(found) + i
    BY <2>1, <1>5, <1>14
  <2> QED
    BY <2>1, <2>2, <2>3
<1>10. DOMAIN found \subseteq DOMAIN list
  BY <1>1, <1>3, <1>5, <1>6, <1>14
<1>11. \A i, j \in DOMAIN found : found[i].resolver = found[j].resolver => i = j
  <2> TAKE i, j \in DOMAIN found
  <2>1. found[i].resolver = list[i] /\ found[j].resolver = list[j]
    BY <1>8
  <2>2. i \in DOMAIN list /\ j \in DOMAIN list
    BY <1>10
  <2>3. list[i] = list[j] => i = j
    BY <2>2, <1>1 DEF IsInjective
  <2> QED
    BY <2>1, <2>3
<1>12. Len(list) # 0 /\ Len(found) + Len(rest) = Len(list)
  <2>1. /\ Len(old) + Len(todo) = Len(list) /\ Len(found) = Len(old) + 1
        /\ Len(rest) = Len(todo) - 1
    BY <1>1, <1>13, <1>14
  <2>2. Len(old) \in Nat /\ Len(todo) \in Nat /\ Len(todo) > 0 /\ Len(list) \in Nat
    BY <1>3, <1>5, <1>6
  <2> QED
    BY <2>1, <2>2
<1>15. Len(found) \in Nat /\ DOMAIN found = 1..Len(found)
  BY <1>5, <1>14
<1>16. /\ Len(found) + Len(rest) = Len(scan[s].list) /\ Len(scan[s].list) \in Nat \ {0}
       /\ \A i \in DOMAIN found : found[i].resolver = scan[s].list[i]
       /\ \A i \in DOMAIN rest : rest[i] = scan[s].list[Len(found) + i]
  BY <1>6, <1>8, <1>9, <1>12 DEF list
<1> QED
  BY <1>11, <1>13, <1>14, <1>15, <1>16

\* A scan that ends leaves the screen without one, or others go on and
\* overlap is true.
LEMMA FinishKeepsIt ==
  ASSUME IInv, NEW s \in Scans, Alive(s), Finish(s), UNCHANGED <<_cancelled, overlap>>,
         results' \in Seq(Result), NoResolverTwice'
  PROVE  IInv'
<1>1. scan' = [scan EXCEPT ![s] = Idle] /\ isScanning' = FALSE /\ progress' = <<1, 1>>
  BY DEF Finish
<1>2. /\ scan'[s] = Idle
      /\ \A t \in Scans : t # s => /\ scan'[t] = scan[t]
                                   /\ Alive(t)' <=> Alive(t)
                                   /\ Sound(t)' <=> Sound(t)
  BY <1>1, OthersStay
<1>3. ~Alive(s)'
  BY <1>2 DEF Alive, Idle
<1>4. \A t \in Scans : Alive(t)' => Alive(t) /\ t # s /\ Sound(t)'
  BY <1>2, <1>3, AliveTypes
<1>5. scan' \in [Scans -> Activation]
  BY <1>1, IdleIsActivation DEF IInv, TypeOK
<1>10. isScanning' \in BOOLEAN /\ _cancelled' \in BOOLEAN /\ overlap' \in BOOLEAN
  BY <1>1 DEF IInv, TypeOK
<1>11. progress' \in Nat \X (Nat \ {0})
  BY <1>1
<1>6. TypeOK'
  BY <1>4, <1>5, <1>10, <1>11 DEF TypeOK, Sound
<1>7. ~overlap' => \A t \in Scans : ~Alive(t)'
  BY <1>4 DEF IInv
<1>8. ScreenIsTrue'
  BY <1>1, <1>7 DEF ScreenIsTrue, AnyAlive
<1>9. \A t \in Scans : Alive(t)' => IsInjective(scan'[t].list)
  BY <1>4 DEF Sound
<1> QED
  BY <1>6, <1>7, <1>8, <1>9 DEF IInv

\* A scan goes on: only its own activation changes, and the screen either
\* stays or, if nobody has stopped it, shows what this scan has found.
LEMMA GoingOnKeepsIt ==
  ASSUME IInv, NEW s \in Scans, Alive(s), NEW new \in Activation,
         scan' = [scan EXCEPT ![s] = new],
         Alive(s)', Sound(s)', new.list = scan[s].list,
         UNCHANGED <<isScanning, _cancelled, overlap>>,
         \/ UNCHANGED <<results, progress>> /\ new.found = scan[s].found
         \/ /\ results' = new.found /\ progress' = <<Len(new.found), Len(new.list)>>
            /\ Len(new.list) # 0 /\ NoResolverTwice'
  PROVE  IInv'
<1>1. /\ scan'[s] = new
      /\ \A t \in Scans : t # s => /\ scan'[t] = scan[t]
                                   /\ Alive(t)' <=> Alive(t)
                                   /\ Sound(t)' <=> Sound(t)
  BY OthersStay
<1>2. \A t \in Scans : Alive(t)' <=> Alive(t)
  BY <1>1
<1>3. \A t \in Scans : Alive(t)' => Sound(t)'
  BY <1>1, <1>2, AliveTypes
<1>4. scan' \in [Scans -> Activation]
  BY DEF IInv, TypeOK
<1>5. new.found \in Seq(Result) /\ new.list \in Seq(Resolvers)
  BY DEF Activation
<1>6. results' \in Seq(Result) /\ progress' \in Nat \X (Nat \ {0})
  <2>1. Len(new.found) \in Nat /\ Len(new.list) \in Nat
    BY <1>5, LenProperties
  <2> QED
    BY <1>5, <2>1 DEF IInv, TypeOK
<1>7. TypeOK'
  BY <1>3, <1>4, <1>6 DEF IInv, TypeOK, Sound
<1>8. NoResolverTwice'
  BY DEF IInv, NoResolverTwice
<1>9. AnyAlive' <=> AnyAlive
  BY <1>2 DEF AnyAlive
<1>10. ScreenIsTrue'
  <2> SUFFICES ASSUME ~overlap'
               PROVE  /\ isScanning' <=> ~_cancelled' /\ AnyAlive'
                      /\ \A t \in Scans : Alive(t)' /\ isScanning' =>
                           /\ results' = scan'[t].found
                           /\ progress' = <<Len(results'), Len(scan'[t].list)>>
    BY DEF ScreenIsTrue
  <2>1. isScanning' <=> ~_cancelled' /\ AnyAlive'
    BY <1>9 DEF IInv, ScreenIsTrue
  <2>2. \A t \in Scans : Alive(t)' => t = s
    BY <1>2 DEF IInv
  <2>3. isScanning => /\ results = scan[s].found
                      /\ progress = <<Len(results), Len(scan[s].list)>>
    BY DEF IInv, ScreenIsTrue
  <2>4. isScanning' => /\ results' = new.found
                       /\ progress' = <<Len(results'), Len(new.list)>>
    BY <2>3
  <2> QED
    BY <2>1, <2>2, <2>4, <1>1
<1>11. \A t \in Scans : Alive(t)' => IsInjective(scan'[t].list)
  BY <1>3 DEF Sound
<1>12. ~overlap' => \A t, u \in Scans : Alive(t)' /\ Alive(u)' => t = u
  BY <1>2 DEF IInv
<1> QED
  BY <1>7, <1>8, <1>10, <1>11, <1>12 DEF IInv

\* A resolver is through: its result is shown and the scan goes on or ends.
LEMMA ReturnedKeepsIt ==
  ASSUME IInv, NEW s \in Scans, Alive(s), NEW success \in BOOLEAN,
         Returned(s, success), UNCHANGED <<_cancelled, overlap>>
  PROVE  IInv'
<1> DEFINE found == Found(s, success)
           rest  == Rest(s)
           on    == [scan[s] EXCEPT !.phase = "probe", !.todo = rest, !.found = found,
                                    !.left = scan[s].offer]
<1>6. /\ _cancelled => Finish(s) /\ UNCHANGED results
      /\ ~_cancelled => results' = found
      /\ ~_cancelled /\ rest = <<>> => Finish(s)
      /\ ~_cancelled /\ rest # <<>> =>
           /\ progress' = <<Len(found), Len(scan[s].list)>>
           /\ scan' = [scan EXCEPT ![s] = on] /\ UNCHANGED isScanning
  BY DEF Returned, Found, Rest
<1>1. /\ found \in Seq(Result) /\ rest \in Seq(Resolvers)
      /\ Len(found) \in Nat /\ Len(scan[s].list) \in Nat \ {0}
      /\ Len(found) + Len(rest) = Len(scan[s].list)
      /\ \A i \in DOMAIN found : found[i].resolver = scan[s].list[i]
      /\ \A i \in DOMAIN rest : rest[i] = scan[s].list[Len(found) + i]
      /\ \A i, j \in DOMAIN found : found[i].resolver = found[j].resolver => i = j
  BY FoundGrows
<1>2. CASE _cancelled
  <2>1. Finish(s) /\ UNCHANGED results
    BY <1>2, <1>6
  <2>2. results' \in Seq(Result) /\ NoResolverTwice'
    BY <2>1 DEF IInv, TypeOK, NoResolverTwice
  <2> QED
    BY <2>1, <2>2, FinishKeepsIt
<1>3. CASE ~_cancelled /\ rest = <<>>
  <2>1. Finish(s) /\ results' = found
    BY <1>3, <1>6
  <2>2. results' \in Seq(Result) /\ NoResolverTwice'
    BY <1>1, <2>1 DEF NoResolverTwice
  <2> QED
    BY <2>1, <2>2, FinishKeepsIt
<1>4. CASE ~_cancelled /\ rest # <<>>
  <2>1. /\ results' = found /\ progress' = <<Len(found), Len(scan[s].list)>>
        /\ scan' = [scan EXCEPT ![s] = on] /\ UNCHANGED isScanning
    BY <1>4, <1>6
  <2>2. /\ scan[s] \in Activation /\ scan[s].offer \in Seq(Protocols)
        /\ scan[s].offer # <<>> /\ IsInjective(scan[s].list)
    BY AliveTypes DEF Sound, Unfinished
  <2>3. /\ on.phase = "probe" /\ on.list = scan[s].list /\ on.todo = rest
        /\ on.found = found /\ on.left = scan[s].offer
    BY <2>2 DEF Activation
  <2>4. on \in Activation
    BY <1>1, <2>2 DEF Activation, Protocols
  <2> HIDE DEF on, found, rest
  <2>5. scan'[s] = on
    BY <2>1, OthersStay
  <2>6. Alive(s)'
    BY <2>3, <2>5 DEF Alive
  <2>7. Sound(s)'
    <3>1. /\ scan'[s].todo = rest /\ scan'[s].left = scan[s].offer /\ scan'[s].found = found
          /\ scan'[s].list = scan[s].list /\ scan'[s].phase = "probe"
      BY <2>3, <2>5
    <3>2. scan'[s].offer = scan[s].offer
      BY <2>2, <2>5 DEF on, Activation
    <3> QED
      BY <1>1, <1>4, <2>2, <3>1, <3>2 DEF Sound, Unfinished
  <2>8. NoResolverTwice'
    BY <1>1, <2>1 DEF NoResolverTwice
  <2>9. Len(on.list) # 0
    BY <1>1, <2>3
  <2> QED
    BY <2>1, <2>3, <2>4, <2>6, <2>7, <2>8, <2>9, GoingOnKeepsIt
<1> QED
  BY <1>2, <1>3, <1>4

\* A new scan: overlap is false only where nothing else is alive.
LEMMA StartedKeepsIt ==
  ASSUME IInv, NEW s \in Scans, NEW list \in Lists, NEW offer \in Offers,
         NEW verify \in 0..MaxPorts, Started(s, list, offer, verify)
  PROVE  IInv'
<1> DEFINE new == [phase |-> "probe", list |-> list, todo |-> list, found |-> <<>>,
                   offer |-> offer, left |-> offer, verify |-> verify, ports |-> 0]
<1>1. /\ ~Alive(s) /\ _cancelled' = FALSE /\ isScanning' = TRUE /\ results' = <<>>
      /\ progress' = <<0, Len(list)>> /\ overlap' = AnyAlive
      /\ scan' = [scan EXCEPT ![s] = new]
  BY DEF Started
<1>2. /\ list \in Seq(Resolvers) /\ list # <<>> /\ Len(list) \in Nat \ {0}
      /\ DOMAIN list = 1..Len(list) /\ IsInjective(list)
  BY ListsAreInjective
<1>3. offer \in Seq(Protocols) /\ offer # <<>>
  BY OffersAssumption DEF Protocols
<1>4. <<>> \in Seq(Result) /\ Len(<<>>) = 0
  OBVIOUS
<1>5. new \in Activation
  BY <1>2, <1>3, <1>4, OffersAssumption DEF Activation, Protocols
<1>6. /\ new.phase = "probe" /\ new.list = list /\ new.todo = list /\ new.found = <<>>
      /\ new.offer = offer /\ new.left = offer
  OBVIOUS
<1> HIDE DEF new
<1>7. /\ scan'[s] = new
      /\ \A t \in Scans : t # s => /\ scan'[t] = scan[t]
                                   /\ Alive(t)' <=> Alive(t)
                                   /\ Sound(t)' <=> Sound(t)
  BY <1>1, OthersStay
<1>8. Alive(s)'
  BY <1>6, <1>7 DEF Alive
<1>9. Sound(s)'
  <2>1. /\ scan'[s].phase = "probe" /\ scan'[s].list = list /\ scan'[s].todo = list
        /\ scan'[s].found = <<>> /\ scan'[s].offer = offer /\ scan'[s].left = offer
    BY <1>6, <1>7
  <2>2. Len(<<>>) + Len(list) = Len(list)
    BY <1>2, <1>4
  <2>3. \A i \in DOMAIN list : list[i] = list[Len(<<>>) + i]
    BY <1>2, <1>4
  <2>4. \A i \in DOMAIN <<>> : <<>>[i].resolver = list[i]
    OBVIOUS
  <2> QED
    BY <1>2, <1>3, <2>1, <2>2, <2>3, <2>4 DEF Sound, Unfinished
<1>10. \A t \in Scans : Alive(t)' => Sound(t)'
  BY <1>7, <1>9, AliveTypes
<1>11. TypeOK'
  <2>1. overlap' \in BOOLEAN
    BY <1>1 DEF AnyAlive
  <2>2. progress' \in Nat \X (Nat \ {0}) /\ results' \in Seq(Result)
    BY <1>1, <1>2, <1>4
  <2>3. scan' \in [Scans -> Activation]
    BY <1>1, <1>5 DEF IInv, TypeOK
  <2> QED
    BY <1>1, <1>10, <2>1, <2>2, <2>3 DEF TypeOK, Sound
<1>12. NoResolverTwice'
  BY <1>1 DEF NoResolverTwice
<1>13. ~overlap' => \A t \in Scans : Alive(t)' => t = s
  BY <1>1, <1>7 DEF AnyAlive
<1>14. ScreenIsTrue'
  <2>1. isScanning' <=> ~_cancelled' /\ AnyAlive'
    BY <1>1, <1>8 DEF AnyAlive
  <2>2. results' = scan'[s].found /\ progress' = <<Len(results'), Len(scan'[s].list)>>
    BY <1>1, <1>4, <1>6, <1>7
  <2> QED
    BY <1>13, <2>1, <2>2 DEF ScreenIsTrue
<1>15. \A t \in Scans : Alive(t)' => IsInjective(scan'[t].list)
  BY <1>10 DEF Sound
<1> QED
  BY <1>11, <1>12, <1>13, <1>14, <1>15 DEF IInv

\* Stop Scan changes what the screen says and the flag, both.
LEMMA StoppedKeepsIt ==
  ASSUME IInv, Stopped
  PROVE  IInv'
<1>1. /\ _cancelled' = TRUE /\ isScanning' = FALSE
      /\ UNCHANGED <<results, progress, scan, overlap>>
  BY DEF Stopped
<1>2. TypeOK' /\ NoResolverTwice'
  BY <1>1 DEF IInv, TypeOK, NoResolverTwice, Alive, Unfinished
<1>3. ScreenIsTrue'
  BY <1>1 DEF ScreenIsTrue
<1> QED
  BY <1>1, <1>2, <1>3 DEF IInv, Alive

\* Only fields that say how far the test of a resolver has come change.
LEMMA WithinResolver ==
  ASSUME IInv, NEW s \in Scans, Alive(s),
         NEW phase \in {"probe", "verify"}, NEW left \in Seq(Protocols), left # <<>>,
         NEW ports \in 0..MaxPorts, phase = "verify" => ports > 0,
         scan' = [scan EXCEPT ![s] = [scan[s] EXCEPT !.phase = phase, !.left = left, !.ports = ports]],
         UNCHANGED <<isScanning, results, progress, _cancelled, overlap>>
  PROVE  IInv'
<1> DEFINE new == [scan[s] EXCEPT !.phase = phase, !.left = left, !.ports = ports]
<1>1. scan[s] \in Activation /\ Unfinished(s) /\ IsInjective(scan[s].list)
  BY AliveTypes DEF Sound
<1>2. new \in Activation
  BY <1>1 DEF Activation, Protocols
<1>3. /\ new.phase = phase /\ new.left = left /\ new.ports = ports
      /\ new.list = scan[s].list /\ new.todo = scan[s].todo
      /\ new.found = scan[s].found /\ new.offer = scan[s].offer
  BY <1>1 DEF Activation
<1>4. scan' = [scan EXCEPT ![s] = new]
  OBVIOUS
<1> HIDE DEF new
<1>5. scan'[s] = new
  BY <1>4, OthersStay
<1>6. Alive(s)'
  BY <1>3, <1>5 DEF Alive
<1>7. Sound(s)'
  <2>1. /\ scan'[s].phase = phase /\ scan'[s].left = left /\ scan'[s].ports = ports
        /\ scan'[s].list = scan[s].list /\ scan'[s].todo = scan[s].todo
        /\ scan'[s].found = scan[s].found /\ scan'[s].offer = scan[s].offer
    BY <1>3, <1>5
  <2> QED
    BY <1>1, <2>1 DEF Sound, Unfinished
<1> QED
  BY <1>2, <1>3, <1>4, <1>6, <1>7, GoingOnKeepsIt

\* The end of a probe or of a port check.
LEMMA ProbeKeepsIt ==
  ASSUME IInv, NEW s \in Scans,
         ProbePasses(s) \/ ProbeFails(s) \/ ProbeThrows(s) \/ PortVerified(s)
  PROVE  IInv'
<1>1. Alive(s) /\ UNCHANGED <<_cancelled, overlap>>
  BY DEF ProbePasses, ProbeFails, ProbeThrows, PortVerified, Awaiting, Alive
<1>2. /\ scan[s] \in Activation /\ scan[s].left \in Seq(Protocols) /\ scan[s].left # <<>>
      /\ scan[s].verify \in 0..MaxPorts /\ scan[s].ports \in 0..MaxPorts
      /\ scan[s].phase \in {"probe", "verify"}
      /\ scan[s].phase = "verify" => scan[s].ports > 0
  BY <1>1, AliveTypes DEF Sound, Unfinished, Alive, Activation
<1>3. MaxPorts \in Nat
  BY OffersAssumption
<1>4. CASE Returned(s, TRUE) \/ Returned(s, FALSE)
  BY <1>1, <1>4, ReturnedKeepsIt
<1>5. CASE ProbePasses(s) /\ scan[s].verify # 0
  <2>1. /\ scan' = [scan EXCEPT ![s].phase = "verify", ![s].ports = scan[s].verify]
        /\ UNCHANGED <<isScanning, results, progress>>
    BY <1>5 DEF ProbePasses
  <2>2. scan' = [scan EXCEPT ![s] = [scan[s] EXCEPT !.phase = "verify", !.left = scan[s].left,
                                                    !.ports = scan[s].verify]]
    BY <1>2, <2>1 DEF IInv, TypeOK, Activation
  <2>3. scan[s].verify > 0
    BY <1>2, <1>3, <1>5
  <2> QED
    BY <1>1, <1>2, <2>1, <2>2, <2>3, WithinResolver
<1>6. CASE ProbeFails(s) /\ Len(scan[s].left) # 1
  <2>1. /\ scan' = [scan EXCEPT ![s].left = Tail(scan[s].left)]
        /\ scan[s].phase = "probe"
        /\ UNCHANGED <<isScanning, results, progress>>
    BY <1>6 DEF ProbeFails, Awaiting
  <2>2. scan' = [scan EXCEPT ![s] = [scan[s] EXCEPT !.phase = "probe", !.left = Tail(scan[s].left),
                                                    !.ports = scan[s].ports]]
    BY <1>2, <2>1 DEF IInv, TypeOK, Activation
  <2>3. Tail(scan[s].left) \in Seq(Protocols) /\ Tail(scan[s].left) # <<>>
    BY <1>2, <1>6, Taken
  <2> QED
    BY <1>1, <1>2, <2>1, <2>2, <2>3, WithinResolver
<1>7. CASE PortVerified(s) /\ scan[s].ports # 1
  <2>1. /\ scan' = [scan EXCEPT ![s].ports = scan[s].ports - 1]
        /\ scan[s].phase = "verify"
        /\ UNCHANGED <<isScanning, results, progress>>
    BY <1>7 DEF PortVerified, Awaiting
  <2>2. scan' = [scan EXCEPT ![s] = [scan[s] EXCEPT !.phase = "verify", !.left = scan[s].left,
                                                    !.ports = scan[s].ports - 1]]
    BY <1>2, <2>1 DEF IInv, TypeOK, Activation
  <2>3. scan[s].ports - 1 \in 0..MaxPorts /\ scan[s].ports - 1 > 0
    BY <1>2, <1>3, <1>7, <2>1
  <2> QED
    BY <1>1, <1>2, <2>1, <2>2, <2>3, WithinResolver
<1> QED
  BY <1>4, <1>5, <1>6, <1>7 DEF ProbePasses, ProbeFails, ProbeThrows, PortVerified

--------------------------------------------------------------------------------
(* The theorems.                                                           *)

LEMMA InitHasIt == Init => IInv
<1> SUFFICES ASSUME Init PROVE IInv
  OBVIOUS
<1>1. \A s \in Scans : ~Alive(s)
  BY DEF Init, Alive, Idle
<1>2. scan \in [Scans -> Activation]
  BY IdleIsActivation DEF Init
<1>3. TypeOK
  <2>1. progress \in Nat \X (Nat \ {0}) /\ results \in Seq(Result)
    BY DEF Init
  <2>2. isScanning \in BOOLEAN /\ _cancelled \in BOOLEAN /\ overlap \in BOOLEAN
    BY DEF Init
  <2> QED
    BY <1>1, <1>2, <2>1, <2>2 DEF TypeOK
<1>4. NoResolverTwice /\ ScreenIsTrue
  BY <1>1 DEF Init, NoResolverTwice, ScreenIsTrue, AnyAlive
<1> QED
  BY <1>1, <1>3, <1>4 DEF IInv

LEMMA NextKeepsIt == IInv /\ [Next]_vars => IInv'
<1> SUFFICES ASSUME IInv, [Next]_vars PROVE IInv'
  OBVIOUS
<1>1. CASE \E s \in Scans, list \in Lists, offer \in Offers, verify \in 0..MaxPorts :
             Started(s, list, offer, verify)
  BY <1>1, StartedKeepsIt
<1>2. CASE \E s \in Scans :
             ProbePasses(s) \/ ProbeFails(s) \/ ProbeThrows(s) \/ PortVerified(s)
  BY <1>2, ProbeKeepsIt
<1>3. CASE Stopped
  BY <1>3, StoppedKeepsIt
<1>4. CASE UNCHANGED vars
  BY <1>4 DEF vars, IInv, TypeOK, NoResolverTwice, ScreenIsTrue, AnyAlive, Alive, Unfinished
<1> QED
  BY <1>1, <1>2, <1>3, <1>4 DEF Next

\* Whatever the user and the resolvers do, each loop keeps to its own list
\* and the screen to what it stands for.
THEOREM Inductive == Spec => []IInv
  BY InitHasIt, NextKeepsIt, PTL DEF Spec

\* The list shown names no resolver twice, for any number of scans that
\* overlap and any number of resolvers.
THEOREM NoResolverTwiceHolds == Spec => []NoResolverTwice
<1>1. IInv => NoResolverTwice
  BY DEF IInv
<1> QED
  BY <1>1, Inductive, PTL

\* As long as scans do not overlap, the button, the list and the progress
\* show the scan that runs, and only a scan that runs.
THEOREM ScreenIsTrueHolds == Spec => []ScreenIsTrue
<1>1. IInv => ScreenIsTrue
  BY DEF IInv
<1> QED
  BY <1>1, Inductive, PTL

\* A scan that comes to its end without having been stopped has a result for
\* each resolver of its list.
LEMMA ReturnedAtTheEnd ==
  ASSUME IInv, NEW s \in Scans, Alive(s), NEW success \in BOOLEAN,
         Returned(s, success), ~_cancelled, ~Alive(s)'
  PROVE  {results'[i].resolver : i \in DOMAIN results'} = ToSet(scan[s].list)
<1> DEFINE found == Found(s, success)
           rest  == Rest(s)
           list  == scan[s].list
<1>1. /\ found \in Seq(Result) /\ rest \in Seq(Resolvers)
      /\ Len(found) \in Nat /\ Len(list) \in Nat \ {0}
      /\ DOMAIN found = 1..Len(found)
      /\ Len(found) + Len(rest) = Len(list)
      /\ \A i \in DOMAIN found : found[i].resolver = list[i]
  BY FoundGrows
<1>2. /\ results' = found
      /\ rest # <<>> => \E on : on = [scan[s] EXCEPT !.phase = "probe", !.todo = rest,
                                        !.found = found, !.left = scan[s].offer]
                               /\ scan' = [scan EXCEPT ![s] = on]
  BY DEF Returned, Found, Rest
<1>3. scan[s] \in Activation /\ list \in Seq(Resolvers)
  BY AliveTypes
<1>4. rest = <<>>
  <2>1. SUFFICES ASSUME rest # <<>> PROVE FALSE
    OBVIOUS
  <2>2. PICK on : /\ on = [scan[s] EXCEPT !.phase = "probe", !.todo = rest,
                                        !.found = found, !.left = scan[s].offer]
                  /\ scan' = [scan EXCEPT ![s] = on]
    BY <1>2, <2>1
  <2>3. on.phase = "probe"
    BY <1>3, <2>2 DEF Activation
  <2>4. scan'[s] = on
    BY <2>2, OthersStay
  <2> QED
    BY <2>3, <2>4 DEF Alive
<1> HIDE DEF found, rest, list
<1>5. Len(found) = Len(list) /\ DOMAIN list = 1..Len(list)
  BY <1>1, <1>3, <1>4, LenProperties
<1>6. DOMAIN found = DOMAIN list
  BY <1>1, <1>5
<1>7. {found[i].resolver : i \in DOMAIN found} = ToSet(list)
  BY <1>1, <1>6 DEF ToSet
<1> QED
  BY <1>2, <1>7 DEF list

\* No other step ends a scan that was not stopped.
LEMMA OnlyReturningEnds ==
  ASSUME IInv, NEW s \in Scans, Alive(s), ~Alive(s)', [Next]_vars
  PROVE  Returned(s, TRUE) \/ Returned(s, FALSE)
<1>1. CASE \E t \in Scans, list \in Lists, offer \in Offers, verify \in 0..MaxPorts :
             Started(t, list, offer, verify)
  <2>1. PICK t \in Scans : ~Alive(t) /\ \E new : scan' = [scan EXCEPT ![t] = new]
    BY <1>1 DEF Started
  <2> QED
    BY <2>1, OthersStay
<1>2. CASE \E t \in Scans :
             ProbePasses(t) \/ ProbeFails(t) \/ ProbeThrows(t) \/ PortVerified(t)
  <2>1. PICK t \in Scans : ProbePasses(t) \/ ProbeFails(t) \/ ProbeThrows(t) \/ PortVerified(t)
    BY <1>2
  <2>2. /\ Alive(t)
        /\ \/ Returned(t, TRUE) \/ Returned(t, FALSE)
           \/ scan' = [scan EXCEPT ![t].phase = "verify", ![t].ports = scan[t].verify]
           \/ scan' = [scan EXCEPT ![t].left = Tail(@)]
           \/ scan' = [scan EXCEPT ![t].ports = @ - 1]
    BY <2>1 DEF ProbePasses, ProbeFails, ProbeThrows, PortVerified, Awaiting, Alive
  <2>3. scan \in [Scans -> Activation]
    BY DEF IInv, TypeOK
  <2>4. scan[t].phase # "idle" /\ scan[s].phase # "idle" /\ scan'[s].phase = "idle"
    BY <2>2 DEF Alive
  <2>5. CASE Returned(t, TRUE) \/ Returned(t, FALSE)
    <3>1. \E new : scan' = [scan EXCEPT ![t] = new]
      BY <2>5 DEF Returned, Finish
    <3>2. t = s
      BY <3>1, OthersStay
    <3> QED
      BY <2>5, <3>2
  <2>6. CASE scan' = [scan EXCEPT ![t].phase = "verify", ![t].ports = scan[t].verify]
    BY <2>3, <2>4, <2>6 DEF Activation
  <2>7. CASE scan' = [scan EXCEPT ![t].left = Tail(@)]
    BY <2>3, <2>4, <2>7 DEF Activation
  <2>8. CASE scan' = [scan EXCEPT ![t].ports = @ - 1]
    BY <2>3, <2>4, <2>8 DEF Activation
  <2> QED
    BY <2>2, <2>5, <2>6, <2>7, <2>8
<1>3. CASE Stopped \/ UNCHANGED vars
  BY <1>3 DEF Stopped, vars, Alive
<1> QED
  BY <1>1, <1>2, <1>3 DEF Next

\* A scan that did not overlap another and was not stopped ends with a
\* result for every resolver.
THEOREM EndsCompleteHolds == Spec => EndsComplete
<1>1. ASSUME IInv, [Next]_vars, NEW s \in Scans, Alive(s), scan'[s] = Idle, ~_cancelled
      PROVE  {results'[i].resolver : i \in DOMAIN results'} = ToSet(scan[s].list)
  <2>1. ~Alive(s)'
    BY <1>1 DEF Alive, Idle
  <2> QED
    BY <1>1, <2>1, OnlyReturningEnds, ReturnedAtTheEnd
<1>2. IInv /\ [Next]_vars =>
        [\A s \in Scans :
           Alive(s) /\ scan'[s] = Idle /\ ~overlap /\ ~_cancelled
             => {results'[i].resolver : i \in DOMAIN results'} = ToSet(scan[s].list)]_vars
  BY <1>1
<1> QED
  BY <1>2, Inductive, PTL DEF Spec, EndsComplete

--------------------------------------------------------------------------------
(* The bloc's lists of profiles.                                           *)

WriteKinds == {"save", "delete", "import", "dedupe", "deleteAll"}
Writes == [of : WriteKinds, id : Ids \cup {None}, rest : Seq(Profile), list : Seq(Profile)]

LEMMA ProfileFields ==
  \A p \in Profile : p.id \in Ids /\ p.content \in Contents
  BY DEF Profile

\* A function on the first numbers is a sequence.
LEMMA FunctionIsList ==
  ASSUME NEW S, NEW n \in Nat, NEW f \in [1..n -> S]
  PROVE  f \in Seq(S) /\ Len(f) = n /\ DOMAIN f = 1..n
<1>1. f \in Seq(S)
  BY SeqDef
<1>2. DOMAIN f = 1..n /\ DOMAIN f = 1..Len(f) /\ Len(f) \in Nat
  BY <1>1, LenProperties
<1> QED
  BY <1>1, <1>2

LEMMA IdsOfAppend ==
  ASSUME NEW list \in Seq(Profile), NEW p \in Profile
  PROVE  IdsOf(Append(list, p)) = IdsOf(list) \cup {p.id}
<1> DEFINE new == Append(list, p)
<1>1. /\ DOMAIN list = 1..Len(list) /\ Len(list) \in Nat
      /\ DOMAIN new = 1..(Len(list) + 1)
      /\ \A i \in DOMAIN list : new[i] = list[i]
      /\ new[Len(list) + 1] = p
  BY Appended
<1>2. DOMAIN new = DOMAIN list \cup {Len(list) + 1}
  BY <1>1
<1> HIDE DEF new
<1>3. IdsOf(new) = IdsOf(list) \cup {p.id}
  BY <1>1, <1>2 DEF IdsOf
<1> QED
  BY <1>3 DEF new

LEMMA IdsOfConcat ==
  ASSUME NEW a \in Seq(Profile), NEW b \in Seq(Profile)
  PROVE  IdsOf(a \o b) = IdsOf(a) \cup IdsOf(b)
<1> DEFINE new == a \o b
<1>1. /\ DOMAIN a = 1..Len(a) /\ Len(a) \in Nat /\ DOMAIN b = 1..Len(b) /\ Len(b) \in Nat
      /\ DOMAIN new = 1..(Len(a) + Len(b))
      /\ \A i \in 1..(Len(a) + Len(b)) : new[i] = IF i <= Len(a) THEN a[i] ELSE b[i - Len(a)]
  BY ConcatProperties, LenProperties
<1> HIDE DEF new
<1>2. \A i \in DOMAIN a : i \in DOMAIN new /\ new[i] = a[i]
  BY <1>1
<1>3. \A i \in DOMAIN b : i + Len(a) \in DOMAIN new /\ new[i + Len(a)] = b[i]
  BY <1>1
<1>4. \A i \in DOMAIN new : \/ i \in DOMAIN a /\ new[i] = a[i]
                            \/ i - Len(a) \in DOMAIN b /\ new[i] = b[i - Len(a)]
  BY <1>1
<1>5. IdsOf(new) = IdsOf(a) \cup IdsOf(b)
  BY <1>2, <1>3, <1>4 DEF IdsOf
<1> QED
  BY <1>5 DEF new

LEMMA IdsOfParts ==
  /\ IdsOf(<<>>) = {}
  /\ \A list \in Seq(Profile) :
       /\ IdsOf(list) \subseteq Ids
       /\ list # <<>> => IdsOf(list) = {Head(list).id} \cup IdsOf(Tail(list))
<1>1. IdsOf(<<>>) = {}
  BY DEF IdsOf
<1>2. ASSUME NEW list \in Seq(Profile) PROVE IdsOf(list) \subseteq Ids
  BY ProfileFields, ElementOfSeq, LenProperties DEF IdsOf
<1>3. ASSUME NEW list \in Seq(Profile), list # <<>>
      PROVE  IdsOf(list) = {Head(list).id} \cup IdsOf(Tail(list))
  <2> DEFINE tail == Tail(list)
  <2>1. /\ Head(list) = list[1] /\ DOMAIN list = 1..Len(list) /\ Len(list) \in Nat /\ Len(list) > 0
        /\ DOMAIN tail = 1..(Len(list) - 1)
        /\ \A i \in DOMAIN tail : tail[i] = list[i + 1]
    BY <1>3, Taken
  <2> HIDE DEF tail
  <2>2. \A i \in DOMAIN tail : i + 1 \in DOMAIN list /\ tail[i] = list[i + 1]
    BY <2>1
  <2>3. \A i \in DOMAIN list : i = 1 \/ (i - 1 \in DOMAIN tail /\ tail[i - 1] = list[i])
    BY <2>1
  <2>4. 1 \in DOMAIN list
    BY <2>1
  <2>5. IdsOf(list) = {list[1].id} \cup IdsOf(tail)
    BY <2>2, <2>3, <2>4 DEF IdsOf
  <2> QED
    BY <2>1, <2>5 DEF tail
<1> QED
  BY <1>1, <1>2, <1>3

\* A new id behind a list, or behind the first half of one, is a new entry.
LEMMA UniqueAppend ==
  ASSUME NEW list \in Seq(Profile), NEW p \in Profile,
         OneEntryPerId(list), p.id \notin IdsOf(list)
  PROVE  OneEntryPerId(Append(list, p))
<1> DEFINE new == Append(list, p)
<1>1. /\ DOMAIN list = 1..Len(list) /\ Len(list) \in Nat
      /\ DOMAIN new = 1..(Len(list) + 1)
      /\ \A i \in DOMAIN list : new[i] = list[i]
      /\ new[Len(list) + 1] = p
  BY Appended
<1>2. DOMAIN new = DOMAIN list \cup {Len(list) + 1}
  BY <1>1
<1> HIDE DEF new
<1>3. OneEntryPerId(new)
  BY <1>1, <1>2 DEF OneEntryPerId, IdsOf
<1> QED
  BY <1>3 DEF new

LEMMA UniqueConcat ==
  ASSUME NEW a \in Seq(Profile), NEW b \in Seq(Profile),
         OneEntryPerId(a), OneEntryPerId(b), IdsOf(a) \cap IdsOf(b) = {}
  PROVE  OneEntryPerId(a \o b)
<1> DEFINE new == a \o b
<1>1. /\ DOMAIN a = 1..Len(a) /\ Len(a) \in Nat /\ DOMAIN b = 1..Len(b) /\ Len(b) \in Nat
      /\ DOMAIN new = 1..(Len(a) + Len(b))
      /\ \A i \in 1..(Len(a) + Len(b)) : new[i] = IF i <= Len(a) THEN a[i] ELSE b[i - Len(a)]
  BY ConcatProperties, LenProperties
<1> HIDE DEF new
<1>2. \A i \in DOMAIN new : \/ i \in DOMAIN a /\ new[i] = a[i]
                            \/ i - Len(a) \in DOMAIN b /\ new[i] = b[i - Len(a)]
  BY <1>1
<1>3. ASSUME NEW i \in DOMAIN new, NEW j \in DOMAIN new, new[i].id = new[j].id PROVE i = j
  <2>1. CASE i \in DOMAIN a /\ new[i] = a[i] /\ j \in DOMAIN a /\ new[j] = a[j]
    BY <1>3, <2>1 DEF OneEntryPerId
  <2>2. CASE i - Len(a) \in DOMAIN b /\ new[i] = b[i - Len(a)] /\ j - Len(a) \in DOMAIN b /\ new[j] = b[j - Len(a)]
    <3>1. i - Len(a) = j - Len(a)
      BY <1>3, <2>2 DEF OneEntryPerId
    <3> QED
      BY <3>1, <1>1
  <2>3. CASE i \in DOMAIN a /\ new[i] = a[i] /\ j - Len(a) \in DOMAIN b /\ new[j] = b[j - Len(a)]
    BY <1>3, <2>3 DEF IdsOf
  <2>4. CASE j \in DOMAIN a /\ new[j] = a[j] /\ i - Len(a) \in DOMAIN b /\ new[i] = b[i - Len(a)]
    BY <1>3, <2>4 DEF IdsOf
  <2> QED
    BY <1>2, <2>1, <2>2, <2>3, <2>4
<1> QED
  BY <1>3 DEF OneEntryPerId, new

\* What is left of a list without twins has none, and misses its first id.
LEMMA UniqueParts ==
  ASSUME NEW a \in Seq(Profile), NEW b \in Seq(Profile), b # <<>>, OneEntryPerId(a \o b)
  PROVE  Head(b).id \notin IdsOf(a)
<1> DEFINE new == a \o b
<1>1. /\ DOMAIN a = 1..Len(a) /\ Len(a) \in Nat /\ Len(b) \in Nat /\ Len(b) > 0
      /\ DOMAIN new = 1..(Len(a) + Len(b))
      /\ \A i \in 1..(Len(a) + Len(b)) : new[i] = IF i <= Len(a) THEN a[i] ELSE b[i - Len(a)]
      /\ Head(b) = b[1]
  BY ConcatProperties, LenProperties, Taken
<1>2. OneEntryPerId(new)
  OBVIOUS
<1> HIDE DEF new
<1>3. /\ Len(a) + 1 \in DOMAIN new /\ new[Len(a) + 1] = b[1]
      /\ \A i \in DOMAIN a : i \in DOMAIN new /\ new[i] = a[i] /\ i # Len(a) + 1
  BY <1>1
<1> QED
  BY <1>1, <1>2, <1>3 DEF OneEntryPerId, IdsOf

\* The head of one list moves to the end of the other.
LEMMA TakenOver ==
  ASSUME NEW a \in Seq(Profile), NEW b \in Seq(Profile), b # <<>>
  PROVE  Append(a, Head(b)) \o Tail(b) = a \o b
<1> DEFINE new == Append(a, Head(b))
           tail == Tail(b)
<1>1. /\ Head(b) \in Profile /\ Head(b) = b[1] /\ tail \in Seq(Profile)
      /\ Len(b) \in Nat /\ Len(b) > 0 /\ Len(tail) = Len(b) - 1
      /\ DOMAIN tail = 1..(Len(b) - 1)
      /\ \A i \in DOMAIN tail : tail[i] = b[i + 1]
  BY Taken
<1>2. /\ new \in Seq(Profile) /\ Len(a) \in Nat /\ Len(new) = Len(a) + 1
      /\ DOMAIN a = 1..Len(a)
      /\ \A i \in DOMAIN a : new[i] = a[i]
      /\ new[Len(a) + 1] = Head(b)
  BY <1>1, Appended
<1> HIDE DEF new, tail
<1>3. /\ a \o b \in Seq(Profile) /\ Len(a \o b) = Len(a) + Len(b)
      /\ \A i \in 1..(Len(a) + Len(b)) : (a \o b)[i] = IF i <= Len(a) THEN a[i] ELSE b[i - Len(a)]
  BY ConcatProperties
<1>4. /\ new \o tail \in Seq(Profile) /\ Len(new \o tail) = Len(new) + Len(tail)
      /\ \A i \in 1..(Len(new) + Len(tail)) :
           (new \o tail)[i] = IF i <= Len(new) THEN new[i] ELSE tail[i - Len(new)]
  BY <1>1, <1>2, ConcatProperties
<1>5. Len(new \o tail) = Len(a) + Len(b)
  BY <1>1, <1>2, <1>4
<1>6. ASSUME NEW i \in 1..(Len(a) + Len(b)) PROVE (new \o tail)[i] = (a \o b)[i]
  <2>1. (new \o tail)[i] = IF i <= Len(a) + 1 THEN new[i] ELSE tail[i - (Len(a) + 1)]
    BY <1>1, <1>2, <1>4
  <2>2. CASE i <= Len(a)
    <3>1. i \in DOMAIN a /\ i <= Len(a) + 1
      BY <1>2, <2>2
    <3>2. (a \o b)[i] = a[i]
      BY <1>3, <2>2
    <3> QED
      BY <1>2, <2>1, <3>1, <3>2
  <2>3. CASE i = Len(a) + 1
    BY <1>1, <1>2, <1>3, <2>1, <2>3
  <2>4. CASE i > Len(a) + 1
    <3>1. i - (Len(a) + 1) \in DOMAIN tail /\ (i - (Len(a) + 1)) + 1 = i - Len(a)
      BY <1>1, <1>2, <2>4
    <3>2. tail[i - (Len(a) + 1)] = b[i - Len(a)]
      BY <1>1, <3>1
    <3> QED
      BY <1>2, <1>3, <2>1, <2>4, <3>2
  <2> QED
    BY <1>1, <1>2, <2>2, <2>3, <2>4
<1>7. new \o tail = a \o b
  BY <1>3, <1>4, <1>5, <1>6, SeqEqual
<1> QED
  BY <1>7 DEF new, tail

LEMMA UniqueEmpty == OneEntryPerId(<<>>)
  BY DEF OneEntryPerId

\* How many of the places kept are not behind place i.
Rank(keep, i) == Cardinality({j \in keep : j <= i})

\* Every number up to their count is the rank of one of the places kept: the
\* ranks grow with the places, and there are as many of them.
LEMMA RanksAreAll ==
  ASSUME NEW n \in Nat, NEW keep \in SUBSET (1..n)
  PROVE  /\ IsFiniteSet(keep) /\ Cardinality(keep) \in Nat
         /\ \A k \in 1..Cardinality(keep) : \E i \in keep : Rank(keep, i) = k
         /\ \A i \in keep : Rank(keep, i) \in 1..Cardinality(keep)
         /\ \A i, j \in keep : Rank(keep, i) = Rank(keep, j) => i = j
<1> DEFINE Upto(i) == {j \in keep : j <= i}
           c == Cardinality(keep)
           rank == [i \in keep |-> Rank(keep, i)]
<1>1. IsFiniteSet(keep) /\ c \in Nat
  <2>1. IsFiniteSet(1..n)
    BY FS_Interval
  <2>2. IsFiniteSet(keep)
    BY <2>1, FS_Subset
  <2> QED
    BY <2>2, FS_CardinalityType
<1>2. ASSUME NEW i \in keep
      PROVE  IsFiniteSet(Upto(i)) /\ Rank(keep, i) \in 1..c
  <2>1. Upto(i) \subseteq keep /\ i \in Upto(i)
    OBVIOUS
  <2>2. IsFiniteSet(Upto(i)) /\ Cardinality(Upto(i)) <= c
    BY <1>1, <2>1, FS_Subset
  <2>3. Cardinality(Upto(i)) \in Nat /\ Cardinality(Upto(i)) # 0
    BY <2>1, <2>2, FS_CardinalityType, FS_EmptySet
  <2> QED
    BY <1>1, <2>2, <2>3 DEF Rank
<1>3. ASSUME NEW i \in keep, NEW j \in keep, Rank(keep, i) = Rank(keep, j), i < j
      PROVE  FALSE
  <2>0. i \in Nat /\ j \in Nat /\ \A x \in keep : x \in Nat
    OBVIOUS
  <2>1. Upto(i) \subseteq Upto(j) /\ j \in Upto(j) /\ j \notin Upto(i)
    <3>1. ~(j <= i) /\ j <= j
      BY <1>3, <2>0
    <3>2. \A x \in keep : x <= i => x <= j
      BY <1>3, <2>0
    <3> QED
      BY <3>1, <3>2
  <2>2. Cardinality(Upto(i)) = Cardinality(Upto(j))
    BY <1>3 DEF Rank
  <2>3. Upto(j) = Upto(i)
    BY <1>2, <2>1, <2>2, FS_Subset
  <2> QED
    BY <2>1, <2>3
<1>4. ASSUME NEW i \in keep, NEW j \in keep, Rank(keep, i) = Rank(keep, j)
      PROVE  i = j
  <2>1. i \in Nat /\ j \in Nat
    OBVIOUS
  <2> QED
    BY <1>3, <1>4, <2>1
<1>5. rank \in Injection(keep, 1..c)
  <2>1. rank \in [keep -> 1..c]
    BY <1>2
  <2>2. IsInjective(rank)
    BY <1>4 DEF IsInjective
  <2> QED
    BY <2>1, <2>2 DEF Injection
<1>6. IsFiniteSet(1..c) /\ Cardinality(1..c) = c
  BY <1>1, FS_Interval
<1>7. rank \in Surjection(keep, 1..c)
  BY <1>5, <1>6, FS_Injection
<1>8. \A k \in 1..c : \E i \in keep : Rank(keep, i) = k
  BY <1>7 DEF Surjection
<1> QED
  BY <1>1, <1>2, <1>4, <1>8

\* Among keeps the entries at the places given, each once, and no others.
LEMMA AmongKeeps ==
  ASSUME NEW list \in Seq(Profile), NEW keep \in SUBSET (DOMAIN list)
  PROVE  /\ Among(list, keep) \in Seq(Profile)
         /\ IdsOf(Among(list, keep)) = {list[i].id : i \in keep}
         /\ OneEntryPerId(list) => OneEntryPerId(Among(list, keep))
<1> DEFINE c == Cardinality(keep)
           place(k) == CHOOSE i \in keep : Rank(keep, i) = k
           new == [k \in 1..c |-> list[place(k)]]
<1>1. DOMAIN list = 1..Len(list) /\ Len(list) \in Nat /\ \A i \in DOMAIN list : list[i] \in Profile
  BY LenProperties, ElementOfSeq
<1>2. /\ c \in Nat
      /\ \A k \in 1..c : \E i \in keep : Rank(keep, i) = k
      /\ \A i \in keep : Rank(keep, i) \in 1..c
      /\ \A i, j \in keep : Rank(keep, i) = Rank(keep, j) => i = j
  BY <1>1, RanksAreAll
<1>3. \A k \in 1..c : place(k) \in keep /\ Rank(keep, place(k)) = k
  BY <1>2
<1>4. Among(list, keep) = new
  BY DEF Among, Rank
<1>5. \A i \in keep : place(Rank(keep, i)) = i
  BY <1>2, <1>3
<1> HIDE DEF place, c
<1>6. new \in [1..c -> Profile]
  BY <1>1, <1>3
<1>7. new \in Seq(Profile) /\ DOMAIN new = 1..c
  BY <1>2, <1>6, FunctionIsList
<1>8. IdsOf(new) = {list[i].id : i \in keep}
  <2>1. ASSUME NEW k \in 1..c PROVE \E i \in keep : new[k].id = list[i].id
    BY <1>3
  <2>2. ASSUME NEW i \in keep PROVE \E k \in 1..c : new[k].id = list[i].id
    BY <1>2, <1>5
  <2> HIDE DEF new
  <2>3. IdsOf(new) \subseteq {list[i].id : i \in keep}
    BY <1>7, <2>1 DEF IdsOf
  <2>4. {list[i].id : i \in keep} \subseteq IdsOf(new)
    BY <1>7, <2>2 DEF IdsOf
  <2> QED
    BY <2>3, <2>4
<1>9. ASSUME OneEntryPerId(list), NEW k \in 1..c, NEW l \in 1..c, new[k].id = new[l].id
      PROVE  k = l
  <2>1. place(k) = place(l)
    BY <1>1, <1>3, <1>9 DEF OneEntryPerId
  <2> QED
    BY <1>3, <2>1
<1>10. OneEntryPerId(list) => OneEntryPerId(new)
  BY <1>7, <1>9 DEF OneEntryPerId
<1> HIDE DEF new
<1> QED
  BY <1>4, <1>7, <1>8, <1>10

\* delete: the entries of one id go, the others stay.
LEMMA WithoutDrops ==
  ASSUME NEW list \in Seq(Profile), NEW id
  PROVE  /\ Without(list, id) \in Seq(Profile)
         /\ IdsOf(Without(list, id)) = IdsOf(list) \ {id}
         /\ OneEntryPerId(list) => OneEntryPerId(Without(list, id))
<1> DEFINE keep == {i \in DOMAIN list : list[i].id # id}
<1>1. keep \in SUBSET (DOMAIN list)
  OBVIOUS
<1>2. {list[i].id : i \in keep} = IdsOf(list) \ {id}
  BY DEF IdsOf
<1>3. Without(list, id) = Among(list, keep)
  BY DEF Without
<1> HIDE DEF keep
<1> QED
  BY <1>1, <1>2, <1>3, AmongKeeps

LEMMA DedupedKeeps ==
  ASSUME shown \in Seq(Profile)
  PROVE  /\ deduped \in Seq(Profile)
         /\ IdsOf(deduped) \subseteq IdsOf(shown)
         /\ OneEntryPerId(shown) => OneEntryPerId(deduped)
<1> DEFINE keep == {i \in DOMAIN shown : \A j \in 1..(i - 1) : shown[j].content # shown[i].content}
<1>1. keep \in SUBSET (DOMAIN shown)
  OBVIOUS
<1>2. {shown[i].id : i \in keep} \subseteq IdsOf(shown)
  BY DEF IdsOf
<1>3. deduped = Among(shown, keep)
  BY DEF deduped
<1> HIDE DEF keep
<1> QED
  BY <1>1, <1>2, <1>3, AmongKeeps

\* save: the id is listed, and nothing else comes or goes; on a list without
\* twins it replaces the one entry or adds one at the end.
LEMMA SavedLists ==
  ASSUME NEW list \in Seq(Profile), NEW p \in Profile
  PROVE  /\ Saved(list, p) \in Seq(Profile)
         /\ IdsOf(Saved(list, p)) = IdsOf(list) \cup {p.id}
         /\ OneEntryPerId(list) => OneEntryPerId(Saved(list, p))
         /\ p.id \notin IdsOf(list) => Saved(list, p) = Append(list, p)
         /\ OneEntryPerId(list) /\ p.id \in IdsOf(list) =>
              Saved(list, p) = [i \in DOMAIN list |-> IF list[i].id = p.id THEN p ELSE list[i]]
<1> DEFINE same == {i \in DOMAIN list : list[i].id = p.id}
<1>1. DOMAIN list = 1..Len(list) /\ Len(list) \in Nat
  BY LenProperties
<1>2. same = {} <=> p.id \notin IdsOf(list)
  BY DEF IdsOf
<1>3. CASE same = {}
  <2>1. Saved(list, p) = Append(list, p)
    BY <1>3 DEF Saved
  <2> QED
    BY <1>2, <1>3, <2>1, Appended, IdsOfAppend, UniqueAppend
<1>4. CASE same # {}
  <2>1. PICK i \in same : \A j \in same : i <= j
    <3>1. same \subseteq Nat
      BY <1>1
    <3>2. PICK i \in same : \A j \in same : ~(<<j, i>> \in OpToRel(<, Nat))
      BY <1>4, <3>1, NatLessThanWellFounded, WFMin
    <3>3. \A j \in same : ~(j < i)
      BY <3>1, <3>2 DEF OpToRel
    <3> QED
      BY <3>1, <3>3
  <2> DEFINE first == CHOOSE k \in same : \A j \in same : k <= j
             new == [list EXCEPT ![first] = p]
  <2>2. first \in same
    BY <2>1
  <2>3. Saved(list, p) = new
    BY <1>4 DEF Saved
  <2> HIDE DEF first
  <2>4. /\ new \in Seq(Profile) /\ DOMAIN new = DOMAIN list
        /\ \A j \in DOMAIN list : new[j] = IF j = first THEN p ELSE list[j]
    BY <1>1, <2>2, ExceptSeq, LenProperties
  <2>5. first \in DOMAIN list /\ list[first].id = p.id
    BY <2>2
  <2> HIDE DEF new
  <2>6. \A j \in DOMAIN list : new[j].id = list[j].id
    BY <2>4, <2>5
  <2>7. IdsOf(new) = IdsOf(list) \cup {p.id}
    BY <2>4, <2>5, <2>6 DEF IdsOf
  <2>8. OneEntryPerId(list) => OneEntryPerId(new)
    BY <2>4, <2>6 DEF OneEntryPerId
  <2>9. ASSUME OneEntryPerId(list)
        PROVE  new = [k \in DOMAIN list |-> IF list[k].id = p.id THEN p ELSE list[k]]
    <3>1. \A j \in DOMAIN list : list[j].id = p.id <=> j = first
      BY <2>5, <2>9 DEF OneEntryPerId
    <3> QED
      BY <2>4, <3>1, LenProperties
  <2> QED
    BY <1>2, <1>4, <2>3, <2>4, <2>7, <2>8, <2>9
<1> QED
  BY <1>3, <1>4

\* _onUpdated replaces every entry of the id.
LEMMA ReplacedLists ==
  ASSUME NEW list \in Seq(Profile), NEW p \in Profile
  PROVE  LET new == [i \in DOMAIN list |-> IF list[i].id = p.id THEN p ELSE list[i]]
         IN  /\ new \in Seq(Profile)
             /\ IdsOf(new) = IdsOf(list)
             /\ OneEntryPerId(list) => OneEntryPerId(new)
<1> DEFINE new == [i \in DOMAIN list |-> IF list[i].id = p.id THEN p ELSE list[i]]
<1>1. DOMAIN list = 1..Len(list) /\ Len(list) \in Nat /\ \A i \in DOMAIN list : list[i] \in Profile
  BY LenProperties, ElementOfSeq
<1>2. new \in [1..Len(list) -> Profile]
  BY <1>1
<1>3. new \in Seq(Profile) /\ DOMAIN new = DOMAIN list
  BY <1>1, <1>2, FunctionIsList
<1>4. \A i \in DOMAIN list : new[i].id = list[i].id
  OBVIOUS
<1> HIDE DEF new
<1>5. IdsOf(new) = IdsOf(list)
  BY <1>3, <1>4 DEF IdsOf
<1>6. OneEntryPerId(list) => OneEntryPerId(new)
  BY <1>3, <1>4 DEF OneEntryPerId
<1> QED
  BY <1>3, <1>5, <1>6 DEF new

--------------------------------------------------------------------------------
(* Writes in flight.                                                       *)

ComingOf(ws) == UNION {IdsOf(ws[i].rest) : i \in DOMAIN ws}

LEMMA ComingIs == Coming = ComingOf(writes) /\ Coming' = ComingOf(writes')
  BY DEF Coming, ComingOf

LEMMA ComingParts ==
  ASSUME NEW ws \in Seq(Writes)
  PROVE  /\ \A w \in Writes : ComingOf(Append(ws, w)) = ComingOf(ws) \cup IdsOf(w.rest)
         /\ ws # <<>> => ComingOf(ws) = IdsOf(Head(ws).rest) \cup ComingOf(Tail(ws))
<1>1. ASSUME NEW w \in Writes
      PROVE  ComingOf(Append(ws, w)) = ComingOf(ws) \cup IdsOf(w.rest)
  <2> DEFINE new == Append(ws, w)
  <2>1. /\ DOMAIN ws = 1..Len(ws) /\ Len(ws) \in Nat
        /\ DOMAIN new = 1..(Len(ws) + 1)
        /\ \A i \in DOMAIN ws : new[i] = ws[i]
        /\ new[Len(ws) + 1] = w
    BY <1>1, Appended
  <2>2. DOMAIN new = DOMAIN ws \cup {Len(ws) + 1}
    BY <2>1
  <2> HIDE DEF new
  <2>3. \A x : x \in ComingOf(new) <=> \E i \in DOMAIN new : x \in IdsOf(new[i].rest)
    BY DEF ComingOf
  <2>4. \A x : x \in ComingOf(ws) <=> \E i \in DOMAIN ws : x \in IdsOf(ws[i].rest)
    BY DEF ComingOf
  <2>5. ComingOf(new) = ComingOf(ws) \cup IdsOf(w.rest)
    BY <2>1, <2>2, <2>3, <2>4
  <2> QED
    BY <2>5 DEF new
<1>2. ASSUME ws # <<>>
      PROVE  ComingOf(ws) = IdsOf(Head(ws).rest) \cup ComingOf(Tail(ws))
  <2> DEFINE tail == Tail(ws)
  <2>1. /\ Head(ws) = ws[1] /\ DOMAIN ws = 1..Len(ws) /\ Len(ws) \in Nat /\ Len(ws) > 0
        /\ DOMAIN tail = 1..(Len(ws) - 1)
        /\ \A i \in DOMAIN tail : tail[i] = ws[i + 1]
    BY <1>2, Taken
  <2> HIDE DEF tail
  <2>2. \A i \in DOMAIN tail : i + 1 \in DOMAIN ws /\ tail[i] = ws[i + 1]
    BY <2>1
  <2>3. \A i \in DOMAIN ws : i = 1 \/ (i - 1 \in DOMAIN tail /\ tail[i - 1] = ws[i])
    BY <2>1
  <2>4. 1 \in DOMAIN ws
    BY <2>1
  <2>5. \A x : x \in ComingOf(tail) <=> \E i \in DOMAIN tail : x \in IdsOf(tail[i].rest)
    BY DEF ComingOf
  <2>6. \A x : x \in ComingOf(ws) <=> \E i \in DOMAIN ws : x \in IdsOf(ws[i].rest)
    BY DEF ComingOf
  <2>7. ComingOf(ws) = IdsOf(ws[1].rest) \cup ComingOf(tail)
    BY <2>2, <2>3, <2>4, <2>5, <2>6
  <2> QED
    BY <2>1, <2>7 DEF tail
<1> QED
  BY <1>1, <1>2

LEMMA WriteFields ==
  /\ \A w \in Writes : /\ w.of \in WriteKinds /\ w.rest \in Seq(Profile) /\ w.list \in Seq(Profile)
                       /\ w.id \in Ids \cup {None}
  /\ \A kind \in WriteKinds, id \in Ids \cup {None}, rest \in Seq(Profile), list \in Seq(Profile) :
       LET w == Write(kind, id, rest, list)
       IN  w \in Writes /\ w.of = kind /\ w.rest = rest /\ w.list = list
  BY DEF Writes, Write

\* A write that is made stands behind the others, and memory has its list.
LEMMA Stored ==
  ASSUME writes \in Seq(Writes),
         NEW kind \in WriteKinds, NEW id \in Ids \cup {None},
         NEW rest \in Seq(Profile), NEW list \in Seq(Profile),
         Store(kind, id, rest, list)
  PROVE  /\ cache' = list
         /\ writes' \in Seq(Writes) /\ writes' # <<>>
         /\ Len(writes) \in Nat /\ Len(writes') = Len(writes) + 1
         /\ DOMAIN writes = 1..Len(writes) /\ DOMAIN writes' = 1..(Len(writes) + 1)
         /\ \A i \in DOMAIN writes : writes'[i] = writes[i]
         /\ Last(writes') = writes'[Len(writes) + 1]
         /\ LET w == Last(writes') IN w \in Writes /\ w.of = kind /\ w.rest = rest /\ w.list = list
         /\ Coming' = Coming \cup IdsOf(rest)
<1> DEFINE w == Write(kind, id, rest, list)
<1>1. w \in Writes /\ w.of = kind /\ w.rest = rest /\ w.list = list
  BY WriteFields
<1>2. cache' = list /\ writes' = Append(writes, w)
  BY DEF Store
<1> HIDE DEF w
<1>3. /\ writes' \in Seq(Writes)
      /\ Len(writes) \in Nat /\ Len(writes') = Len(writes) + 1
      /\ DOMAIN writes = 1..Len(writes) /\ DOMAIN writes' = 1..(Len(writes) + 1)
      /\ \A i \in DOMAIN writes : writes'[i] = writes[i]
      /\ writes'[Len(writes) + 1] = w
  BY <1>1, <1>2, Appended
<1>4. writes' # <<>>
  BY <1>3, EmptySeq
<1>5. Last(writes') = writes'[Len(writes) + 1]
  BY <1>3 DEF Last
<1>6. Coming' = Coming \cup IdsOf(rest)
  BY <1>1, <1>2, ComingIs, ComingParts
<1> QED
  BY <1>1, <1>2, <1>3, <1>4, <1>5, <1>6

LEMMA TypesAre ==
  ASSUME ProfilesTypeOK
  PROVE  /\ shown \in Seq(Profile) /\ cache \in Seq(Profile) /\ disk \in Seq(Profile)
         /\ writes \in Seq(Writes)
         /\ Coming \subseteq Ids
         /\ used \subseteq Ids /\ kept \subseteq used /\ gone \subseteq used
<1>1. writes \in Seq(Writes)
  BY DEF ProfilesTypeOK, Writes, WriteKinds
<1>2. \A i \in DOMAIN writes : IdsOf(writes[i].rest) \subseteq Ids
  BY <1>1, ElementOfSeq, LenProperties, WriteFields, IdsOfParts
<1>3. Coming \subseteq Ids
  BY <1>2 DEF Coming
<1> QED
  BY <1>1, <1>3 DEF ProfilesTypeOK

--------------------------------------------------------------------------------
(* What the user does.                                                     *)

Snapshot(w) == w.of \in {"dedupe", "deleteAll"} \/ w.rest # <<>>

\* An event that makes a write keeps the invariant if what it shows and what
\* it writes fit together: the ids are used, the saved are written or will
\* be, the deleted are not; a list without twins stays one; and unless an
\* excuse is noted, no handler held a list and view and write are the same.
LEMMA EventKeeps ==
  ASSUME ProfilesInv,
         NEW kind \in WriteKinds, NEW id \in Ids \cup {None},
         NEW rest \in Seq(Profile), NEW list \in Seq(Profile),
         Store(kind, id, rest, list),
         rest # <<>> => kind = "import",
         Event, shown' \in Seq(Profile), active' \in Profile \cup {None},
         listed' \subseteq used', used \subseteq used', used' \subseteq Ids,
         IdsOf(shown') \cup IdsOf(list) \cup IdsOf(rest) \subseteq used',
         kept' \subseteq used' \cap (IdsOf(list) \cup IdsOf(rest) \cup Coming),
         gone' \subseteq used' \ (IdsOf(list) \cup IdsOf(rest) \cup Coming),
         excuses \subseteq excuses', excuses' \subseteq Excuses,
         "reimport" \notin excuses' => OneEntryPerId(shown') /\ OneEntryPerId(list),
         excuses' = {} => /\ ~SnapshotHeld
                          /\ kind \notin {"dedupe", "deleteAll"} => shown' = list \o rest
  PROVE  ProfilesInv'
<1>1. ProfilesTypeOK /\ IdsAreUsed /\ OnlyImportsGoOn /\ IdsAreUnique /\ ShownLeads
  BY DEF ProfilesInv
<1>2. /\ shown \in Seq(Profile) /\ cache \in Seq(Profile) /\ disk \in Seq(Profile)
      /\ writes \in Seq(Writes)
  BY <1>1, TypesAre
<1>3. /\ cache' = list
      /\ writes' \in Seq(Writes) /\ writes' # <<>>
      /\ Len(writes) \in Nat /\ Len(writes') = Len(writes) + 1
      /\ DOMAIN writes = 1..Len(writes) /\ DOMAIN writes' = 1..(Len(writes) + 1)
      /\ \A i \in DOMAIN writes : writes'[i] = writes[i]
      /\ Last(writes') = writes'[Len(writes) + 1]
      /\ Last(writes').of = kind /\ Last(writes').rest = rest /\ Last(writes').list = list
      /\ Coming' = Coming \cup IdsOf(rest)
  BY <1>2, Stored
<1>4. /\ DOMAIN writes' = DOMAIN writes \cup {Len(writes')}
      /\ writes'[Len(writes')].of = kind /\ writes'[Len(writes')].rest = rest
      /\ writes'[Len(writes')].list = list
  BY <1>3
<1>5. disk' = disk /\ failures' = failures /\ events' = events + 1 /\ events < MaxEvents
  BY DEF Event
<1>6. events' \in 0..MaxEvents /\ failures' \in 0..MaxFailures
  BY <1>1, <1>5, BoundsAssumption DEF ProfilesTypeOK
<1>7. ProfilesTypeOK'
  BY <1>2, <1>3, <1>5, <1>6 DEF ProfilesTypeOK, Writes, WriteKinds
<1>8. IdsAreUsed'
  <2>1. IdsOf(shown') \cup IdsOf(cache') \cup IdsOf(disk') \subseteq used'
    BY <1>1, <1>3, <1>5 DEF IdsAreUsed
  <2>2. \A i \in DOMAIN writes' : IdsOf(writes'[i].rest) \cup IdsOf(writes'[i].list) \subseteq used'
    BY <1>1, <1>3, <1>4 DEF IdsAreUsed
  <2> QED
    BY <2>1, <2>2 DEF IdsAreUsed
<1>9. OnlyImportsGoOn'
  BY <1>1, <1>3, <1>4 DEF OnlyImportsGoOn
<1>10. MemoryLeads'
  BY <1>3 DEF MemoryLeads, AtRest
<1>11. IdsAreUnique'
  <2> SUFFICES ASSUME "reimport" \notin excuses'
               PROVE  /\ OneEntryPerId(shown') /\ OneEntryPerId(cache') /\ OneEntryPerId(disk')
                      /\ \A i \in DOMAIN writes' : OneEntryPerId(writes'[i].list)
    BY DEF IdsAreUnique
  <2>1. OneEntryPerId(disk) /\ \A i \in DOMAIN writes : OneEntryPerId(writes[i].list)
    BY <1>1 DEF IdsAreUnique
  <2> QED
    BY <1>3, <1>4, <1>5, <2>1
<1>12. ShownLeads'
  <2> SUFFICES ASSUME excuses' = {}
               PROVE  /\ \A i \in DOMAIN writes' : Snapshot(writes'[i]) => i = Len(writes')
                      /\ Last(writes').of \notin {"dedupe", "deleteAll"} =>
                           shown' = cache' \o Last(writes').rest
    BY <1>3 DEF ShownLeads, AtRest, Snapshot
  <2>1. \A i \in DOMAIN writes : ~Snapshot(writes[i])
    BY DEF SnapshotHeld, Snapshot
  <2> QED
    BY <1>3, <1>4, <2>1
<1> QED
  BY <1>7, <1>8, <1>9, <1>10, <1>11, <1>12 DEF ProfilesInv

\* Without an excuse, and with no handler that holds a list, view and memory
\* have the same list.
LEMMA ViewIsMemory ==
  ASSUME ProfilesInv, excuses = {}, ~SnapshotHeld
  PROVE  shown = cache /\ OneEntryPerId(shown)
<1>1. ProfilesTypeOK /\ ShownLeads /\ IdsAreUnique
  BY DEF ProfilesInv
<1>2. cache \in Seq(Profile) /\ writes \in Seq(Writes)
  BY <1>1, TypesAre
<1>3. OneEntryPerId(shown)
  BY <1>1 DEF IdsAreUnique
<1>4. CASE writes = <<>>
  BY <1>1, <1>3, <1>4 DEF ShownLeads, AtRest
<1>5. CASE writes # <<>>
  <2>1. Len(writes) \in DOMAIN writes
    BY <1>2, <1>5, EmptySeq, LenProperties
  <2>2. Last(writes).of \notin {"dedupe", "deleteAll"} /\ Last(writes).rest = <<>>
    BY <2>1 DEF SnapshotHeld, Last
  <2>3. shown = cache \o <<>>
    BY <1>1, <1>5, <2>2 DEF ShownLeads, AtRest
  <2> QED
    BY <1>2, <1>3, <2>3, ConcatEmptySeq
<1> QED
  BY <1>4, <1>5

\* What an event may note.
LEMMA ExcusesNoted ==
  ASSUME ProfilesInv, NEW batch \in Seq(Profile)
  PROVE  /\ excuses \subseteq Excuses
         /\ Racing \subseteq Excuses /\ Reimporting(batch) \subseteq Excuses
         /\ Racing = {} => ~SnapshotHeld
         /\ "reimport" \notin Reimporting(batch) =>
              IdsOf(batch) \cap IdsOf(shown) = {} /\ OneEntryPerId(batch)
         /\ "reimport" \notin Racing
<1>1. excuses \subseteq Excuses
  BY DEF ProfilesInv, ProfilesTypeOK
<1> QED
  BY <1>1 DEF Racing, Reimporting, Excuses, OneEntryPerId

LEMMA InvTypes ==
  ASSUME ProfilesInv
  PROVE  /\ ProfilesTypeOK
         /\ shown \in Seq(Profile) /\ cache \in Seq(Profile) /\ disk \in Seq(Profile)
         /\ writes \in Seq(Writes) /\ active \in Profile \cup {None}
         /\ Coming \subseteq used /\ listed \subseteq used /\ used \subseteq Ids
         /\ kept \subseteq used /\ gone \subseteq used
         /\ IdsOf(shown) \cup IdsOf(cache) \cup IdsOf(disk) \subseteq used
         /\ kept \subseteq IdsOf(cache) \cup Coming
         /\ gone \cap (IdsOf(cache) \cup Coming) = {}
         /\ "reimport" \notin excuses => OneEntryPerId(shown) /\ OneEntryPerId(cache)
<1>1. ProfilesTypeOK /\ IdsAreUsed /\ MemoryLeads /\ IdsAreUnique
  BY DEF ProfilesInv
<1>2. Coming \subseteq used
  BY <1>1 DEF IdsAreUsed, Coming
<1>3. active \in Profile \cup {None} /\ listed \subseteq used
  BY <1>1 DEF ProfilesTypeOK
<1> QED
  BY <1>1, <1>2, <1>3, TypesAre DEF IdsAreUsed, MemoryLeads, IdsAreUnique

LEMMA AddedKeeps ==
  ASSUME ProfilesInv, NEW p \in Profile, Added(p)
  PROVE  ProfilesInv'
<1> DEFINE list == Saved(cache, p)
<1>1. /\ p.id \in Ids /\ p.id \notin used
      /\ shown' = Append(shown, p) /\ active' = active
      /\ Store("save", p.id, <<>>, list) /\ Event
      /\ used' = used \cup {p.id} /\ listed' = listed \cup {p.id}
      /\ kept' = kept \cup {p.id} /\ gone' = gone \ {p.id}
      /\ excuses' = excuses \cup Racing
  BY ProfileFields DEF Added, Enlists, Wants
<1>2. /\ list \in Seq(Profile) /\ IdsOf(list) = IdsOf(cache) \cup {p.id}
      /\ OneEntryPerId(cache) => OneEntryPerId(list)
      /\ list = Append(cache, p)
  BY <1>1, InvTypes, SavedLists
<1>3. /\ shown' \in Seq(Profile) /\ IdsOf(shown') = IdsOf(shown) \cup {p.id}
      /\ OneEntryPerId(shown) => OneEntryPerId(shown')
  BY <1>1, InvTypes, Appended, IdsOfAppend, UniqueAppend
<1>4. IdsOf(<<>>) = {} /\ <<>> \in Seq(Profile) /\ list \o <<>> = list
  BY <1>2, IdsOfParts, EmptySeq, ConcatEmptySeq
<1>5. ASSUME excuses' = {} PROVE ~SnapshotHeld /\ shown' = list \o <<>>
  BY <1>1, <1>2, <1>4, <1>5, ExcusesNoted, ViewIsMemory, EmptySeq
<1>6. "reimport" \notin excuses' => OneEntryPerId(shown') /\ OneEntryPerId(list)
  BY <1>1, <1>2, <1>3, InvTypes
<1>7. excuses \subseteq excuses' /\ excuses' \subseteq Excuses
  BY <1>1, <1>4, ExcusesNoted
<1>8. "save" \in WriteKinds
  BY DEF WriteKinds
<1> HIDE DEF list
<1>9. /\ used \subseteq used' /\ used' \subseteq Ids /\ listed' \subseteq used'
      /\ IdsOf(shown') \cup IdsOf(list) \cup IdsOf(<<>>) \subseteq used'
      /\ kept' \subseteq used' \cap (IdsOf(list) \cup IdsOf(<<>>) \cup Coming)
      /\ gone' \subseteq used' \ (IdsOf(list) \cup IdsOf(<<>>) \cup Coming)
  BY <1>1, <1>2, <1>3, <1>4, InvTypes
<1> QED
  BY <1>1, <1>2, <1>3, <1>4, <1>5, <1>6, <1>7, <1>8, <1>9, InvTypes, EventKeeps

LEMMA UpdatedKeeps ==
  ASSUME ProfilesInv, NEW p \in Profile, Updated(p)
  PROVE  ProfilesInv'
<1> DEFINE list == Saved(cache, p)
           new == [i \in DOMAIN shown |-> IF shown[i].id = p.id THEN p ELSE shown[i]]
<1>1. /\ p.id \in Ids /\ p.id \in listed
      /\ shown' = new /\ active' = active
      /\ Store("save", p.id, <<>>, list) /\ Event
      /\ used' = used /\ listed' = listed /\ kept' = kept \cup {p.id} /\ gone' = gone \ {p.id}
      /\ excuses' = excuses \cup Racing \cup Stale(p.id)
  BY ProfileFields DEF Updated, Wants
<1>2. /\ list \in Seq(Profile) /\ IdsOf(list) = IdsOf(cache) \cup {p.id}
      /\ OneEntryPerId(cache) => OneEntryPerId(list)
      /\ OneEntryPerId(cache) /\ p.id \in IdsOf(cache) =>
           list = [i \in DOMAIN cache |-> IF cache[i].id = p.id THEN p ELSE cache[i]]
  BY InvTypes, SavedLists
<1>3. /\ new \in Seq(Profile) /\ IdsOf(new) = IdsOf(shown)
      /\ OneEntryPerId(shown) => OneEntryPerId(new)
  BY InvTypes, ReplacedLists
<1>4. IdsOf(<<>>) = {} /\ <<>> \in Seq(Profile) /\ list \o <<>> = list
  BY <1>2, IdsOfParts, EmptySeq, ConcatEmptySeq
<1>5. ASSUME excuses' = {} PROVE ~SnapshotHeld /\ shown' = list \o <<>>
  <2>1. /\ ~SnapshotHeld /\ shown = cache /\ OneEntryPerId(cache)
        /\ p.id \in IdsOf(shown)
    BY <1>1, <1>5, ExcusesNoted, ViewIsMemory, EmptySeq DEF Stale
  <2> QED
    BY <1>1, <1>2, <1>4, <2>1
<1> HIDE DEF list, new
<1>6. "reimport" \notin excuses' => OneEntryPerId(shown') /\ OneEntryPerId(list)
  BY <1>1, <1>2, <1>3, InvTypes
<1>7. excuses \subseteq excuses' /\ excuses' \subseteq Excuses
  BY <1>1, <1>4, ExcusesNoted DEF Stale, Excuses
<1>8. "save" \in WriteKinds
  BY DEF WriteKinds
<1>9. /\ used \subseteq used' /\ used' \subseteq Ids /\ listed' \subseteq used'
      /\ IdsOf(shown') \cup IdsOf(list) \cup IdsOf(<<>>) \subseteq used'
      /\ kept' \subseteq used' \cap (IdsOf(list) \cup IdsOf(<<>>) \cup Coming)
      /\ gone' \subseteq used' \ (IdsOf(list) \cup IdsOf(<<>>) \cup Coming)
  BY <1>1, <1>2, <1>3, <1>4, InvTypes
<1> QED
  BY <1>1, <1>2, <1>3, <1>4, <1>5, <1>6, <1>7, <1>8, <1>9, InvTypes, EventKeeps

LEMMA DeletedKeeps ==
  ASSUME ProfilesInv, NEW id \in Ids, Deleted(id)
  PROVE  ProfilesInv'
<1> DEFINE list == Without(cache, id)
<1>1. /\ id \in listed
      /\ shown' = Without(shown, id)
      /\ Store("delete", id, <<>>, list) /\ Event
      /\ used' = used /\ listed' = listed /\ kept' = kept \ {id} /\ gone' = gone \cup ({id} \ Coming)
      /\ excuses' = excuses \cup Racing
  BY DEF Deleted, Drops
<1>2. active' \in Profile \cup {None}
  BY InvTypes DEF Deleted, copyWithActive
<1>3. /\ list \in Seq(Profile) /\ IdsOf(list) = IdsOf(cache) \ {id}
      /\ OneEntryPerId(cache) => OneEntryPerId(list)
      /\ shown' \in Seq(Profile) /\ IdsOf(shown') = IdsOf(shown) \ {id}
      /\ OneEntryPerId(shown) => OneEntryPerId(shown')
  BY <1>1, InvTypes, WithoutDrops
<1>4. IdsOf(<<>>) = {} /\ <<>> \in Seq(Profile) /\ list \o <<>> = list
  BY <1>3, IdsOfParts, EmptySeq, ConcatEmptySeq
<1>5. ASSUME excuses' = {} PROVE ~SnapshotHeld /\ shown' = list \o <<>>
  <2>1. ~SnapshotHeld /\ shown = cache
    BY <1>1, <1>5, ExcusesNoted, ViewIsMemory, EmptySeq
  <2> QED
    BY <1>1, <1>4, <2>1
<1> HIDE DEF list
<1>6. "reimport" \notin excuses' => OneEntryPerId(shown') /\ OneEntryPerId(list)
  BY <1>1, <1>3, InvTypes
<1>7. excuses \subseteq excuses' /\ excuses' \subseteq Excuses
  BY <1>1, <1>4, ExcusesNoted
<1>8. "delete" \in WriteKinds
  BY DEF WriteKinds
<1>9. /\ used \subseteq used' /\ used' \subseteq Ids /\ listed' \subseteq used'
      /\ IdsOf(shown') \cup IdsOf(list) \cup IdsOf(<<>>) \subseteq used'
      /\ kept' \subseteq used' \cap (IdsOf(list) \cup IdsOf(<<>>) \cup Coming)
      /\ gone' \subseteq used' \ (IdsOf(list) \cup IdsOf(<<>>) \cup Coming)
  BY <1>1, <1>3, <1>4, InvTypes
<1> QED
  BY <1>1, <1>2, <1>3, <1>4, <1>5, <1>6, <1>7, <1>8, <1>9, EventKeeps

LEMMA ImportedEncryptedKeeps ==
  ASSUME ProfilesInv, NEW p \in Profile, ImportedEncrypted(p)
  PROVE  ProfilesInv'
<1> DEFINE list == Saved(cache, p)
<1>1. /\ p.id \in Ids
      /\ shown' = Append(shown, p) /\ active' = p
      /\ Store("save", p.id, <<>>, list) /\ Event
      /\ used' = used \cup {p.id} /\ listed' = listed \cup {p.id}
      /\ kept' = kept \cup {p.id} /\ gone' = gone \ {p.id}
      /\ excuses' = excuses \cup Racing \cup Reimporting(<<p>>)
  BY ProfileFields DEF ImportedEncrypted, Enlists, Wants
<1>2. /\ list \in Seq(Profile) /\ IdsOf(list) = IdsOf(cache) \cup {p.id}
      /\ OneEntryPerId(cache) => OneEntryPerId(list)
      /\ p.id \notin IdsOf(cache) => list = Append(cache, p)
  BY InvTypes, SavedLists
<1>3. /\ shown' \in Seq(Profile) /\ IdsOf(shown') = IdsOf(shown) \cup {p.id}
      /\ OneEntryPerId(shown) /\ p.id \notin IdsOf(shown) => OneEntryPerId(shown')
  BY <1>1, InvTypes, Appended, IdsOfAppend, UniqueAppend
<1>4. IdsOf(<<>>) = {} /\ <<>> \in Seq(Profile) /\ list \o <<>> = list
  BY <1>2, IdsOfParts, EmptySeq, ConcatEmptySeq
<1>5. <<p>> \in Seq(Profile) /\ p.id \in IdsOf(<<p>>)
  <2>1. <<p>> \in Seq(Profile) /\ DOMAIN <<p>> = 1..1 /\ <<p>>[1] = p
    OBVIOUS
  <2> QED
    BY <2>1 DEF IdsOf
<1>6. "reimport" \notin excuses' => p.id \notin IdsOf(shown)
  BY <1>1, <1>5, ExcusesNoted
<1>7. ASSUME excuses' = {} PROVE ~SnapshotHeld /\ shown' = list \o <<>>
  <2>1. ~SnapshotHeld /\ shown = cache
    BY <1>1, <1>5, <1>7, ExcusesNoted, ViewIsMemory
  <2>2. p.id \notin IdsOf(cache)
    BY <1>6, <1>7, <2>1
  <2> QED
    BY <1>1, <1>2, <1>4, <2>1, <2>2
<1> HIDE DEF list
<1>8. "reimport" \notin excuses' => OneEntryPerId(shown') /\ OneEntryPerId(list)
  BY <1>1, <1>2, <1>3, <1>6, InvTypes
<1>9. excuses \subseteq excuses' /\ excuses' \subseteq Excuses
  BY <1>1, <1>5, ExcusesNoted
<1>10. "save" \in WriteKinds
  BY DEF WriteKinds
<1>11. /\ used \subseteq used' /\ used' \subseteq Ids /\ listed' \subseteq used'
       /\ IdsOf(shown') \cup IdsOf(list) \cup IdsOf(<<>>) \subseteq used'
       /\ kept' \subseteq used' \cap (IdsOf(list) \cup IdsOf(<<>>) \cup Coming)
       /\ gone' \subseteq used' \ (IdsOf(list) \cup IdsOf(<<>>) \cup Coming)
  BY <1>1, <1>2, <1>3, <1>4, InvTypes
<1> QED
  BY <1>1, <1>2, <1>3, <1>4, <1>7, <1>8, <1>9, <1>10, <1>11, EventKeeps

LEMMA ImportedKeeps ==
  ASSUME ProfilesInv, NEW batch \in Batches, Imported(batch)
  PROVE  ProfilesInv'
<1> DEFINE list == Saved(cache, batch[1])
           rest == Tail(batch)
<1>1. batch \in Seq(Profile) /\ Len(batch) \in Nat /\ Len(batch) > 0 /\ DOMAIN batch = 1..Len(batch)
  <2>1. PICK n \in 1..MaxBatch : batch \in [1..n -> Profile]
    BY DEF Batches
  <2>2. n \in Nat /\ n > 0
    BY BoundsAssumption
  <2> QED
    BY <2>1, <2>2, FunctionIsList
<1>2. batch # <<>>
  BY <1>1, EmptySeq
<1>3. /\ batch[1] \in Profile /\ batch[1] = Head(batch) /\ rest \in Seq(Profile)
      /\ IdsOf(batch) = {batch[1].id} \cup IdsOf(rest)
      /\ Last(batch) \in Profile
  BY <1>1, <1>2, Taken, IdsOfParts, ElementOfSeq DEF Last
<1>4. /\ batch[1].id \in Ids
      /\ shown' = shown \o batch /\ active' = Last(batch)
      /\ Store("import", batch[1].id, rest, list) /\ Event
      /\ used' = used \cup IdsOf(batch) /\ listed' = listed \cup IdsOf(batch)
      /\ kept' = kept \cup IdsOf(batch) /\ gone' = gone \ IdsOf(batch)
      /\ excuses' = excuses \cup Racing \cup Reimporting(batch)
  BY <1>3, ProfileFields DEF Imported, Enlists, Wants
<1>5. /\ list \in Seq(Profile) /\ IdsOf(list) = IdsOf(cache) \cup {batch[1].id}
      /\ OneEntryPerId(cache) => OneEntryPerId(list)
      /\ batch[1].id \notin IdsOf(cache) => list = Append(cache, batch[1])
  BY <1>3, InvTypes, SavedLists
<1>6. /\ shown' \in Seq(Profile) /\ IdsOf(shown') = IdsOf(shown) \cup IdsOf(batch)
      /\ OneEntryPerId(shown) /\ OneEntryPerId(batch) /\ IdsOf(shown) \cap IdsOf(batch) = {} =>
           OneEntryPerId(shown')
  BY <1>1, <1>4, InvTypes, ConcatProperties, IdsOfConcat, UniqueConcat
<1>7. "reimport" \notin excuses' => IdsOf(batch) \cap IdsOf(shown) = {} /\ OneEntryPerId(batch)
  BY <1>1, <1>4, ExcusesNoted
<1>8. ASSUME excuses' = {} PROVE ~SnapshotHeld /\ shown' = list \o rest
  <2>1. ~SnapshotHeld /\ shown = cache
    BY <1>1, <1>4, <1>8, ExcusesNoted, ViewIsMemory
  <2>2. batch[1].id \notin IdsOf(cache)
    BY <1>3, <1>7, <1>8, <2>1
  <2>3. list = Append(cache, batch[1])
    BY <1>5, <2>2
  <2>4. cache \in Seq(Profile)
    BY InvTypes
  <2>5. Append(cache, batch[1]) \o rest = cache \o batch
    BY <1>1, <1>2, <1>3, <2>4, TakenOver
  <2> QED
    BY <1>4, <2>1, <2>3, <2>5
<1> HIDE DEF list, rest
<1>9. "reimport" \notin excuses' => OneEntryPerId(shown') /\ OneEntryPerId(list)
  BY <1>4, <1>5, <1>6, <1>7, InvTypes
<1>10. excuses \subseteq excuses' /\ excuses' \subseteq Excuses
  BY <1>1, <1>4, ExcusesNoted
<1>11. "import" \in WriteKinds
  BY DEF WriteKinds
<1>12. IdsOf(batch) \subseteq Ids
  BY <1>1, IdsOfParts
<1>13. /\ used \subseteq used' /\ used' \subseteq Ids /\ listed' \subseteq used'
       /\ IdsOf(shown') \cup IdsOf(list) \cup IdsOf(rest) \subseteq used'
       /\ kept' \subseteq used' \cap (IdsOf(list) \cup IdsOf(rest) \cup Coming)
       /\ gone' \subseteq used' \ (IdsOf(list) \cup IdsOf(rest) \cup Coming)
  <2>1. used \subseteq used' /\ used' \subseteq Ids /\ listed' \subseteq used'
    BY <1>4, <1>12, InvTypes
  <2>2. IdsOf(shown') \cup IdsOf(list) \cup IdsOf(rest) \subseteq used'
    BY <1>3, <1>4, <1>5, <1>6, InvTypes
  <2>3. kept' \subseteq used' \cap (IdsOf(list) \cup IdsOf(rest) \cup Coming)
    BY <1>3, <1>4, <1>5, InvTypes
  <2>4. gone' \subseteq used' \ (IdsOf(list) \cup IdsOf(rest) \cup Coming)
    BY <1>3, <1>4, <1>5, InvTypes
  <2> QED
    BY <2>1, <2>2, <2>3, <2>4
<1>14. /\ list \in Seq(Profile) /\ rest \in Seq(Profile) /\ batch[1].id \in Ids \cup {None}
       /\ shown' \in Seq(Profile) /\ active' \in Profile \cup {None}
       /\ Store("import", batch[1].id, rest, list) /\ Event
  BY <1>3, <1>4, <1>5, <1>6
<1> QED
  BY <1>8, <1>9, <1>10, <1>11, <1>13, <1>14, EventKeeps

LEMMA DeletedDuplicatesKeeps ==
  ASSUME ProfilesInv, DeletedDuplicates
  PROVE  ProfilesInv'
<1>1. /\ Store("dedupe", None, <<>>, deduped) /\ Event
      /\ kept' = kept \cap IdsOf(deduped)
      /\ gone' = (gone \cup (IdsOf(shown) \ Coming)) \ IdsOf(deduped)
      /\ excuses' = excuses \cup Racing
      /\ shown' = shown /\ active' = active /\ listed' = listed /\ used' = used
  BY DEF DeletedDuplicates
<1>2. /\ deduped \in Seq(Profile) /\ IdsOf(deduped) \subseteq IdsOf(shown)
      /\ OneEntryPerId(shown) => OneEntryPerId(deduped)
  BY InvTypes, DedupedKeeps
<1>3. IdsOf(<<>>) = {} /\ <<>> \in Seq(Profile)
  BY IdsOfParts, EmptySeq
<1>4. excuses' = {} => ~SnapshotHeld
  BY <1>1, <1>3, ExcusesNoted
<1>5. excuses \subseteq excuses' /\ excuses' \subseteq Excuses
  BY <1>1, <1>3, ExcusesNoted
<1>6. "reimport" \notin excuses' => OneEntryPerId(shown') /\ OneEntryPerId(deduped)
  BY <1>1, <1>2, InvTypes
<1>7. "dedupe" \in WriteKinds
  BY DEF WriteKinds
<1>8. /\ used \subseteq used' /\ used' \subseteq Ids /\ listed' \subseteq used'
      /\ IdsOf(shown') \cup IdsOf(deduped) \cup IdsOf(<<>>) \subseteq used'
      /\ kept' \subseteq used' \cap (IdsOf(deduped) \cup IdsOf(<<>>) \cup Coming)
      /\ gone' \subseteq used' \ (IdsOf(deduped) \cup IdsOf(<<>>) \cup Coming)
  BY <1>1, <1>2, <1>3, InvTypes
<1> QED
  BY <1>1, <1>2, <1>3, <1>4, <1>5, <1>6, <1>7, <1>8, InvTypes, EventKeeps

LEMMA DeletedAllKeeps ==
  ASSUME ProfilesInv, DeletedAll
  PROVE  ProfilesInv'
<1>1. /\ Store("deleteAll", None, <<>>, <<>>) /\ Event
      /\ kept' = kept \ (IdsOf(shown) \cup kept)
      /\ gone' = gone \cup ((IdsOf(shown) \cup kept) \ Coming)
      /\ excuses' = excuses \cup Racing
      /\ shown' = shown /\ active' = active /\ listed' = listed /\ used' = used
  BY DEF DeletedAll, Drops
<1>2. IdsOf(<<>>) = {} /\ <<>> \in Seq(Profile) /\ OneEntryPerId(<<>>)
  BY IdsOfParts, EmptySeq, UniqueEmpty
<1>3. excuses' = {} => ~SnapshotHeld
  BY <1>1, <1>2, ExcusesNoted
<1>4. excuses \subseteq excuses' /\ excuses' \subseteq Excuses
  BY <1>1, <1>2, ExcusesNoted
<1>5. "reimport" \notin excuses' => OneEntryPerId(shown') /\ OneEntryPerId(<<>>)
  BY <1>1, <1>2, InvTypes
<1>6. "deleteAll" \in WriteKinds
  BY DEF WriteKinds
<1>7. /\ used \subseteq used' /\ used' \subseteq Ids /\ listed' \subseteq used'
      /\ IdsOf(shown') \cup IdsOf(<<>>) \cup IdsOf(<<>>) \subseteq used'
      /\ kept' \subseteq used' \cap (IdsOf(<<>>) \cup IdsOf(<<>>) \cup Coming)
      /\ gone' \subseteq used' \ (IdsOf(<<>>) \cup IdsOf(<<>>) \cup Coming)
  BY <1>1, <1>2, InvTypes
<1> QED
  BY <1>1, <1>2, <1>3, <1>4, <1>5, <1>6, <1>7, InvTypes, EventKeeps

LEMMA ActivatedKeeps ==
  ASSUME ProfilesInv, NEW i \in DOMAIN shown, Activated(i)
  PROVE  ProfilesInv'
<1>1. /\ shown' = shown /\ cache' = cache /\ disk' = disk /\ writes' = writes
      /\ listed' = listed /\ used' = used /\ kept' = kept /\ gone' = gone /\ excuses' = excuses
      /\ failures' = failures /\ events' = events + 1 /\ events < MaxEvents
      /\ active' = shown[i]
  BY DEF Activated, Event, history
<1>2. ProfilesTypeOK /\ IdsAreUsed /\ OnlyImportsGoOn /\ MemoryLeads /\ IdsAreUnique /\ ShownLeads
  BY DEF ProfilesInv
<1>3. shown[i] \in Profile
  BY InvTypes, ElementOfSeq, LenProperties
<1>4. events' \in 0..MaxEvents
  BY <1>1, <1>2, BoundsAssumption DEF ProfilesTypeOK
<1>5. ProfilesTypeOK'
  BY <1>1, <1>2, <1>3, <1>4 DEF ProfilesTypeOK
<1>6. IdsAreUsed' /\ OnlyImportsGoOn'
  BY <1>1, <1>2 DEF IdsAreUsed, OnlyImportsGoOn
<1>7. MemoryLeads'
  BY <1>1, <1>2 DEF MemoryLeads, AtRest, Coming
<1>8. IdsAreUnique' /\ ShownLeads'
  BY <1>1, <1>2 DEF IdsAreUnique, ShownLeads, AtRest
<1> QED
  BY <1>5, <1>6, <1>7, <1>8 DEF ProfilesInv

--------------------------------------------------------------------------------
(* What the platform answers, and the restart.                             *)

\* Once its write is answered, well or not, a handler goes on: memory and
\* what is coming have the ids they had, the last write has memory's list,
\* and without an excuse the view stays ahead of both.
LEMMA Resumed ==
  ASSUME ProfilesInv, writes # <<>>, Resumes(Head(writes))
  PROVE  /\ shown' \in Seq(Profile) /\ cache' \in Seq(Profile) /\ writes' \in Seq(Writes)
         /\ IdsOf(shown') \cup IdsOf(cache') \subseteq used
         /\ \A i \in DOMAIN writes' : IdsOf(writes'[i].rest) \cup IdsOf(writes'[i].list) \subseteq used
         /\ \A i \in DOMAIN writes' : writes'[i].rest # <<>> => writes'[i].of = "import"
         /\ writes' # <<>> => Last(writes').list = cache'
         /\ writes' = <<>> => cache' = Head(writes).list
         /\ IdsOf(cache') \cup Coming' = IdsOf(cache) \cup Coming
         /\ "reimport" \notin excuses =>
              /\ OneEntryPerId(shown') /\ OneEntryPerId(cache')
              /\ \A i \in DOMAIN writes' : OneEntryPerId(writes'[i].list)
         /\ excuses = {} =>
              /\ \A i \in DOMAIN writes' : Snapshot(writes'[i]) => i = Len(writes')
              /\ writes' = <<>> => shown' = cache'
              /\ writes' # <<>> /\ Last(writes').of \notin {"dedupe", "deleteAll"} =>
                   shown' = cache' \o Last(writes').rest
         /\ Head(writes).list \in Seq(Profile) /\ IdsOf(Head(writes).list) \subseteq used
         /\ "reimport" \notin excuses => OneEntryPerId(Head(writes).list)
<1> DEFINE w == Head(writes)
           tail == Tail(writes)
<1>1. ProfilesTypeOK /\ IdsAreUsed /\ OnlyImportsGoOn /\ MemoryLeads /\ IdsAreUnique /\ ShownLeads
  BY DEF ProfilesInv
<1>2. writes \in Seq(Writes) /\ cache \in Seq(Profile) /\ shown \in Seq(Profile)
  BY <1>1, TypesAre
<1>3. /\ w \in Writes /\ w = writes[1] /\ 1 \in DOMAIN writes
      /\ tail \in Seq(Writes)
      /\ Len(writes) \in Nat /\ Len(writes) > 0 /\ DOMAIN writes = 1..Len(writes)
      /\ Len(tail) = Len(writes) - 1 /\ DOMAIN tail = 1..(Len(writes) - 1)
      /\ \A i \in DOMAIN tail : tail[i] = writes[i + 1]
      /\ tail = <<>> <=> Len(writes) = 1
      /\ Last(writes) = writes[Len(writes)]
  BY <1>2, Taken DEF Last
<1>4. \A i \in DOMAIN tail : i + 1 \in DOMAIN writes
  BY <1>3
<1>5. /\ w.rest \in Seq(Profile) /\ w.list \in Seq(Profile)
      /\ IdsOf(w.rest) \cup IdsOf(w.list) \subseteq used
      /\ w.rest # <<>> => w.of = "import"
      /\ "reimport" \notin excuses => OneEntryPerId(w.list)
  BY <1>1, <1>3, WriteFields DEF IdsAreUsed, OnlyImportsGoOn, IdsAreUnique
<1>6. Last(writes).list = cache
  BY <1>1 DEF MemoryLeads, AtRest
<1>7. tail = <<>> => w.list = cache
  BY <1>3, <1>6
<1>8. tail # <<>> => Last(tail) = Last(writes) /\ Len(tail) \in DOMAIN tail
  BY <1>3 DEF Last
<1>9. Coming = IdsOf(w.rest) \cup ComingOf(tail)
  BY <1>2, ComingIs, ComingParts
<1>10. IdsOf(shown) \cup IdsOf(cache) \subseteq used
  BY <1>1 DEF IdsAreUsed
<1>11. \A i \in DOMAIN tail :
         /\ IdsOf(tail[i].rest) \cup IdsOf(tail[i].list) \subseteq used
         /\ tail[i].rest # <<>> => tail[i].of = "import"
         /\ "reimport" \notin excuses => OneEntryPerId(tail[i].list)
  BY <1>1, <1>3, <1>4 DEF IdsAreUsed, OnlyImportsGoOn, IdsAreUnique
<1>12. ASSUME excuses = {}
       PROVE  /\ \A i \in DOMAIN tail : Snapshot(tail[i]) => i = Len(tail)
              /\ Snapshot(w) => tail = <<>>
              /\ Last(writes).of \notin {"dedupe", "deleteAll"} => shown = cache \o Last(writes).rest
  <2>1. \A i \in DOMAIN writes : Snapshot(writes[i]) => i = Len(writes)
    BY <1>1, <1>12 DEF ShownLeads, Snapshot
  <2>2. \A i \in DOMAIN tail : Snapshot(tail[i]) => i + 1 = Len(writes)
    BY <1>3, <1>4, <2>1
  <2>3. \A i \in DOMAIN tail : Snapshot(tail[i]) => i = Len(tail)
    BY <1>3, <2>2
  <2>4. Snapshot(w) => tail = <<>>
    BY <1>3, <2>1
  <2> QED
    BY <1>1, <1>12, <2>3, <2>4 DEF ShownLeads, AtRest
<1>13. "reimport" \notin excuses => OneEntryPerId(shown) /\ OneEntryPerId(cache)
  BY <1>1 DEF IdsAreUnique
<1> HIDE DEF w, tail
<1>14. CASE SavesNext(w)
  <2> DEFINE p == Head(w.rest)
             more == Tail(w.rest)
             last == Write("import", p.id, more, cache')
  <2>1. /\ w.rest # <<>> /\ shown' = shown
        /\ cache' = Saved(cache, p)
        /\ writes' = Append(tail, last)
    BY <1>14 DEF SavesNext, tail
  <2>2. /\ p \in Profile /\ more \in Seq(Profile) /\ p.id \in Ids
        /\ IdsOf(w.rest) = {p.id} \cup IdsOf(more)
    BY <1>5, <2>1, Taken, IdsOfParts, ProfileFields
  <2>3. /\ cache' \in Seq(Profile) /\ IdsOf(cache') = IdsOf(cache) \cup {p.id}
        /\ OneEntryPerId(cache) => OneEntryPerId(cache')
        /\ p.id \notin IdsOf(cache) => cache' = Append(cache, p)
    BY <1>2, <2>1, <2>2, SavedLists
  <2>4. last \in Writes /\ last.of = "import" /\ last.rest = more /\ last.list = cache'
    <3>1. "import" \in WriteKinds /\ p.id \in Ids \cup {None}
      BY <2>2 DEF WriteKinds
    <3> HIDE DEF p, more
    <3> QED
      BY <2>2, <2>3, <3>1, WriteFields
  <2> HIDE DEF p, more, last
  <2>5. /\ writes' \in Seq(Writes) /\ writes' # <<>>
        /\ Len(tail) \in Nat /\ Len(writes') = Len(tail) + 1
        /\ DOMAIN tail = 1..Len(tail) /\ DOMAIN writes' = 1..(Len(tail) + 1)
        /\ \A i \in DOMAIN tail : writes'[i] = tail[i]
        /\ writes'[Len(tail) + 1] = last
    <3>0. tail \in Seq(Writes) /\ last \in Writes
      BY <1>3, <2>4
    <3>1. /\ Append(tail, last) \in Seq(Writes)
          /\ Len(tail) \in Nat /\ Len(Append(tail, last)) = Len(tail) + 1
          /\ DOMAIN tail = 1..Len(tail) /\ DOMAIN Append(tail, last) = 1..(Len(tail) + 1)
          /\ \A i \in DOMAIN tail : Append(tail, last)[i] = tail[i]
          /\ Append(tail, last)[Len(tail) + 1] = last
      BY <3>0, Appended
    <3>2. Len(writes') # 0
      BY <2>1, <3>1
    <3> QED
      BY <2>1, <3>1, <3>2, EmptySeq
  <2>6. Last(writes') = last
    BY <2>5 DEF Last
  <2>7. \A i \in DOMAIN writes' : (i \in DOMAIN tail /\ writes'[i] = tail[i]) \/ (i = Len(writes') /\ writes'[i] = last)
    BY <2>5
  <2>8. Coming' = ComingOf(tail) \cup IdsOf(more)
    BY <1>3, <2>1, <2>4, ComingIs, ComingParts
  <2>9. IdsOf(cache') \cup Coming' = IdsOf(cache) \cup Coming
    BY <1>9, <2>2, <2>3, <2>8
  <2>10. IdsOf(cache') \cup IdsOf(more) \subseteq used
    BY <1>5, <1>10, <2>2, <2>3
  <2>11. \A i \in DOMAIN writes' : IdsOf(writes'[i].rest) \cup IdsOf(writes'[i].list) \subseteq used
    BY <1>11, <2>4, <2>7, <2>10
  <2>12. \A i \in DOMAIN writes' : writes'[i].rest # <<>> => writes'[i].of = "import"
    BY <1>11, <2>4, <2>7
  <2>13. ASSUME "reimport" \notin excuses
         PROVE  /\ OneEntryPerId(shown') /\ OneEntryPerId(cache')
                /\ \A i \in DOMAIN writes' : OneEntryPerId(writes'[i].list)
    BY <1>11, <1>13, <2>1, <2>3, <2>4, <2>7, <2>13
  <2>14. ASSUME excuses = {}
         PROVE  /\ \A i \in DOMAIN writes' : Snapshot(writes'[i]) => i = Len(writes')
                /\ shown' = cache' \o Last(writes').rest
    <3>1. tail = <<>> /\ DOMAIN tail = {}
      BY <1>12, <2>1, <2>14, <2>5 DEF Snapshot
    <3>2. Last(writes) = w /\ w.of = "import"
      BY <1>3, <1>5, <2>1, <3>1
    <3>3. shown = cache \o w.rest /\ OneEntryPerId(shown)
      BY <1>12, <1>13, <2>14, <3>2
    <3>4. p.id \notin IdsOf(cache)
      BY <1>2, <1>5, <2>1, <3>3, UniqueParts DEF p
    <3>5. Append(cache, p) \o more = cache \o w.rest
      BY <1>2, <1>5, <2>1, TakenOver DEF p, more
    <3>6. cache' = Append(cache, p)
      BY <2>3, <3>4
    <3> QED
      BY <2>1, <2>4, <2>6, <2>7, <3>1, <3>3, <3>5, <3>6
  <2> QED
    BY <1>2, <1>5, <1>10, <2>1, <2>3, <2>4, <2>5, <2>6, <2>9, <2>10, <2>11, <2>12, <2>13, <2>14 DEF w
<1>15. CASE Shows(w) \/ Ends(w)
  <2>1. /\ writes' = tail /\ cache' = cache
        /\ w.rest = <<>>
        /\ \/ w.of \in {"dedupe", "deleteAll"} /\ shown' = w.list
           \/ w.of \notin {"dedupe", "deleteAll"} /\ shown' = shown
    BY <1>5, <1>15 DEF Shows, Ends, tail
  <2>2. IdsOf(cache') \cup Coming' = IdsOf(cache) \cup Coming
    BY <1>9, <2>1, ComingIs, IdsOfParts
  <2>3. shown' \in Seq(Profile) /\ IdsOf(shown') \subseteq used
    BY <1>2, <1>5, <1>10, <2>1
  <2>4. writes' # <<>> => Last(writes').list = cache'
    BY <1>6, <1>8, <2>1
  <2>5. ASSUME excuses = {}
        PROVE  /\ \A i \in DOMAIN writes' : Snapshot(writes'[i]) => i = Len(writes')
               /\ writes' = <<>> => shown' = cache'
               /\ writes' # <<>> /\ Last(writes').of \notin {"dedupe", "deleteAll"} =>
                    shown' = cache' \o Last(writes').rest
    <3>1. CASE w.of \in {"dedupe", "deleteAll"} /\ shown' = w.list
      <4>1. tail = <<>>
        BY <1>12, <2>5, <3>1 DEF Snapshot
      <4> QED
        BY <1>7, <1>12, <2>1, <2>5, <3>1, <4>1
    <3>2. CASE w.of \notin {"dedupe", "deleteAll"} /\ shown' = shown
      <4>1. tail = <<>> => Last(writes) = w
        BY <1>3
      <4>2. tail = <<>> => shown = cache \o <<>>
        BY <1>12, <2>1, <2>5, <3>2, <4>1
      <4>3. cache \o <<>> = cache
        BY <1>2, ConcatEmptySeq
      <4> QED
        BY <1>8, <1>12, <2>1, <2>5, <3>2, <4>2, <4>3
    <3> QED
      BY <2>1, <3>1, <3>2
  <2> QED
    BY <1>2, <1>3, <1>5, <1>7, <1>10, <1>11, <1>13, <2>1, <2>2, <2>3, <2>4, <2>5 DEF w
<1> QED
  BY <1>14, <1>15 DEF Resumes, w

LEMMA Accounted ==
  ASSUME ProfilesInv
  PROVE  /\ writes \in Seq(Writes)
         /\ events \in 0..MaxEvents /\ failures \in 0..MaxFailures
         /\ excuses \subseteq Excuses /\ active \in Profile \cup {None}
         /\ OneEntryPerId(disk) \/ "reimport" \in excuses
         /\ disk \in Seq(Profile) /\ IdsOf(disk) \subseteq used
  BY InvTypes DEF ProfilesInv, ProfilesTypeOK, IdsAreUnique

\* The invariant, put together from what the steps below establish.
LEMMA Rebuilt ==
  ASSUME shown' \in Seq(Profile), cache' \in Seq(Profile), disk' \in Seq(Profile),
         writes' \in Seq(Writes), active' \in Profile \cup {None},
         events' \in 0..MaxEvents, failures' \in 0..MaxFailures,
         listed' \subseteq used', used' \subseteq Ids, kept' \subseteq used', gone' \subseteq used', excuses' \subseteq Excuses,
         IdsAreUsed', OnlyImportsGoOn', MemoryLeads', IdsAreUnique', ShownLeads'
  PROVE  ProfilesInv'
<1>1. ProfilesTypeOK'
  BY DEF ProfilesTypeOK, Writes, WriteKinds
<1> QED
  BY <1>1 DEF ProfilesInv

LEMMA StoresKeeps ==
  ASSUME ProfilesInv, PlatformStores
  PROVE  ProfilesInv'
<1> DEFINE w == Head(writes)
<1>1. /\ writes # <<>> /\ disk' = w.list /\ Resumes(w)
      /\ active' = active /\ events' = events /\ failures' = failures
      /\ listed' = listed /\ used' = used /\ kept' = kept /\ gone' = gone /\ excuses' = excuses
  BY DEF PlatformStores, history
<1>2. IdsAreUsed' /\ OnlyImportsGoOn'
  BY <1>1, Resumed DEF IdsAreUsed, OnlyImportsGoOn
<1>3. MemoryLeads'
  <2>1. writes' # <<>> => Last(writes').list = cache'
    BY <1>1, Resumed
  <2>2. writes' = <<>> => disk' = cache'
    BY <1>1, Resumed
  <2>3. kept' \subseteq IdsOf(cache') \cup Coming' /\ gone' \cap (IdsOf(cache') \cup Coming') = {}
    BY <1>1, Resumed, InvTypes
  <2> QED
    BY <2>1, <2>2, <2>3 DEF MemoryLeads, AtRest
<1>4. IdsAreUnique'
  BY <1>1, Resumed DEF IdsAreUnique
<1>5. ShownLeads'
  BY <1>1, Resumed DEF ShownLeads, AtRest, Snapshot
<1>6. /\ shown' \in Seq(Profile) /\ cache' \in Seq(Profile) /\ disk' \in Seq(Profile)
      /\ writes' \in Seq(Writes)
  BY <1>1, Resumed
<1> QED
  BY <1>1, <1>2, <1>3, <1>4, <1>5, <1>6, InvTypes, Accounted, Rebuilt

\* After a failed write the user counts on less, and excuses are noted.
LEMMA FailureKeeps ==
  ASSUME ProfilesInv, failures < MaxFailures, failures' = failures + 1,
         active' = active, disk' = disk, listed' = listed, events' = events, used' = used,
         Forgiven, excuses' = excuses \cup {"failure"},
         shown' \in Seq(Profile), cache' \in Seq(Profile), writes' \in Seq(Writes),
         IdsOf(shown') \cup IdsOf(cache') \subseteq used,
         IdsOf(cache') \cup Coming' \subseteq IdsOf(cache) \cup Coming,
         \A i \in DOMAIN writes' :
           /\ IdsOf(writes'[i].rest) \cup IdsOf(writes'[i].list) \subseteq used
           /\ writes'[i].rest # <<>> => writes'[i].of = "import"
           /\ "reimport" \notin excuses => OneEntryPerId(writes'[i].list),
         writes' # <<>> => Last(writes').list = cache',
         "reimport" \notin excuses => OneEntryPerId(shown') /\ OneEntryPerId(cache')
  PROVE  ProfilesInv'
<1>1. /\ kept' = kept \cap IdsOf(disk) \cap (IdsOf(cache') \cup Coming')
      /\ gone' = gone \ IdsOf(disk)
  BY DEF Forgiven
<1>2. IdsAreUsed' /\ OnlyImportsGoOn'
  BY Accounted DEF IdsAreUsed, OnlyImportsGoOn
<1>3. MemoryLeads'
  <2>1. kept' \subseteq IdsOf(cache') \cup Coming' /\ gone' \cap (IdsOf(cache') \cup Coming') = {}
    BY <1>1, InvTypes
  <2>2. "failure" \in excuses' /\ kept' \subseteq IdsOf(disk') /\ gone' \cap IdsOf(disk') = {}
    BY <1>1
  <2> QED
    BY <2>1, <2>2 DEF MemoryLeads, AtRest
<1>4. IdsAreUnique'
  BY Accounted DEF IdsAreUnique
<1>5. ShownLeads'
  BY DEF ShownLeads
<1>6. failures' \in 0..MaxFailures /\ excuses' \subseteq Excuses
  BY Accounted, BoundsAssumption DEF Excuses
<1> QED
  BY <1>1, <1>2, <1>3, <1>4, <1>5, <1>6, InvTypes, Accounted, Rebuilt

LEMMA RefusesKeeps ==
  ASSUME ProfilesInv, PlatformRefuses
  PROVE  ProfilesInv'
<1>1. /\ writes # <<>> /\ Resumes(Head(writes))
      /\ failures < MaxFailures /\ failures' = failures + 1 /\ Forgiven
      /\ excuses' = excuses \cup {"failure"}
      /\ active' = active /\ disk' = disk /\ listed' = listed
      /\ events' = events /\ used' = used
  BY DEF PlatformRefuses
<1> QED
  BY <1>1, Resumed, FailureKeeps

LEMMA RaisesKeeps ==
  ASSUME ProfilesInv, PlatformRaises
  PROVE  ProfilesInv'
<1> DEFINE tail == Tail(writes)
<1>1. /\ writes # <<>> /\ writes' = tail
      /\ failures < MaxFailures /\ failures' = failures + 1 /\ Forgiven
      /\ excuses' = excuses \cup {"failure"} /\ shown' = shown /\ cache' = cache
      /\ active' = active /\ disk' = disk /\ listed' = listed
      /\ events' = events /\ used' = used
  BY DEF PlatformRaises
<1>2. IdsAreUsed /\ OnlyImportsGoOn /\ MemoryLeads /\ IdsAreUnique
  BY DEF ProfilesInv
<1>3. /\ tail \in Seq(Writes)
      /\ Len(writes) \in Nat /\ Len(writes) > 0 /\ DOMAIN writes = 1..Len(writes)
      /\ Len(tail) = Len(writes) - 1 /\ DOMAIN tail = 1..(Len(writes) - 1)
      /\ \A i \in DOMAIN tail : tail[i] = writes[i + 1]
      /\ tail = <<>> <=> Len(writes) = 1
  BY <1>1, InvTypes, Taken
<1>4. \A i \in DOMAIN tail : i + 1 \in DOMAIN writes
  BY <1>3
<1>5. Coming' \subseteq Coming
  BY <1>1, InvTypes, ComingIs, ComingParts
<1> HIDE DEF tail
<1>6. \A i \in DOMAIN writes' :
        /\ IdsOf(writes'[i].rest) \cup IdsOf(writes'[i].list) \subseteq used
        /\ writes'[i].rest # <<>> => writes'[i].of = "import"
        /\ "reimport" \notin excuses => OneEntryPerId(writes'[i].list)
  BY <1>1, <1>2, <1>3, <1>4 DEF IdsAreUsed, OnlyImportsGoOn, IdsAreUnique
<1>7. writes' # <<>> => Last(writes').list = cache'
  <2>1. tail # <<>> => Last(tail) = Last(writes)
    BY <1>3 DEF Last
  <2> QED
    BY <1>1, <1>2, <2>1 DEF MemoryLeads, AtRest
<1> QED
  BY <1>1, <1>3, <1>5, <1>6, <1>7, InvTypes, FailureKeeps

LEMMA RestartKeeps ==
  ASSUME ProfilesInv, Restart
  PROVE  ProfilesInv'
<1>1. /\ cache' = disk /\ shown' = disk /\ disk' = disk /\ active' = None /\ writes' = <<>>
      /\ IF writes = <<>> THEN kept' = kept /\ gone' = gone ELSE Forgiven
      /\ excuses' = excuses \cap {"reimport"}
      /\ events' = events /\ failures' = failures /\ used' = used /\ listed' = IdsOf(disk)
  BY DEF Restart
<1>2. DOMAIN writes' = {} /\ writes' \in Seq(Writes)
  BY <1>1, EmptySeq
<1>3. Coming' = {}
  BY <1>2, ComingIs DEF ComingOf
<1>4. kept' \subseteq kept \cap IdsOf(disk) /\ gone' \subseteq gone \ IdsOf(disk)
  <2>1. CASE writes = <<>>
    <3>1. disk = cache \/ (kept \subseteq IdsOf(disk) /\ gone \cap IdsOf(disk) = {})
      BY <2>1 DEF ProfilesInv, MemoryLeads, AtRest
    <3>2. Coming = {}
      BY <2>1 DEF Coming
    <3> QED
      BY <1>1, <2>1, <3>1, <3>2, InvTypes
  <2>2. CASE writes # <<>>
    BY <1>1, <2>2 DEF Forgiven
  <2> QED
    BY <2>1, <2>2
<1>5. IdsAreUsed' /\ OnlyImportsGoOn'
  BY <1>1, <1>2, Accounted DEF IdsAreUsed, OnlyImportsGoOn
<1>6. MemoryLeads'
  BY <1>1, <1>3, <1>4 DEF MemoryLeads, AtRest
<1>7. IdsAreUnique'
  BY <1>1, <1>2, Accounted DEF IdsAreUnique
<1>8. ShownLeads'
  BY <1>1, <1>2 DEF ShownLeads, AtRest
<1>9. kept' \subseteq used' /\ gone' \subseteq used' /\ excuses' \subseteq Excuses
  BY <1>1, <1>4, InvTypes, Accounted
<1> QED
  BY <1>1, <1>2, <1>5, <1>6, <1>7, <1>8, <1>9, InvTypes, Accounted, Rebuilt

--------------------------------------------------------------------------------
(* The theorems.                                                           *)

LEMMA ProfilesInvInit == NoProfiles => ProfilesInv
<1> SUFFICES ASSUME NoProfiles PROVE ProfilesInv
  OBVIOUS
<1>1. <<>> \in Seq(Profile) /\ <<>> \in Seq(Writes) /\ IdsOf(<<>>) = {} /\ OneEntryPerId(<<>>)
  BY EmptySeq, IdsOfParts, UniqueEmpty
<1>2. DOMAIN writes = {} /\ Coming = {}
  BY DEF NoProfiles, Coming
<1>3. ProfilesTypeOK
  BY <1>1, BoundsAssumption DEF NoProfiles, ProfilesTypeOK, Writes, WriteKinds
<1>4. IdsAreUsed /\ OnlyImportsGoOn
  BY <1>1, <1>2 DEF NoProfiles, IdsAreUsed, OnlyImportsGoOn
<1>5. MemoryLeads /\ IdsAreUnique /\ ShownLeads
  BY <1>1, <1>2 DEF NoProfiles, MemoryLeads, IdsAreUnique, ShownLeads, AtRest
<1> QED
  BY <1>3, <1>4, <1>5 DEF ProfilesInv

LEMMA ProfilesInvStutters == ProfilesInv /\ UNCHANGED profileVars => ProfilesInv'
<1> SUFFICES ASSUME ProfilesInv, UNCHANGED profileVars PROVE ProfilesInv'
  OBVIOUS
<1> USE DEF profileVars, history
<1>1. ProfilesTypeOK' /\ IdsAreUsed' /\ OnlyImportsGoOn'
  BY DEF ProfilesInv, ProfilesTypeOK, IdsAreUsed, OnlyImportsGoOn
<1>2. MemoryLeads'
  BY DEF ProfilesInv, MemoryLeads, AtRest, Coming
<1>3. IdsAreUnique' /\ ShownLeads'
  BY DEF ProfilesInv, IdsAreUnique, ShownLeads, AtRest
<1> QED
  BY <1>1, <1>2, <1>3 DEF ProfilesInv

\* Whatever the user does while writes are in flight, whatever the platform
\* answers and whenever the app is killed: view, memory, writes in flight
\* and disk stay in the order in which a change of the list travels.
THEOREM ProfilesInductive == ProfilesSpec => []ProfilesInv
<1>1. NoProfiles => ProfilesInv
  BY ProfilesInvInit
<1>2. ProfilesInv /\ [ProfilesNext]_profileVars => ProfilesInv'
  <2> SUFFICES ASSUME ProfilesInv, [ProfilesNext]_profileVars PROVE ProfilesInv'
    OBVIOUS
  <2>1. CASE \E p \in Profile : Added(p) \/ Updated(p) \/ ImportedEncrypted(p)
    BY <2>1, AddedKeeps, UpdatedKeeps, ImportedEncryptedKeeps
  <2>2. CASE \E id \in Ids : Deleted(id)
    BY <2>2, DeletedKeeps
  <2>3. CASE \E i \in DOMAIN shown : Activated(i)
    BY <2>3, ActivatedKeeps
  <2>4. CASE \E batch \in Batches : Imported(batch)
    BY <2>4, ImportedKeeps
  <2>5. CASE DeletedDuplicates \/ DeletedAll
    BY <2>5, DeletedDuplicatesKeeps, DeletedAllKeeps
  <2>6. CASE PlatformStores \/ PlatformRefuses \/ PlatformRaises
    BY <2>6, StoresKeeps, RefusesKeeps, RaisesKeeps
  <2>7. CASE Restart
    BY <2>7, RestartKeeps
  <2>8. CASE UNCHANGED profileVars
    BY <2>8, ProfilesInvStutters
  <2> QED
    BY <2>1, <2>2, <2>3, <2>4, <2>5, <2>6, <2>7, <2>8 DEF ProfilesNext
<1> QED
  BY <1>1, <1>2, PTL DEF ProfilesSpec

\* With nothing in flight and no excuse noted the list shown is the list on
\* disk (ProfileBloc's emit before the await, and the write behind it).
THEOREM ShownIsStoredHolds == ProfilesSpec => []ShownIsStored
<1>1. ProfilesInv => ShownIsStored
  <2> SUFFICES ASSUME ProfilesInv, AtRest, excuses = {} PROVE shown = disk
    BY DEF ShownIsStored
  <2>1. disk = cache
    BY DEF ProfilesInv, MemoryLeads
  <2>2. shown = cache
    BY DEF ProfilesInv, ShownLeads
  <2> QED
    BY <2>1, <2>2
<1> QED
  BY <1>1, ProfilesInductive, PTL

\* What the user saved is on disk once nothing is in flight.
THEOREM KeptIsStoredHolds == ProfilesSpec => []KeptIsStored
<1>1. ProfilesInv => KeptIsStored
  <2> SUFFICES ASSUME ProfilesInv, AtRest PROVE kept \subseteq IdsOf(disk)
    BY DEF KeptIsStored
  <2>1. Coming = {}
    BY DEF AtRest, Coming
  <2> QED
    BY <2>1 DEF ProfilesInv, MemoryLeads
<1> QED
  BY <1>1, ProfilesInductive, PTL

\* What the user deleted is not on disk once nothing is in flight.
THEOREM DeletedIsGoneHolds == ProfilesSpec => []DeletedIsGone
<1>1. ProfilesInv => DeletedIsGone
  <2> SUFFICES ASSUME ProfilesInv, AtRest PROVE gone \cap IdsOf(disk) = {}
    BY DEF DeletedIsGone
  <2>1. Coming = {}
    BY DEF AtRest, Coming
  <2> QED
    BY <2>1 DEF ProfilesInv, MemoryLeads
<1> QED
  BY <1>1, ProfilesInductive, PTL
=============================================================================
