---------------------------- MODULE Streams_proofs ----------------------------
(***************************************************************************)
(* Proofs for Streams, for every number and size of units, writes and      *)
(* control frames: what a relay cuts off is explained by somebody's end,   *)
(* the units stay in order unless the stream was disturbed, and the writes *)
(* of the app arrive in their order and with their lengths.                *)
(***************************************************************************)
EXTENDS Streams, SequenceTheorems, TLAPS

Frames == [op : {"binary", "ping", "close"}, data : Seq(Nat)]
Directions == {"up", "down"}
Lengths == Sizes \union {payloadLen(buildFrame(n)) : n \in Sizes}

TypeOK ==
  /\ kind \in Kinds /\ conn \in {"upgrade", "open", "failed"}
  /\ early \in BOOLEAN /\ broken \in BOOLEAN
  /\ wire \in Seq(Frames) /\ reader \in Seq(Frames) /\ readBuf \in Seq(Nat)
  /\ spoken \in Nat /\ serverEnd \in Nat /\ accepted \in Nat
  /\ pings \in Seq(Seq(Nat))
  /\ relay \in {"idle", "relaying", "closed"}
  /\ ended \in [Directions -> {"no", "eof", "error"}] /\ held \subseteq Directions
  /\ blocked \subseteq Directions
  /\ copied \in Nat /\ heard \in Nat /\ taken \in Nat
  /\ typed \in Seq(Sizes) /\ served \in Seq(Lengths)
  /\ appEnd \in {"open", "half", "closed"}

--------------------------------------------------------------------------------
(* The relay.                                                              *)

\* A unit of direction d has been read and not been written.
Under(d) == IF d \in held THEN 1 ELSE 0

\* Before the relay starts nothing of the app's side has happened.
IdleInv ==
  relay = "idle" =>
    /\ ended = [d \in Directions |-> "no"] /\ held = {}
    /\ copied = 0 /\ heard = 0 /\ taken = 0 /\ typed = <<>> /\ served = <<>>
    /\ appEnd = "open"

StartedInv == relay # "idle" => conn # "upgrade"

\* What the download has read it has written or holds, until the app has
\* closed; its end of stream is the channel's, its error somebody's end.
DownInv ==
  relay # "idle" =>
    /\ ended["down"] # "error" /\ appEnd # "closed" =>
         heard + Banner + Under("down") = copied
    /\ ended["down"] # "no" => "down" \notin held
    /\ ended["down"] = "eof" => serverEnd # 0 /\ copied + 1 = serverEnd
    /\ ended["down"] = "error" => relay = "closed" \/ conn = "failed" \/ appEnd = "closed"

\* The same for the upload, whose end of stream is the app's, and whose error
\* may be a write that met the server's end.
UpInv ==
  relay # "idle" =>
    /\ ended["up"] # "error" => Len(served) + Under("up") = taken
    /\ ended["up"] # "no" => "up" \notin held
    /\ ended["up"] = "eof" => appEnd # "open" /\ taken = Len(typed)
    /\ ended["up"] = "error" =>
         relay = "closed" \/ conn = "failed" \/ (serverEnd # 0 /\ Len(served) < taken)
    /\ taken <= Len(typed) /\ ("up" \in held => taken > 0)

\* Why a relay is closed does not pass.
ClosedInv ==
  relay = "closed" =>
    /\ \/ serverEnd # 0 /\ heard = Said
       \/ WriteMetEnd
       \/ conn = "failed" \/ appEnd = "closed"
       \/ appEnd = "half" /\ kind # "socks"
    /\ \/ Len(served) = Len(typed)
       \/ conn = "failed" \/ serverEnd # 0 \/ appEnd = "closed"

RelayInv == IdleInv /\ StartedInv /\ DownInv /\ UpInv /\ ClosedInv

--------------------------------------------------------------------------------
(* Types.                                                                  *)

LEMMA BannerType == Banner \in {0, 1}
  BY DEF Banner

LEMMA InitTypes == Init => TypeOK
<1> SUFFICES ASSUME Init PROVE TypeOK
  OBVIOUS
<1>1. conn \in {"upgrade", "open", "failed"}
  BY DEF Init
<1>2. ended \in [Directions -> {"no", "eof", "error"}] /\ held \subseteq Directions
      /\ blocked \subseteq Directions
  BY DEF Init, Directions
<1>3. /\ wire \in Seq(Frames) /\ reader \in Seq(Frames) /\ readBuf \in Seq(Nat)
      /\ pings \in Seq(Seq(Nat)) /\ typed \in Seq(Sizes)
      /\ served \in Seq(Lengths)
  BY DEF Init
<1> QED
  BY <1>1, <1>2, <1>3 DEF Init, TypeOK

LEMMA ServerTypes == TypeOK /\ Server => TypeOK'
<1> SUFFICES ASSUME TypeOK, Server PROVE TypeOK'
  OBVIOUS
<1>1. CASE \E n \in 1..MaxUnits : ServerSays(n)
  <2>1. PICK n \in 1..MaxUnits : ServerSays(n)
    BY <1>1
  <2>2. n \in Nat /\ spoken \in Nat
    BY BoundsAssumption DEF TypeOK
  <2>3. [i \in 1..n |-> spoken + i] \in Seq(Nat)
    BY <2>2
  <2>4. Frame("binary", [i \in 1..n |-> spoken + i]) \in Frames
    BY <2>3 DEF Frame, Frames
  <2>5. wire' \in Seq(Frames)
    BY <2>1, <2>4, AppendProperties DEF ServerSays, TypeOK
  <2>6. spoken' \in Nat /\ serverEnd' \in Nat
    BY <2>1, <2>2 DEF ServerSays
  <2> QED
    BY <2>1, <2>5, <2>6 DEF ServerSays, TypeOK, relayVars, appVars
<1>2. CASE \E op \in {"ping", "close"}, data \in {<<>>, <<0>>} : ServerControls(op, data)
  <2>1. PICK op \in {"ping", "close"}, data \in {<<>>, <<0>>} : ServerControls(op, data)
    BY <1>2
  <2>2. data \in Seq(Nat)
    <3>1. <<>> \in Seq(Nat) /\ <<0>> \in Seq(Nat)
      OBVIOUS
    <3> QED
      BY <3>1
  <2>3. Frame(op, data) \in Frames
    BY <2>2 DEF Frame, Frames
  <2>4. wire' \in Seq(Frames) /\ pings' \in Seq(Seq(Nat))
    BY <2>1, <2>2, <2>3, AppendProperties DEF ServerControls, TypeOK
  <2> QED
    BY <2>1, <2>4 DEF ServerControls, TypeOK, relayVars, appVars
<1> QED
  BY <1>1, <1>2 DEF Server

\* A sequence cut behind its n-th element.
LEMMA Cut ==
  ASSUME NEW S, NEW q \in Seq(S), NEW n \in 0..Len(q)
  PROVE  /\ SubSeq(q, 1, n) \in Seq(S) /\ SubSeq(q, n + 1, Len(q)) \in Seq(S)
         /\ Len(SubSeq(q, 1, n)) = n /\ Len(SubSeq(q, n + 1, Len(q))) = Len(q) - n
         /\ \A k \in 1..n : SubSeq(q, 1, n)[k] = q[k]
         /\ \A k \in 1..(Len(q) - n) : SubSeq(q, n + 1, Len(q))[k] = q[n + k]
<1>1. Len(q) \in Nat /\ n \in Nat /\ n <= Len(q) /\ \A i \in 1..Len(q) : q[i] \in S
  BY LenProperties, ElementOfSeq
<1> QED
  BY <1>1, SubSeqProperties

LEMMA CutNumbers ==
  \A q \in Seq(Nat) : \A n \in 0..Len(q) :
    /\ SubSeq(q, 1, n) \in Seq(Nat) /\ SubSeq(q, n + 1, Len(q)) \in Seq(Nat)
    /\ Len(SubSeq(q, 1, n)) = n /\ Len(SubSeq(q, n + 1, Len(q))) = Len(q) - n
    /\ \A k \in 1..n : SubSeq(q, 1, n)[k] = q[k]
    /\ \A k \in 1..(Len(q) - n) : SubSeq(q, n + 1, Len(q))[k] = q[n + k]
  BY Cut

\* The frame read next is the first of the reader or else of the wire.
LEMMA NextFrame ==
  ASSUME TypeOK, readFrame
  PROVE  \E frame \in Frames :
           /\ \/ /\ reader # <<>> /\ frame = Head(reader)
                 /\ reader' = Tail(reader) /\ reader' \in Seq(Frames) /\ UNCHANGED wire
              \/ /\ reader = <<>> /\ wire # <<>> /\ frame = Head(wire)
                 /\ wire' = Tail(wire) /\ wire' \in Seq(Frames) /\ UNCHANGED reader
           /\ \/ frame.op = "close" /\ conn' = "failed" /\ UNCHANGED readBuf
              \/ frame.op # "close" /\ readBuf' = frame.data /\ UNCHANGED conn
<1>1. wire \in Seq(Frames) /\ reader \in Seq(Frames)
  BY DEF TypeOK
<1>2. PICK frame \in {Head(s) : s \in {reader \o wire} \ {<<>>}} :
        /\ IF reader # <<>> THEN reader' = Tail(reader) /\ UNCHANGED wire
                            ELSE wire' = Tail(wire) /\ UNCHANGED reader
        /\ IF frame.op = "close" THEN conn' = "failed" /\ UNCHANGED readBuf
                                 ELSE readBuf' = frame.data /\ UNCHANGED conn
  BY DEF readFrame
<1>3. reader \o wire # <<>> /\ frame = Head(reader \o wire)
  BY <1>2
<1>4. CASE reader # <<>>
  <2>1. Head(reader) \in Frames /\ Tail(reader) \in Seq(Frames)
    BY <1>1, <1>4, HeadTailProperties
  <2>2. Len(reader) \in Nat /\ Len(reader) # 0 /\ Len(wire) \in Nat
    BY <1>1, <1>4, EmptySeq, LenProperties
  <2>3. Head(reader \o wire) = (reader \o wire)[1]
    BY <1>1, <1>3, ConcatProperties, HeadTailProperties
  <2>4. (reader \o wire)[1] = reader[1]
    BY <1>1, <2>2, ConcatProperties
  <2>5. frame = Head(reader)
    BY <1>1, <1>3, <1>4, <2>3, <2>4, HeadTailProperties
  <2> QED
    BY <1>2, <1>4, <2>1, <2>5
<1>5. CASE reader = <<>>
  <2>1. reader \o wire = wire
    BY <1>1, <1>5, ConcatEmptySeq
  <2>2. Head(wire) \in Frames /\ Tail(wire) \in Seq(Frames)
    BY <1>1, <1>3, <2>1, HeadTailProperties
  <2> QED
    BY <1>2, <1>3, <1>5, <2>1, <2>2
<1> QED
  BY <1>4, <1>5

LEMMA CarryTypes == TypeOK /\ Carry => TypeOK'
<1> SUFFICES ASSUME TypeOK, Carry PROVE TypeOK'
  OBVIOUS
<1> USE DEF serverVars, relayVars, appVars
<1>1. CASE ReadResponse
  <2>1. PICK n \in 0..Len(wire) :
          /\ early' = (n > 0)
          /\ reader' = IF kind = "websocket" THEN SubSeq(wire, 1, n) ELSE <<>>
          /\ wire' = SubSeq(wire, n + 1, Len(wire))
    BY <1>1 DEF ReadResponse
  <2>2. wire \in Seq(Frames)
    BY DEF TypeOK
  <2>3. reader' \in Seq(Frames) /\ wire' \in Seq(Frames)
    BY <2>1, <2>2, Cut
  <2>4. early' \in BOOLEAN
    BY <2>1
  <2> QED
    BY <1>1, <2>3, <2>4 DEF ReadResponse, TypeOK
<1>2. CASE ConnFails
  BY <1>2 DEF ConnFails, TypeOK
<1>3. CASE readFrame
  <2>1. reader' \in Seq(Frames) /\ wire' \in Seq(Frames)
    BY <1>3, NextFrame DEF TypeOK
  <2>2. readBuf' \in Seq(Nat) /\ conn' \in {"upgrade", "open", "failed"}
    BY <1>3, NextFrame DEF TypeOK, Frames
  <2> QED
    BY <1>3, <2>1, <2>2 DEF readFrame, TypeOK
<1>4. CASE \E n \in 1..MaxUnits : Read(n)
  <2>1. PICK n \in 1..MaxUnits : Read(n)
    BY <1>4
  <2>2. n \in Nat /\ readBuf \in Seq(Nat) /\ accepted \in Nat /\ n <= Len(readBuf)
    BY <2>1, BoundsAssumption DEF TypeOK, Read
  <2>3. n \in 0..Len(readBuf)
    BY <2>2, LenProperties
  <2>4. readBuf' \in Seq(Nat)
    BY <2>1, <2>2, <2>3, Cut DEF Read
  <2>6. \/ accepted' = accepted + n /\ UNCHANGED <<conn, broken>>
        \/ conn' = "failed" /\ broken' = TRUE /\ UNCHANGED accepted
    BY <2>1 DEF Read
  <2>5. /\ accepted' \in Nat /\ conn' \in {"upgrade", "open", "failed"}
        /\ broken' \in BOOLEAN
    <3>1. conn \in {"upgrade", "open", "failed"} /\ broken \in BOOLEAN
      BY DEF TypeOK
    <3>2. CASE accepted' = accepted + n /\ UNCHANGED <<conn, broken>>
      BY <2>2, <3>1, <3>2
    <3>3. CASE conn' = "failed" /\ broken' = TRUE /\ UNCHANGED accepted
      BY <2>2, <3>3
    <3> QED
      BY <2>6, <3>2, <3>3
  <2> QED
    BY <2>1, <2>4, <2>5 DEF Read, TypeOK
<1> QED
  BY <1>1, <1>2, <1>3, <1>4 DEF Carry

LEMMA AppTypes == TypeOK /\ App => TypeOK'
<1> SUFFICES ASSUME TypeOK, App PROVE TypeOK'
  OBVIOUS
<1> USE DEF carrierVars, serverVars, relayVars
<1>1. CASE \E n \in Sizes : AppWrites(n)
  <2>1. PICK n \in Sizes : AppWrites(n)
    BY <1>1
  <2>2. typed' \in Seq(Sizes)
    BY <2>1, AppendProperties DEF AppWrites, TypeOK
  <2> QED
    BY <2>1, <2>2 DEF AppWrites, TypeOK
<1>2. CASE \E how \in {"half", "closed"} : AppEnds(how)
  BY <1>2 DEF AppEnds, TypeOK
<1> QED
  BY <1>1, <1>2 DEF App

Blocks == \E d \in {"up", "down"} : WriteBlocks(d)

LEMMA CopyTypes ==
  TypeOK /\ RelayInv /\ (StartRelay \/ CopyDown \/ CopyUp \/ Blocks \/ relayReturns) => TypeOK'
<1> SUFFICES ASSUME TypeOK, RelayInv, StartRelay \/ CopyDown \/ CopyUp \/ Blocks \/ relayReturns
             PROVE  TypeOK'
  OBVIOUS
<1> USE DEF carrierVars, serverVars, appVars
<1>1. CASE StartRelay
  BY <1>1, BannerType DEF StartRelay, TypeOK
<1>2. CASE CopyDownReads
  <2>1. copied' = copied + 1 \/ copied' = copied
    BY <1>2 DEF CopyDownReads
  <2>3. held' = held \union {"down"} \/ held' = held
    BY <1>2 DEF CopyDownReads
  <2>5. copied \in Nat /\ held \subseteq Directions
    BY DEF TypeOK
  <2>6. copied' \in Nat
    BY <2>1, <2>5
  <2>7. held' \subseteq Directions
    BY <2>3, <2>5 DEF Directions
  <2>4. copied' \in Nat /\ held' \subseteq Directions
    BY <2>6, <2>7
  <2>2. ended' \in [Directions -> {"no", "eof", "error"}]
    BY <1>2 DEF CopyDownReads, TypeOK
  <2> QED
    BY <1>2, <2>2, <2>4 DEF CopyDownReads, TypeOK
<1>3. CASE CopyDownWrites
  <2>1. heard' \in Nat /\ held' \subseteq Directions /\ blocked' \subseteq Directions
    BY <1>3 DEF CopyDownWrites, TypeOK
  <2>2. ended' \in [Directions -> {"no", "eof", "error"}]
    BY <1>3 DEF CopyDownWrites, TypeOK
  <2> QED
    BY <1>3, <2>1, <2>2 DEF CopyDownWrites, TypeOK
<1>4. CASE CopyUpReads
  <2>1. taken' = taken + 1 \/ taken' = taken
    BY <1>4 DEF CopyUpReads
  <2>3. held' = held \union {"up"} \/ held' = held
    BY <1>4 DEF CopyUpReads
  <2>5. taken \in Nat /\ held \subseteq Directions
    BY DEF TypeOK
  <2>6. taken' \in Nat
    BY <2>1, <2>5
  <2>7. held' \subseteq Directions
    BY <2>3, <2>5 DEF Directions
  <2>4. taken' \in Nat /\ held' \subseteq Directions
    BY <2>6, <2>7
  <2>2. ended' \in [Directions -> {"no", "eof", "error"}]
    BY <1>4 DEF CopyUpReads, TypeOK
  <2> QED
    BY <1>4, <2>2, <2>4 DEF CopyUpReads, TypeOK
<1>5. CASE CopyUpWrites
  <2>1. held' \subseteq Directions /\ blocked' \subseteq Directions
    BY <1>5 DEF CopyUpWrites, TypeOK
  <2>2. ended' \in [Directions -> {"no", "eof", "error"}]
    BY <1>5 DEF CopyUpWrites, TypeOK
  <2>3. typed[taken] \in Sizes
    <3>1. "up" \in held /\ taken \in Nat /\ typed \in Seq(Sizes)
      BY <1>5 DEF CopyUpWrites, TypeOK
    <3>2. relay # "idle"
      BY <3>1 DEF RelayInv, IdleInv
    <3>3. taken <= Len(typed) /\ taken > 0
      BY <3>1, <3>2 DEF RelayInv, UpInv
    <3> QED
      BY <3>1, <3>3, ElementOfSeq
  <2>4. served' \in Seq(Lengths)
    <3>1. Understood(typed[taken]) \in Lengths
      BY <2>3 DEF Understood, Lengths
    <3>2. served \in Seq(Lengths)
      BY DEF TypeOK
    <3>3. served' = Append(served, Understood(typed[taken])) \/ served' = served
      BY <1>5 DEF CopyUpWrites
    <3> HIDE DEF TypeOK
    <3> QED
      BY <3>1, <3>2, <3>3, AppendProperties
  <2> QED
    BY <1>5, <2>1, <2>2, <2>4 DEF CopyUpWrites, TypeOK
<1>6. CASE relayReturns
  BY <1>6 DEF relayReturns, TypeOK
<1>7. CASE Blocks
  BY <1>7 DEF Blocks, WriteBlocks, TypeOK, Directions
<1> QED
  BY <1>1, <1>2, <1>3, <1>4, <1>5, <1>6, <1>7 DEF CopyDown, CopyUp

--------------------------------------------------------------------------------
(* The steps of the relay's invariant.                                     *)

LEMMA InitRelay == Init => RelayInv
  BY DEF Init, WriteMetEnd, RelayInv, IdleInv, StartedInv, DownInv, UpInv, ClosedInv, Directions

\* The server may end its side once; the carrier may break.
LEMMA AroundRelay ==
  ASSUME TypeOK, RelayInv, UNCHANGED <<kind, relayVars, appVars>>,
         (serverEnd' = serverEnd /\ spoken' = spoken) \/ serverEnd = 0,
         conn' = conn \/ conn' = "failed" \/ (conn = "upgrade" /\ conn' = "open")
  PROVE  RelayInv'
<1> USE DEF relayVars, appVars
<1>1. Banner' = Banner /\ Under("down")' = Under("down") /\ Under("up")' = Under("up")
  BY DEF Banner, Under
<1>2. IdleInv' /\ StartedInv'
  BY DEF RelayInv, IdleInv, StartedInv
<1>3. DownInv'
  BY <1>1 DEF RelayInv, StartedInv, DownInv
<1>4. UpInv'
  BY <1>1 DEF RelayInv, StartedInv, UpInv
<1>5. ClosedInv'
  <2>1. serverEnd # 0 => Said' = Said
    BY <1>1 DEF Said
  <2>2. serverEnd # 0 => serverEnd' # 0
    OBVIOUS
  <2> QED
    BY <2>1, <2>2 DEF RelayInv, StartedInv, ClosedInv, WriteMetEnd
<1> QED
  BY <1>2, <1>3, <1>4, <1>5 DEF RelayInv

LEMMA ServerKeepsRelay == TypeOK /\ RelayInv /\ Server => RelayInv'
<1> SUFFICES ASSUME TypeOK, RelayInv, Server PROVE RelayInv'
  OBVIOUS
<1>1. CASE \E n \in 1..MaxUnits : ServerSays(n)
  <2>1. /\ UNCHANGED <<kind, relayVars, appVars>> /\ serverEnd = 0 /\ conn' = conn
    BY <1>1 DEF ServerSays
  <2>2. (serverEnd' = serverEnd /\ spoken' = spoken) \/ serverEnd = 0
    BY <2>1
  <2>3. conn' = conn \/ conn' = "failed" \/ (conn = "upgrade" /\ conn' = "open")
    BY <2>1
  <2> QED
    BY <2>1, <2>2, <2>3, AroundRelay
<1>2. CASE \E op \in {"ping", "close"}, data \in {<<>>, <<0>>} : ServerControls(op, data)
  <2>1. /\ UNCHANGED <<kind, relayVars, appVars>> /\ conn' = conn
        /\ serverEnd' = serverEnd /\ spoken' = spoken
    BY <1>2 DEF ServerControls
  <2>2. (serverEnd' = serverEnd /\ spoken' = spoken) \/ serverEnd = 0
    BY <2>1
  <2>3. conn' = conn \/ conn' = "failed" \/ (conn = "upgrade" /\ conn' = "open")
    BY <2>1
  <2> QED
    BY <2>1, <2>2, <2>3, AroundRelay
<1> QED
  BY <1>1, <1>2 DEF Server

LEMMA CarryKeepsRelay == TypeOK /\ RelayInv /\ Carry => RelayInv'
<1> SUFFICES ASSUME TypeOK, RelayInv, Carry PROVE RelayInv'
  OBVIOUS
<1>1. /\ UNCHANGED <<kind, relayVars, appVars>>
      /\ serverEnd' = serverEnd /\ spoken' = spoken
  BY DEF Carry, ReadResponse, ConnFails, readFrame, Read, serverVars
<1>2. conn' = conn \/ conn' = "failed" \/ (conn = "upgrade" /\ conn' = "open")
  <2>1. CASE ReadResponse
    BY <2>1 DEF ReadResponse
  <2>2. CASE ConnFails
    BY <2>2 DEF ConnFails
  <2>3. CASE readFrame
    BY <2>3, NextFrame
  <2>4. CASE \E n \in 1..MaxUnits : Read(n)
    BY <2>4 DEF Read
  <2> QED
    BY <2>1, <2>2, <2>3, <2>4 DEF Carry
<1> QED
  BY <1>1, <1>2, AroundRelay

LEMMA AppKeepsRelay == TypeOK /\ RelayInv /\ App => RelayInv'
<1> SUFFICES ASSUME TypeOK, RelayInv, App PROVE RelayInv'
  OBVIOUS
<1>1. /\ UNCHANGED <<carrierVars, serverVars, relayVars>> /\ relay = "relaying"
      /\ \/ typed' = typed /\ (appEnd # "open" => appEnd' # "open")
            /\ (appEnd = "closed" => appEnd' = "closed")
         \/ appEnd = "open" /\ appEnd' = appEnd /\ \E n \in Sizes : typed' = Append(typed, n)
  BY DEF App, AppWrites, AppEnds
<1>2. Len(typed) \in Nat /\ Len(typed') >= Len(typed) /\ (appEnd # "open" => typed' = typed)
  BY <1>1, AppendProperties, LenProperties DEF TypeOK
<1>3. Banner' = Banner /\ Under("down")' = Under("down") /\ Under("up")' = Under("up")
  BY <1>1 DEF Banner, Under, carrierVars, relayVars
<1>4. IdleInv' /\ StartedInv' /\ ClosedInv'
  BY <1>1 DEF RelayInv, IdleInv, StartedInv, ClosedInv, WriteMetEnd, Said, Banner,
       carrierVars, serverVars, relayVars
<1>5. DownInv'
  BY <1>1, <1>3 DEF RelayInv, DownInv, carrierVars, serverVars, relayVars
<1>6. UpInv'
  <2>1. taken \in Nat /\ taken <= Len(typed')
    BY <1>1, <1>2 DEF TypeOK, RelayInv, UpInv
  <2> QED
    BY <1>1, <1>2, <1>3, <2>1 DEF RelayInv, UpInv, carrierVars, serverVars, relayVars
<1> QED
  BY <1>4, <1>5, <1>6 DEF RelayInv

LEMMA StartKeepsRelay == TypeOK /\ RelayInv /\ StartRelay => RelayInv'
<1> SUFFICES ASSUME TypeOK, RelayInv, StartRelay PROVE RelayInv'
  OBVIOUS
<1>1. /\ relay = "idle" /\ conn = "open" /\ relay' = "relaying" /\ copied' = Banner
      /\ UNCHANGED <<ended, held, blocked, heard, taken, served, carrierVars, serverVars, appVars>>
  BY DEF StartRelay
<1>2. Banner' = Banner /\ Banner \in {0, 1}
  BY <1>1, BannerType DEF Banner, carrierVars
<1>3. /\ ended' = [d \in Directions |-> "no"] /\ held' = {} /\ heard' = 0
      /\ taken' = 0 /\ typed' = <<>> /\ served' = <<>> /\ conn' = "open"
  BY <1>1 DEF RelayInv, IdleInv, carrierVars, appVars
<1>4. Under("down")' = 0 /\ Under("up")' = 0 /\ ended'["down"] = "no" /\ ended'["up"] = "no"
  BY <1>3 DEF Under, Directions
<1>5. DownInv'
  BY <1>1, <1>2, <1>3, <1>4 DEF DownInv
<1>6. UpInv'
  BY <1>3, <1>4 DEF UpInv
<1> QED
  BY <1>1, <1>3, <1>5, <1>6 DEF RelayInv, IdleInv, StartedInv, ClosedInv

\* The download changes nothing of the upload.
LEMMA DownKeepsRelay == TypeOK /\ RelayInv /\ CopyDown => RelayInv'
<1> SUFFICES ASSUME TypeOK, RelayInv, CopyDown PROVE RelayInv'
  OBVIOUS
<1>1. /\ relay # "idle" /\ UNCHANGED <<relay, taken, served, carrierVars, serverVars, appVars>>
      /\ ended'["up"] = ended["up"] /\ ("up" \in held' <=> "up" \in held)
  <2>1. CASE CopyDownReads
    BY <2>1 DEF CopyDownReads, TypeOK, Directions
  <2>2. CASE CopyDownWrites
    BY <2>2 DEF CopyDownWrites, TypeOK, Directions, RelayInv, IdleInv
  <2> QED
    BY <2>1, <2>2 DEF CopyDown
<1>2. Banner' = Banner /\ Said' = Said /\ Banner \in {0, 1}
  BY <1>1, BannerType DEF Banner, Said, carrierVars, serverVars
<1>3. IdleInv' /\ StartedInv' /\ UpInv'
  <2>1. Under("up")' = Under("up")
    BY <1>1 DEF Under
  <2> QED
    BY <1>1, <2>1 DEF RelayInv, IdleInv, StartedInv, UpInv, carrierVars, serverVars, appVars
<1>4. heard \in Nat /\ copied \in Nat /\ ended \in [Directions -> {"no", "eof", "error"}]
  BY DEF TypeOK
<1>5. DownInv' /\ (relay = "closed" => heard' = heard)
  <2>1. CASE CopyDownReads
    <3>1. ended["down"] = "no" /\ "down" \notin held /\ heard' = heard /\ Under("down") = 0
      BY <2>1 DEF CopyDownReads, Under
    <3>2. appEnd # "closed" => heard + Banner = copied
      BY <1>1, <1>2, <1>4, <3>1 DEF RelayInv, DownInv
    <3>3. CASE copied' = copied + 1 /\ held' = held \union {"down"} /\ ended' = ended
      <4>1. Under("down")' = 1
        BY <3>3 DEF Under
      <4>2. appEnd' # "closed" => heard' + Banner' + Under("down")' = copied'
        BY <1>1, <1>2, <1>4, <3>1, <3>2, <3>3, <4>1 DEF appVars
      <4>3. ended'["down"] = "no"
        BY <3>1, <3>3
      <4> QED
        BY <3>1, <4>2, <4>3 DEF DownInv
    <3>4. CASE /\ copied + 1 = serverEnd /\ ended' = [ended EXCEPT !["down"] = "eof"]
               /\ copied' = copied /\ held' = held
      <4>1. Under("down")' = 0 /\ ended'["down"] = "eof" /\ serverEnd' = serverEnd
        BY <1>1, <1>4, <3>1, <3>4 DEF Under, Directions, serverVars
      <4>2. appEnd' # "closed" => heard' + Banner' + Under("down")' = copied'
        BY <1>1, <1>2, <1>4, <3>1, <3>2, <3>4, <4>1 DEF appVars
      <4>3. serverEnd' # 0 /\ copied' + 1 = serverEnd'
        BY <1>4, <3>4, <4>1
      <4>4. "down" \notin held'
        BY <3>1, <3>4
      <4> QED
        BY <3>1, <4>1, <4>2, <4>3, <4>4 DEF DownInv
    <3>5. CASE /\ relay = "closed" \/ conn = "failed"
               /\ ended' = [ended EXCEPT !["down"] = "error"]
               /\ held' = held
      BY <1>1, <1>4, <3>1, <3>5 DEF DownInv, Directions, carrierVars
    <3> QED
      BY <2>1, <3>1, <3>3, <3>4, <3>5 DEF CopyDownReads
  <2>2. CASE CopyDownWrites
    <3>1. /\ "down" \in held /\ "down" \notin held' /\ copied' = copied
          /\ Under("down") = 1 /\ Under("down")' = 0
      BY <2>2 DEF CopyDownWrites, Under
    <3>2. ended["down"] = "no" /\ (appEnd # "closed" => heard + Banner + 1 = copied)
      BY <1>1, <1>4, <3>1 DEF RelayInv, DownInv, Directions
    <3>3. CASE relay = "relaying" /\ heard' = heard + 1 /\ ended' = ended
      <4>1. appEnd' # "closed" => heard' + Banner' + Under("down")' = copied'
        BY <1>1, <1>2, <1>4, <3>1, <3>2, <3>3 DEF appVars
      <4> QED
        BY <3>2, <3>3, <4>1 DEF DownInv
    <3>4. CASE /\ relay = "closed" \/ appEnd = "closed"
               /\ ended' = [ended EXCEPT !["down"] = "error"] /\ heard' = heard
      BY <1>1, <1>4, <3>1, <3>4 DEF DownInv, Directions, appVars
    <3>5. CASE relay = "relaying" /\ appEnd = "closed" /\ heard' = heard /\ ended' = ended
      BY <1>1, <3>1, <3>2, <3>5 DEF DownInv, appVars
    <3> QED
      BY <2>2, <3>3, <3>4, <3>5 DEF CopyDownWrites
  <2> QED
    BY <2>1, <2>2 DEF CopyDown
<1>6. ClosedInv'
  BY <1>1, <1>2, <1>5 DEF RelayInv, ClosedInv, WriteMetEnd, carrierVars, serverVars, appVars
<1> QED
  BY <1>3, <1>5, <1>6 DEF RelayInv

\* The upload changes nothing of the download.
LEMMA UpKeepsRelay == TypeOK /\ RelayInv /\ CopyUp => RelayInv'
<1> SUFFICES ASSUME TypeOK, RelayInv, CopyUp PROVE RelayInv'
  OBVIOUS
<1>1. /\ relay # "idle" /\ UNCHANGED <<relay, copied, heard, carrierVars, serverVars, appVars>>
      /\ ended'["down"] = ended["down"] /\ ("down" \in held' <=> "down" \in held)
  <2>1. CASE CopyUpReads
    BY <2>1 DEF CopyUpReads, TypeOK, Directions
  <2>2. CASE CopyUpWrites
    BY <2>2 DEF CopyUpWrites, TypeOK, Directions, RelayInv, IdleInv
  <2> QED
    BY <2>1, <2>2 DEF CopyUp
<1>2. Banner' = Banner /\ Said' = Said
  BY <1>1 DEF Banner, Said, carrierVars, serverVars
<1>3. IdleInv' /\ StartedInv' /\ DownInv'
  <2>1. Under("down")' = Under("down")
    BY <1>1 DEF Under
  <2> QED
    BY <1>1, <1>2, <2>1 DEF RelayInv, IdleInv, StartedInv, DownInv, carrierVars, serverVars, appVars
<1>4. /\ taken \in Nat /\ Len(typed) \in Nat /\ Len(served) \in Nat
      /\ served \in Seq(Lengths) /\ ended \in [Directions -> {"no", "eof", "error"}]
      /\ relay \in {"relaying", "closed"} /\ conn \in {"open", "failed"}
  BY <1>1, LenProperties DEF TypeOK, RelayInv, StartedInv
<1>5. UpInv' /\ (relay = "closed" => served' = served /\ taken' = taken)
  <2>1. CASE CopyUpReads
    <3>1. /\ ended["up"] = "no" /\ "up" \notin held /\ served' = served /\ typed' = typed
          /\ Under("up") = 0
      BY <2>1 DEF CopyUpReads, Under, appVars
    <3>2. Len(served) = taken /\ taken <= Len(typed)
      BY <1>1, <1>4, <3>1 DEF RelayInv, UpInv
    <3>3. CASE /\ relay = "relaying" /\ taken < Len(typed) /\ taken' = taken + 1
               /\ held' = held \union {"up"} /\ ended' = ended
      <4>1. Under("up")' = 1
        BY <3>3 DEF Under
      <4>2. /\ Len(served') + Under("up")' = taken' /\ taken' <= Len(typed') /\ taken' > 0
        BY <1>4, <3>1, <3>2, <3>3, <4>1
      <4>3. ended'["up"] = "no"
        BY <3>1, <3>3
      <4> QED
        BY <3>3, <4>2, <4>3 DEF UpInv
    <3>4. CASE /\ taken = Len(typed) /\ appEnd # "open"
               /\ ended' = [ended EXCEPT !["up"] = "eof"]
               /\ taken' = taken /\ held' = held
      <4>1. Under("up")' = 0 /\ ended'["up"] = "eof" /\ appEnd' = appEnd /\ "up" \notin held'
        BY <1>1, <1>4, <3>1, <3>4 DEF Under, Directions, appVars
      <4>2. Len(served') + Under("up")' = taken' /\ taken' = Len(typed')
        BY <1>4, <3>1, <3>2, <3>4, <4>1
      <4>3. taken' <= Len(typed')
        BY <1>4, <3>1, <4>2
      <4>4. appEnd' # "open"
        BY <3>4, <4>1
      <4> QED
        BY <1>1, <1>4, <3>1, <3>4, <4>1, <4>2, <4>3, <4>4 DEF UpInv
    <3>5. CASE /\ relay = "closed" /\ ended' = [ended EXCEPT !["up"] = "error"]
               /\ taken' = taken /\ held' = held
      BY <1>1, <1>4, <3>1, <3>2, <3>5 DEF UpInv, Directions
    <3> QED
      BY <2>1, <3>1, <3>3, <3>4, <3>5 DEF CopyUpReads
  <2>2. CASE CopyUpWrites
    <3>1. /\ "up" \in held /\ "up" \notin held' /\ taken' = taken /\ typed' = typed
          /\ Under("up") = 1 /\ Under("up")' = 0
      BY <2>2 DEF CopyUpWrites, Under, appVars
    <3>2. ended["up"] = "no" /\ Len(served) + 1 = taken /\ taken <= Len(typed)
      BY <1>1, <1>4, <3>1 DEF RelayInv, UpInv, Directions
    <3>3. CASE /\ relay = "relaying" /\ served' = Append(served, Understood(typed[taken]))
               /\ ended' = ended
      <4>1. Len(served') = Len(served) + 1
        <5>1. typed[taken] \in Sizes
          BY <1>4, <3>2, ElementOfSeq DEF TypeOK
        <5>2. Understood(typed[taken]) \in Lengths
          BY <5>1 DEF Understood, Lengths
        <5> QED
          BY <1>4, <3>3, <5>2, AppendProperties
      <4>2. Len(served') + Under("up")' = taken' /\ taken' <= Len(typed')
        BY <1>4, <3>1, <3>2, <4>1
      <4> QED
        BY <3>1, <3>2, <3>3, <4>2 DEF UpInv
    <3>4. CASE /\ relay = "closed" \/ conn = "failed" \/ serverEnd # 0
               /\ ended' = [ended EXCEPT !["up"] = "error"] /\ served' = served
      <4>1. Len(served') < taken'
        BY <1>4, <3>1, <3>2, <3>4
      <4>2. ended'["up"] = "error" /\ taken' <= Len(typed')
        BY <1>4, <3>1, <3>2, <3>4 DEF Directions
      <4>3. relay' = "closed" \/ conn' = "failed" \/ (serverEnd' # 0 /\ Len(served') < taken')
        BY <1>1, <3>4, <4>1 DEF carrierVars, serverVars
      <4> QED
        BY <3>1, <3>4, <4>2, <4>3 DEF UpInv
    <3> QED
      BY <1>4, <2>2, <3>1, <3>3, <3>4 DEF CopyUpWrites, ServerGone
  <2> QED
    BY <2>1, <2>2 DEF CopyUp
<1>6. ClosedInv'
  BY <1>1, <1>2, <1>5 DEF RelayInv, ClosedInv, WriteMetEnd, carrierVars, serverVars, appVars
<1> QED
  BY <1>3, <1>5, <1>6 DEF RelayInv

\* relay and pipe return for a reason, and the reason explains what is cut.
LEMMA ReturnKeepsRelay == TypeOK /\ RelayInv /\ relayReturns => RelayInv'
<1> SUFFICES ASSUME TypeOK, RelayInv, relayReturns PROVE RelayInv'
  OBVIOUS
<1>1. /\ relay = "relaying" /\ relay' = "closed"
      /\ UNCHANGED <<ended, held, blocked, copied, heard, taken, served, carrierVars, serverVars, appVars>>
      /\ kind = "socks" => ended["down"] # "no"
      /\ ended["up"] # "no" \/ ended["down"] # "no"
  <2>1. DOMAIN ended = Directions
    BY DEF TypeOK
  <2> QED
    BY <2>1 DEF relayReturns, Directions
<1>2. Banner' = Banner /\ Said' = Said /\ Banner \in {0, 1}
  BY <1>1, BannerType DEF Banner, Said, carrierVars, serverVars
<1>3. Under("down")' = Under("down") /\ Under("up")' = Under("up")
  BY <1>1 DEF Under
<1>4. IdleInv' /\ StartedInv' /\ DownInv' /\ UpInv'
  BY <1>1, <1>2, <1>3
     DEF RelayInv, IdleInv, StartedInv, DownInv, UpInv, carrierVars, serverVars, appVars
<1>5. /\ heard \in Nat /\ copied \in Nat /\ serverEnd \in Nat /\ taken \in Nat
      /\ Len(served) \in Nat /\ Len(typed) \in Nat
      /\ ended \in [Directions -> {"no", "eof", "error"}]
      /\ appEnd \in {"open", "half", "closed"}
  BY LenProperties DEF TypeOK
<1>6. ended["down"] = "eof" => serverEnd # 0 /\ (heard = Said \/ appEnd = "closed")
  <2> SUFFICES ASSUME ended["down"] = "eof"
               PROVE  serverEnd # 0 /\ (heard = Said \/ appEnd = "closed")
    OBVIOUS
  <2>1. /\ "down" \notin held /\ serverEnd # 0 /\ copied + 1 = serverEnd
        /\ heard + Banner + Under("down") = copied \/ appEnd = "closed"
    BY <1>1 DEF RelayInv, DownInv
  <2>2. heard + Banner = serverEnd - 1 \/ appEnd = "closed"
    BY <1>2, <1>5, <2>1 DEF Under
  <2> QED
    BY <1>2, <1>5, <2>1, <2>2 DEF Said
<1>7. ended["up"] = "eof" => appEnd \in {"half", "closed"} /\ Len(served) = Len(typed)
  <2> SUFFICES ASSUME ended["up"] = "eof"
               PROVE  appEnd \in {"half", "closed"} /\ Len(served) = Len(typed)
    OBVIOUS
  <2>1. /\ Len(served) + Under("up") = taken /\ "up" \notin held
        /\ appEnd # "open" /\ taken = Len(typed)
    BY <1>1 DEF RelayInv, UpInv
  <2> QED
    BY <1>5, <2>1 DEF Under
<1>8. ended["down"] = "error" => conn = "failed" \/ appEnd = "closed"
  BY <1>1 DEF RelayInv, DownInv
<1>9. ended["up"] = "error" => conn = "failed" \/ (serverEnd # 0 /\ Len(served) < taken)
  BY <1>1 DEF RelayInv, UpInv
<1>10. ended["down"] \in {"no", "eof", "error"} /\ ended["up"] \in {"no", "eof", "error"}
  BY <1>5 DEF Directions
<1>11. /\ \/ serverEnd # 0 /\ heard = Said
          \/ WriteMetEnd
          \/ conn = "failed" \/ appEnd = "closed"
          \/ appEnd = "half" /\ kind # "socks"
       /\ \/ Len(served) = Len(typed)
          \/ conn = "failed" \/ serverEnd # 0 \/ appEnd = "closed"
  BY <1>1, <1>6, <1>7, <1>8, <1>9, <1>10 DEF WriteMetEnd
<1>12. ClosedInv'
  BY <1>1, <1>2, <1>11 DEF ClosedInv, WriteMetEnd, carrierVars, serverVars, appVars
<1> QED
  BY <1>4, <1>12 DEF RelayInv

\* A write that waits is held as before.
LEMMA BlocksKeepRelay == TypeOK /\ RelayInv /\ Blocks => RelayInv'
<1> SUFFICES ASSUME TypeOK, RelayInv, Blocks PROVE RelayInv'
  OBVIOUS
<1>1. UNCHANGED <<relay, ended, held, copied, heard, taken, served,
                  carrierVars, serverVars, appVars>>
  BY DEF Blocks, WriteBlocks
<1>2. Banner' = Banner /\ Said' = Said
      /\ Under("down")' = Under("down") /\ Under("up")' = Under("up")
  BY <1>1 DEF Banner, Said, Under, carrierVars, serverVars
<1> QED
  BY <1>1, <1>2 DEF RelayInv, IdleInv, StartedInv, DownInv, UpInv, ClosedInv,
       WriteMetEnd, carrierVars, serverVars, appVars

--------------------------------------------------------------------------------
(* What a relay cuts off.                                                  *)

LEMMA NextKeepsRelay == TypeOK /\ RelayInv /\ [Next]_vars => (TypeOK /\ RelayInv)'
<1> SUFFICES ASSUME TypeOK, RelayInv, [Next]_vars PROVE (TypeOK /\ RelayInv)'
  OBVIOUS
<1>1. CASE Server
  BY <1>1, ServerTypes, ServerKeepsRelay
<1>2. CASE App
  BY <1>2, AppTypes, AppKeepsRelay
<1>3. CASE Carry
  BY <1>3, CarryTypes, CarryKeepsRelay
<1>4. CASE StartRelay
  BY <1>4, CopyTypes, StartKeepsRelay
<1>5. CASE CopyDown
  BY <1>5, CopyTypes, DownKeepsRelay
<1>6. CASE CopyUp
  BY <1>6, CopyTypes, UpKeepsRelay
<1>7. CASE relayReturns
  BY <1>7, CopyTypes, ReturnKeepsRelay
<1>8. CASE UNCHANGED vars
  <2> USE DEF vars, carrierVars, serverVars, relayVars, appVars
  <2>1. TypeOK'
    BY <1>8 DEF TypeOK
  <2>2. RelayInv'
    BY <1>8 DEF RelayInv, IdleInv, StartedInv, DownInv, UpInv, ClosedInv, WriteMetEnd,
         Under, Said, Banner
  <2> QED
    BY <2>1, <2>2
<1>9. CASE Blocks
  BY <1>9, CopyTypes, BlocksKeepRelay
<1> QED
  BY <1>1, <1>2, <1>3, <1>4, <1>5, <1>6, <1>7, <1>8, <1>9 DEF Next, Blocks

\* What both copies have read, written and hold fits together at any time,
\* for every number and size of units and writes and over every carrier.
THEOREM RelayInvariant == Spec => [](TypeOK /\ RelayInv)
<1>1. Init => TypeOK /\ RelayInv
  BY InitTypes, InitRelay
<1> QED
  BY <1>1, NextKeepsRelay, PTL DEF Spec

\* What a closed relay has cut off, in either direction, is explained by the
\* end of the server, of the app or of the carrier.
THEOREM OnlyEndsCutHolds == Spec => []OnlyEndsCut
<1>1. TypeOK /\ RelayInv => OnlyEndsCut
  BY DEF RelayInv, ClosedInv, OnlyEndsCut
<1> QED
  BY <1>1, RelayInvariant, PTL

--------------------------------------------------------------------------------
(* The order of the units.                                                 *)

\* A frame carries the units from a + 1 to b; a sequence of frames carries
\* them when each goes on where the one before it ends.
Carries(f, a, b) == a <= b /\ f.data = [k \in 1..(b - a) |-> a + k]
Chain(q, a, b) ==
  \E at \in [1..(Len(q) + 1) -> Nat] :
    /\ at[1] = a /\ at[Len(q) + 1] = b
    /\ \A i \in 1..Len(q) : Carries(q[i], at[i], at[i + 1])

LEMMA ChainEmpty ==
  /\ \A a \in Nat : Chain(<<>>, a, a)
  /\ \A a, b : Chain(<<>>, a, b) => a = b
<1>1. Len(<<>>) = 0
  OBVIOUS
<1>2. ASSUME NEW a \in Nat PROVE Chain(<<>>, a, a)
  <2> DEFINE at == [i \in 1..1 |-> a]
  <2>1. at \in [1..1 -> Nat] /\ at[1] = a
    OBVIOUS
  <2> HIDE DEF at
  <2> QED
    BY <1>1, <2>1 DEF Chain
<1>3. ASSUME NEW a, NEW b, Chain(<<>>, a, b) PROVE a = b
  BY <1>1, <1>3 DEF Chain
<1> QED
  BY <1>2, <1>3

LEMMA ChainAppend ==
  ASSUME NEW q \in Seq(Frames), NEW f \in Frames, NEW a \in Nat, NEW b \in Nat, NEW c \in Nat,
         Chain(q, a, b), Carries(f, b, c)
  PROVE  Chain(Append(q, f), a, c)
<1>1. PICK at \in [1..(Len(q) + 1) -> Nat] :
        /\ at[1] = a /\ at[Len(q) + 1] = b
        /\ \A i \in 1..Len(q) : Carries(q[i], at[i], at[i + 1])
  BY DEF Chain
<1> DEFINE n == Len(q)
           new == [i \in 1..(n + 2) |-> IF i = n + 2 THEN c ELSE at[i]]
           r == Append(q, f)
<1>2. n \in Nat /\ Len(r) = n + 1 /\ r[n + 1] = f /\ \A i \in 1..n : r[i] = q[i]
  BY AppendProperties, LenProperties
<1>3. /\ new \in [1..(n + 2) -> Nat] /\ new[n + 2] = c
      /\ \A i \in 1..(n + 1) : new[i] = at[i]
  BY <1>2
<1> HIDE DEF n, new, r
<1>4. \A i \in 1..(n + 1) : Carries(r[i], new[i], new[i + 1])
  <2> TAKE i \in 1..(n + 1)
  <2>1. CASE i = n + 1
    BY <1>1, <1>2, <1>3, <2>1 DEF n
  <2>2. CASE i # n + 1
    <3>1. i \in 1..n /\ i + 1 \in 1..(n + 1) /\ i \in 1..(n + 1)
      BY <1>2, <2>2
    <3>2. Carries(q[i], at[i], at[i + 1])
      BY <1>1, <3>1 DEF n
    <3> QED
      BY <1>2, <1>3, <3>1, <3>2
  <2> QED
    BY <2>1, <2>2
<1>5. new[1] = a
  <2>1. 1 \in 1..(n + 1)
    BY <1>2
  <2>2. at[1] = a
    BY <1>1
  <2> QED
    BY <1>3, <2>1, <2>2
<1>6. Chain(r, a, c)
  <2>1. Len(r) + 1 = n + 2
    BY <1>2
  <2> QED
    BY <1>2, <1>3, <1>4, <1>5, <2>1 DEF Chain
<1> QED
  BY <1>6 DEF r

\* A chain can be cut behind any of its frames.
LEMMA ChainSplit ==
  ASSUME NEW q \in Seq(Frames), NEW n \in 0..Len(q), NEW a \in Nat, NEW b \in Nat,
         Chain(q, a, b)
  PROVE  \E m \in Nat : Chain(SubSeq(q, 1, n), a, m) /\ Chain(SubSeq(q, n + 1, Len(q)), m, b)
<1>1. PICK at \in [1..(Len(q) + 1) -> Nat] :
        /\ at[1] = a /\ at[Len(q) + 1] = b
        /\ \A i \in 1..Len(q) : Carries(q[i], at[i], at[i + 1])
  BY DEF Chain
<1> DEFINE l == Len(q)
           front == SubSeq(q, 1, n)
           back == SubSeq(q, n + 1, Len(q))
           one == [i \in 1..(n + 1) |-> at[i]]
           two == [i \in 1..(l - n + 1) |-> at[n + i]]
<1>2. l \in Nat /\ n \in Nat /\ n <= l
  BY LenProperties
<1>3. /\ Len(front) = n /\ \A i \in 1..n : front[i] = q[i]
      /\ Len(back) = l - n /\ \A i \in 1..(l - n) : back[i] = q[n + i]
  BY <1>2, SubSeqProperties
<1>4. /\ at \in [1..(l + 1) -> Nat] /\ at[1] = a /\ at[l + 1] = b
      /\ \A i \in 1..l : Carries(q[i], at[i], at[i + 1])
  BY <1>1
<1> HIDE DEF l
<1>5. /\ one \in [1..(n + 1) -> Nat] /\ \A i \in 1..(n + 1) : one[i] = at[i]
      /\ two \in [1..(l - n + 1) -> Nat] /\ \A i \in 1..(l - n + 1) : two[i] = at[n + i]
  BY <1>2, <1>4
<1> HIDE DEF front, back, one, two
<1>6. at[n + 1] \in Nat
  BY <1>2, <1>4
<1>7. Chain(front, a, at[n + 1])
  <2>1. \A i \in 1..n : Carries(front[i], one[i], one[i + 1])
    <3> TAKE i \in 1..n
    <3>1. i \in 1..l /\ i \in 1..(n + 1) /\ i + 1 \in 1..(n + 1)
      BY <1>2
    <3> QED
      BY <1>3, <1>4, <1>5, <3>1
  <2>2. one[1] = a /\ one[n + 1] = at[n + 1]
    BY <1>2, <1>4, <1>5
  <2> QED
    BY <1>3, <1>5, <2>1, <2>2 DEF Chain
<1>8. Chain(back, at[n + 1], b)
  <2>1. \A i \in 1..(l - n) : Carries(back[i], two[i], two[i + 1])
    <3> TAKE i \in 1..(l - n)
    <3>1. /\ n + i \in 1..l /\ i \in 1..(l - n + 1) /\ i + 1 \in 1..(l - n + 1)
          /\ n + (i + 1) = (n + i) + 1
      BY <1>2
    <3>2. Carries(q[n + i], at[n + i], at[(n + i) + 1])
      BY <1>4, <3>1
    <3>3. two[i] = at[n + i] /\ two[i + 1] = at[n + (i + 1)] /\ back[i] = q[n + i]
      BY <1>3, <1>5, <3>1
    <3> QED
      BY <3>1, <3>2, <3>3
  <2>2. two[1] = at[n + 1] /\ two[l - n + 1] = b
    <3>1. n + (l - n + 1) = l + 1 /\ 1 \in 1..(l - n + 1) /\ l - n + 1 \in 1..(l - n + 1)
      BY <1>2
    <3> QED
      BY <1>4, <1>5, <3>1
  <2> QED
    BY <1>3, <1>5, <2>1, <2>2 DEF Chain
<1> QED
  BY <1>6, <1>7, <1>8 DEF front, back, l

\* The first frame of a chain carries the first units.
LEMMA ChainTail ==
  ASSUME NEW q \in Seq(Frames), q # <<>>, NEW a \in Nat, NEW b \in Nat, Chain(q, a, b)
  PROVE  \E m \in Nat : Carries(Head(q), a, m) /\ Chain(Tail(q), m, b)
<1>1. PICK at \in [1..(Len(q) + 1) -> Nat] :
        /\ at[1] = a /\ at[Len(q) + 1] = b
        /\ \A i \in 1..Len(q) : Carries(q[i], at[i], at[i + 1])
  BY DEF Chain
<1> DEFINE l == Len(q)
           rest == Tail(q)
           new == [i \in 1..l |-> at[i + 1]]
<1>2. l \in Nat /\ l # 0
  BY EmptySeq, LenProperties
<1>3. Head(q) = q[1] /\ Len(rest) = l - 1 /\ \A i \in 1..(l - 1) : rest[i] = q[i + 1]
  BY HeadTailProperties
<1>4. /\ at \in [1..(l + 1) -> Nat] /\ at[1] = a /\ at[l + 1] = b
      /\ \A i \in 1..l : Carries(q[i], at[i], at[i + 1])
  BY <1>1
<1> HIDE DEF l
<1>5. new \in [1..l -> Nat] /\ \A i \in 1..l : new[i] = at[i + 1]
  BY <1>2, <1>4
<1> HIDE DEF rest, new
<1>6. at[2] \in Nat /\ Carries(Head(q), a, at[2])
  <2>1. 2 \in 1..(l + 1) /\ 1 \in 1..l /\ 1 + 1 = 2
    BY <1>2
  <2> QED
    BY <1>3, <1>4, <2>1
<1>7. Chain(rest, at[2], b)
  <2>1. \A i \in 1..(l - 1) : Carries(rest[i], new[i], new[i + 1])
    <3> TAKE i \in 1..(l - 1)
    <3>1. i \in 1..l /\ i + 1 \in 1..l
      BY <1>2
    <3> QED
      BY <1>3, <1>4, <1>5, <3>1
  <2>2. new[1] = at[2] /\ new[l] = b /\ (l - 1) + 1 = l
    BY <1>2, <1>4, <1>5
  <2> QED
    BY <1>3, <1>5, <2>1, <2>2 DEF Chain
<1> QED
  BY <1>6, <1>7 DEF rest

\* The units on their way go on where SSH has got to: those of the frame
\* being read, of the reader, of the wire.
OnTheirWay ==
  /\ readBuf = [k \in 1..Len(readBuf) |-> accepted + k]
  /\ \E m \in Nat : Chain(reader, accepted + Len(readBuf), m) /\ Chain(wire, m, spoken)

\* Nothing is read before the upgrade is answered, and behind TLS nothing is
\* said.
UpgradeInv ==
  /\ conn = "upgrade" => reader = <<>> /\ readBuf = <<>> /\ ~early /\ kind \notin {"ssh", "socks"}
  /\ kind = "connectTls" /\ conn = "upgrade" => wire = <<>>

OrderInv ==
  ~Disturbed => ~broken /\ (conn # "failed" => OnTheirWay)

LEMMA InitOrder == Init => UpgradeInv /\ OrderInv
<1> SUFFICES ASSUME Init PROVE UpgradeInv /\ OrderInv
  OBVIOUS
<1>1. UpgradeInv
  BY DEF Init, UpgradeInv
<1>2. /\ readBuf = <<>> /\ reader = <<>> /\ wire = <<>> /\ accepted = 0 /\ spoken = 0 /\ ~broken
  BY DEF Init
<1>3. Chain(<<>>, 0, 0)
  BY ChainEmpty
<1>4. readBuf = [k \in 1..Len(readBuf) |-> accepted + k] /\ accepted + Len(readBuf) = 0
  BY <1>2
<1>5. OnTheirWay
  BY <1>2, <1>3, <1>4 DEF OnTheirWay
<1> QED
  BY <1>1, <1>2, <1>5 DEF OrderInv

\* The server goes on where it was.
LEMMA ServerKeepsOrder == TypeOK /\ UpgradeInv /\ OrderInv /\ Server => (UpgradeInv /\ OrderInv)'
<1> SUFFICES ASSUME TypeOK, UpgradeInv, OrderInv, Server PROVE (UpgradeInv /\ OrderInv)'
  OBVIOUS
<1>1. wire \in Seq(Frames) /\ spoken \in Nat /\ pings \in Seq(Seq(Nat))
  BY DEF TypeOK
<1>2. ASSUME NEW f \in Frames, NEW c \in Nat, Carries(f, spoken, c), OnTheirWay,
             wire' = Append(wire, f), spoken' = c, UNCHANGED <<reader, readBuf, accepted>>
      PROVE  OnTheirWay'
  <2>1. PICK m \in Nat : Chain(reader, accepted + Len(readBuf), m) /\ Chain(wire, m, spoken)
    BY <1>2 DEF OnTheirWay
  <2>2. Chain(Append(wire, f), m, c)
    BY <1>1, <1>2, <2>1, ChainAppend
  <2> QED
    BY <1>2, <2>1, <2>2 DEF OnTheirWay
<1>3. CASE \E n \in 1..MaxUnits : ServerSays(n)
  <2>1. PICK n \in 1..MaxUnits : ServerSays(n)
    BY <1>3
  <2> DEFINE f == Frame("binary", [i \in 1..n |-> spoken + i])
  <2>2. n \in Nat
    BY BoundsAssumption
  <2>3. /\ wire' = Append(wire, f) /\ spoken' = spoken + n
        /\ UNCHANGED <<kind, conn, early, reader, readBuf, accepted, broken, pings>>
        /\ conn # "failed" /\ (kind = "connectTls" => conn = "open")
    BY <2>1 DEF ServerSays
  <2>4. f \in Frames
    BY <1>1, <2>2 DEF Frame, Frames
  <2>5. Carries(f, spoken, spoken + n) /\ spoken + n \in Nat
    <3>1. (spoken + n) - spoken = n /\ spoken <= spoken + n /\ spoken + n \in Nat
      BY <1>1, <2>2
    <3> QED
      BY <3>1 DEF Carries, Frame
  <2> HIDE DEF f
  <2>6. UpgradeInv'
    BY <2>3 DEF UpgradeInv
  <2>7. Disturbed' <=> Disturbed
    BY <2>3 DEF Disturbed
  <2> QED
    BY <1>2, <2>3, <2>4, <2>5, <2>6, <2>7 DEF OrderInv
<1>4. CASE \E op \in {"ping", "close"}, data \in {<<>>, <<0>>} : ServerControls(op, data)
  <2>1. PICK op \in {"ping", "close"}, data \in {<<>>, <<0>>} : ServerControls(op, data)
    BY <1>4
  <2> DEFINE f == Frame(op, data)
  <2>2. /\ wire' = Append(wire, f) /\ spoken' = spoken /\ pings' = Append(pings, data)
        /\ kind = "websocket"
        /\ UNCHANGED <<kind, conn, early, reader, readBuf, accepted, broken>>
    BY <2>1 DEF ServerControls
  <2>3. data \in Seq(Nat)
    <3>1. <<>> \in Seq(Nat) /\ <<0>> \in Seq(Nat)
      OBVIOUS
    <3> QED
      BY <3>1
  <2>4. f \in Frames
    BY <2>3 DEF Frame, Frames
  <2>5. ~Disturbed' => ~Disturbed /\ data = <<>>
    <3>1. /\ Len(pings) \in Nat /\ DOMAIN pings = 1..Len(pings)
          /\ DOMAIN pings' = 1..(Len(pings) + 1) /\ pings'[Len(pings) + 1] = data
          /\ \A i \in 1..Len(pings) : pings'[i] = pings[i]
      BY <1>1, <2>2, <2>3, AppendProperties, LenProperties
    <3> QED
      BY <2>2, <3>1 DEF Disturbed
  <2>6. data = <<>> => Carries(f, spoken, spoken)
    <3>1. spoken - spoken = 0 /\ spoken <= spoken /\ <<>> = [k \in 1..0 |-> spoken + k]
      BY <1>1
    <3> QED
      BY <3>1 DEF Carries, Frame
  <2> HIDE DEF f
  <2>7. UpgradeInv'
    BY <2>2 DEF UpgradeInv
  <2> QED
    BY <1>1, <1>2, <2>2, <2>4, <2>5, <2>6, <2>7 DEF OrderInv
<1> QED
  BY <1>3, <1>4 DEF Server

\* The response to the upgrade takes frames from the wire; where they do not
\* reach the reader the stream is disturbed from now on.
LEMMA ResponseKeepsOrder ==
  TypeOK /\ UpgradeInv /\ OrderInv /\ ReadResponse => (UpgradeInv /\ OrderInv)'
<1> SUFFICES ASSUME TypeOK, UpgradeInv, OrderInv, ReadResponse PROVE (UpgradeInv /\ OrderInv)'
  OBVIOUS
<1>1. PICK n \in 0..Len(wire) :
        /\ early' = (n > 0)
        /\ reader' = IF kind = "websocket" THEN SubSeq(wire, 1, n) ELSE <<>>
        /\ wire' = SubSeq(wire, n + 1, Len(wire))
  BY DEF ReadResponse
<1>2. /\ conn = "upgrade" /\ conn' = "open"
      /\ UNCHANGED <<kind, readBuf, accepted, broken, spoken, pings>>
  BY DEF ReadResponse, serverVars
<1>3. /\ wire \in Seq(Frames) /\ accepted \in Nat /\ spoken \in Nat /\ kind \in Kinds
      /\ n \in Nat /\ Len(wire) \in Nat
  BY LenProperties DEF TypeOK
<1>4. reader = <<>> /\ readBuf = <<>> /\ ~early
  BY <1>2 DEF UpgradeInv
<1>5. UpgradeInv'
  BY <1>2 DEF UpgradeInv
<1>6. OrderInv'
  <2> SUFFICES ASSUME ~Disturbed' PROVE ~broken' /\ OnTheirWay'
    BY DEF OrderInv
  <2>1. ~Disturbed /\ (kind = "connect" => n = 0)
    <3>1. kind = "connect" => ~early'
      BY <1>2 DEF Disturbed
    <3>2. kind = "connect" => n = 0
      <4>1. early' = (n > 0)
        BY <1>1
      <4>2. n > 0 => early'
        BY <4>1, Zenon
      <4>3. ~(n > 0) => n = 0
        BY <1>3
      <4> QED
        BY <3>1, <4>2, <4>3, Zenon
    <3> QED
      BY <1>2, <1>4, <3>2 DEF Disturbed
  <2>2. ~broken /\ OnTheirWay
    BY <1>2, <2>1 DEF OrderInv
  <2>3. PICK m \in Nat : Chain(reader, accepted + Len(readBuf), m) /\ Chain(wire, m, spoken)
    BY <2>2 DEF OnTheirWay
  <2>4. accepted + Len(readBuf) = m
    BY <1>4, <2>3, ChainEmpty
  <2>5. PICK m2 \in Nat : Chain(SubSeq(wire, 1, n), m, m2) /\ Chain(wire', m2, spoken)
    BY <1>1, <1>3, <2>3, ChainSplit
  <2>6. kind # "websocket" => n = 0
    <3>1. kind # "websocket" => kind \in {"connect", "connectTls"}
      BY <1>2, <1>3, KindsAssumption DEF UpgradeInv
    <3>2. kind = "connectTls" => Len(wire) = 0
      BY <1>2 DEF UpgradeInv
    <3> QED
      BY <1>3, <2>1, <3>1, <3>2
  <2>7. Chain(reader', m, m2)
    <3>1. CASE kind = "websocket"
      BY <1>1, <2>5, <3>1
    <3>2. CASE kind # "websocket"
      <4>1. n = 0 /\ reader' = <<>>
        BY <1>1, <2>6, <3>2
      <4>2. SubSeq(wire, 1, 0) = <<>>
        BY <1>3, SubSeqEmpty
      <4>3. SubSeq(wire, 1, n) = reader'
        BY <4>1, <4>2
      <4> QED
        BY <2>5, <4>3
    <3> QED
      BY <3>1, <3>2
  <2> QED
    BY <1>2, <2>2, <2>4, <2>5, <2>7 DEF OnTheirWay
<1> QED
  BY <1>5, <1>6

\* A frame that is taken up carries the units that come next.
LEMMA FrameKeepsOrder ==
  TypeOK /\ UpgradeInv /\ OrderInv /\ readFrame => (UpgradeInv /\ OrderInv)'
<1> SUFFICES ASSUME TypeOK, UpgradeInv, OrderInv, readFrame PROVE (UpgradeInv /\ OrderInv)'
  OBVIOUS
<1>1. /\ conn = "open" /\ readBuf = <<>>
      /\ UNCHANGED <<kind, early, accepted, broken, spoken, pings>>
  BY DEF readFrame, serverVars
<1>2. PICK frame \in Frames :
           /\ \/ /\ reader # <<>> /\ frame = Head(reader)
                 /\ reader' = Tail(reader) /\ reader' \in Seq(Frames) /\ UNCHANGED wire
              \/ /\ reader = <<>> /\ wire # <<>> /\ frame = Head(wire)
                 /\ wire' = Tail(wire) /\ wire' \in Seq(Frames) /\ UNCHANGED reader
           /\ \/ frame.op = "close" /\ conn' = "failed" /\ UNCHANGED readBuf
              \/ frame.op # "close" /\ readBuf' = frame.data /\ UNCHANGED conn
  BY NextFrame
<1>3. /\ wire \in Seq(Frames) /\ reader \in Seq(Frames) /\ accepted \in Nat /\ spoken \in Nat
  BY DEF TypeOK
<1>4. UpgradeInv'
  BY <1>1, <1>2 DEF UpgradeInv
<1>5. ASSUME ~Disturbed', conn' # "failed" PROVE OnTheirWay'
  <2>1. OnTheirWay /\ readBuf' = frame.data
    BY <1>1, <1>2, <1>5 DEF OrderInv, Disturbed
  <2>2. PICK m \in Nat : Chain(reader, accepted, m) /\ Chain(wire, m, spoken)
    <3>1. accepted + Len(readBuf) = accepted
      BY <1>1, <1>3
    <3> QED
      BY <2>1, <3>1 DEF OnTheirWay
  <2>3. \E m1, m2 \in Nat : /\ Carries(frame, accepted, m1)
                            /\ Chain(reader', m1, m2) /\ Chain(wire', m2, spoken)
    <3>1. CASE reader # <<>>
      <4>1. PICK m1 \in Nat : Carries(Head(reader), accepted, m1) /\ Chain(Tail(reader), m1, m)
        BY <1>3, <2>2, <3>1, ChainTail
      <4> QED
        BY <1>2, <2>2, <3>1, <4>1
    <3>2. CASE reader = <<>>
      <4>1. accepted = m
        BY <2>2, <3>2, ChainEmpty
      <4>2. PICK m1 \in Nat : Carries(Head(wire), m, m1) /\ Chain(Tail(wire), m1, spoken)
        BY <1>2, <1>3, <2>2, <3>2, ChainTail
      <4>3. Chain(reader', m1, m1)
        BY <1>2, <3>2, ChainEmpty
      <4> QED
        BY <1>2, <3>2, <4>1, <4>2, <4>3
    <3> QED
      BY <3>1, <3>2
  <2>4. PICK m1, m2 \in Nat : /\ Carries(frame, accepted, m1)
                              /\ Chain(reader', m1, m2) /\ Chain(wire', m2, spoken)
    BY <2>3
  <2>5. accepted <= m1 /\ readBuf' = [k \in 1..(m1 - accepted) |-> accepted + k]
    BY <2>1, <2>4 DEF Carries
  <2>6. Len(readBuf') = m1 - accepted
    BY <1>3, <2>5
  <2>7. accepted' + Len(readBuf') = m1
    BY <1>1, <1>3, <2>6
  <2>8. readBuf' = [k \in 1..Len(readBuf') |-> accepted' + k]
    BY <1>1, <2>5, <2>6
  <2> QED
    BY <1>1, <2>4, <2>7, <2>8 DEF OnTheirWay
<1>6. OrderInv'
  BY <1>1, <1>5 DEF OrderInv, Disturbed
<1> QED
  BY <1>4, <1>6

\* What Read hands out is what SSH waits for.
LEMMA ReadKeepsOrder ==
  ASSUME TypeOK, UpgradeInv, OrderInv, NEW n \in 1..MaxUnits, Read(n)
  PROVE  (UpgradeInv /\ OrderInv)'
<1> DEFINE l == Len(readBuf)
<1>1. /\ conn = "open" /\ n <= l
      /\ readBuf' = SubSeq(readBuf, n + 1, l)
      /\ IF SubSeq(readBuf, 1, n) = [i \in 1..n |-> accepted + i]
            THEN accepted' = accepted + n /\ UNCHANGED <<conn, broken>>
            ELSE conn' = "failed" /\ broken' = TRUE /\ UNCHANGED accepted
      /\ UNCHANGED <<kind, early, wire, reader, spoken, pings>>
  BY DEF Read, serverVars
<1>2. /\ readBuf \in Seq(Nat) /\ l \in Nat /\ accepted \in Nat /\ spoken \in Nat
      /\ n \in Nat /\ n \in 1..l
  BY <1>1, BoundsAssumption, LenProperties DEF TypeOK
<1>3. UpgradeInv'
  BY <1>1 DEF UpgradeInv
<1>4. ASSUME ~Disturbed' PROVE ~broken' /\ OnTheirWay'
  <2>1. ~broken /\ OnTheirWay
    BY <1>1, <1>4 DEF OrderInv, Disturbed
  <2>2. readBuf = [k \in 1..l |-> accepted + k]
    BY <2>1 DEF OnTheirWay
  <2>3. \A k \in 1..l : readBuf[k] = accepted + k
    BY <2>2
  <2>12. /\ SubSeq(readBuf, 1, n) \in Seq(Nat)
         /\ SubSeq(readBuf, n + 1, Len(readBuf)) \in Seq(Nat)
         /\ Len(SubSeq(readBuf, 1, n)) = n
         /\ Len(SubSeq(readBuf, n + 1, Len(readBuf))) = Len(readBuf) - n
         /\ \A k \in 1..n : SubSeq(readBuf, 1, n)[k] = readBuf[k]
         /\ \A k \in 1..(Len(readBuf) - n) :
              SubSeq(readBuf, n + 1, Len(readBuf))[k] = readBuf[n + k]
    <3>1. n \in 0..Len(readBuf)
      BY <1>2
    <3>2. readBuf \in Seq(Nat)
      BY <1>2
    <3> QED
      BY <3>1, <3>2, CutNumbers
  <2> HIDE DEF l
  <2>4. /\ SubSeq(readBuf, 1, n) \in Seq(Nat) /\ Len(SubSeq(readBuf, 1, n)) = n
        /\ \A k \in 1..n : SubSeq(readBuf, 1, n)[k] = readBuf[k]
        /\ SubSeq(readBuf, n + 1, l) \in Seq(Nat) /\ Len(SubSeq(readBuf, n + 1, l)) = l - n
        /\ \A k \in 1..(l - n) : SubSeq(readBuf, n + 1, l)[k] = readBuf[n + k]
    BY <2>12 DEF l
  <2>5. \A k \in 1..n : SubSeq(readBuf, 1, n)[k] = accepted + k
    BY <1>2, <2>3, <2>4
  <2>6. SubSeq(readBuf, 1, n) = [k \in 1..n |-> accepted + k]
    BY <2>4, <2>5
  <2>7. accepted' = accepted + n /\ UNCHANGED <<conn, broken>>
    BY <1>1, <2>6
  <2>8. Len(readBuf') = l - n /\ readBuf' \in Seq(Nat)
    BY <1>1, <2>4
  <2>9. \A k \in 1..(l - n) : readBuf'[k] = accepted' + k
    <3> TAKE k \in 1..(l - n)
    <3>1. n + k \in 1..l /\ accepted + (n + k) = (accepted + n) + k
      BY <1>2
    <3>2. readBuf'[k] = readBuf[n + k]
      BY <1>1, <2>4
    <3> QED
      BY <2>3, <2>7, <3>1, <3>2
  <2>10. readBuf' = [k \in 1..Len(readBuf') |-> accepted' + k]
    BY <2>8, <2>9
  <2>11. accepted' + Len(readBuf') = accepted + l
    BY <1>2, <2>7, <2>8
  <2> QED
    BY <1>1, <2>1, <2>7, <2>10, <2>11 DEF OnTheirWay, l
<1> QED
  BY <1>3, <1>4 DEF OrderInv

LEMMA CarryKeepsOrder == TypeOK /\ UpgradeInv /\ OrderInv /\ Carry => (UpgradeInv /\ OrderInv)'
<1> SUFFICES ASSUME TypeOK, UpgradeInv, OrderInv, Carry PROVE (UpgradeInv /\ OrderInv)'
  OBVIOUS
<1>1. CASE ReadResponse
  BY <1>1, ResponseKeepsOrder
<1>2. CASE ConnFails
  <2>1. conn' = "failed" /\ UNCHANGED <<kind, early, wire, reader, readBuf, broken, pings>>
    BY <1>2 DEF ConnFails, serverVars
  <2> QED
    BY <2>1 DEF UpgradeInv, OrderInv, Disturbed
<1>3. CASE readFrame
  BY <1>3, FrameKeepsOrder
<1>4. CASE \E n \in 1..MaxUnits : Read(n)
  BY <1>4, ReadKeepsOrder
<1> QED
  BY <1>1, <1>2, <1>3, <1>4 DEF Carry

LEMMA NextKeepsOrder ==
  TypeOK /\ UpgradeInv /\ OrderInv /\ [Next]_vars => (UpgradeInv /\ OrderInv)'
<1> SUFFICES ASSUME TypeOK, UpgradeInv, OrderInv, [Next]_vars PROVE (UpgradeInv /\ OrderInv)'
  OBVIOUS
<1>1. CASE Server
  BY <1>1, ServerKeepsOrder
<1>2. CASE Carry
  BY <1>2, CarryKeepsOrder
<1>3. CASE UNCHANGED <<carrierVars, serverVars>>
  BY <1>3 DEF UpgradeInv, OrderInv, OnTheirWay, Disturbed, carrierVars, serverVars
<1>4. App \/ StartRelay \/ CopyDown \/ CopyUp \/ Blocks \/ relayReturns \/ UNCHANGED vars
        => UNCHANGED <<carrierVars, serverVars>>
  BY DEF App, AppWrites, AppEnds, StartRelay, CopyDown, CopyDownReads, CopyDownWrites,
         CopyUp, CopyUpReads, CopyUpWrites, Blocks, WriteBlocks, relayReturns, vars
<1> QED
  BY <1>1, <1>2, <1>3, <1>4 DEF Next, Blocks

\* The units on their way are the next ones, in order, wherever a read cuts
\* the frames, as long as the stream is not disturbed.
THEOREM OrderInvariant == Spec => [](UpgradeInv /\ OrderInv)
<1>1. TypeOK /\ RelayInv /\ UpgradeInv /\ OrderInv /\ [Next]_vars => (UpgradeInv /\ OrderInv)'
  BY NextKeepsOrder
<1> QED
  BY <1>1, InitOrder, RelayInvariant, PTL DEF Spec

\* SSH meets a wrong unit only if the server spoke before the response to a
\* CONNECT was read, or a WebSocket control frame carried data.
THEOREM UnitsInOrderHolds == Spec => []UnitsInOrder
<1>1. OrderInv => UnitsInOrder
  BY DEF OrderInv, UnitsInOrder
<1> QED
  BY <1>1, OrderInvariant, PTL

--------------------------------------------------------------------------------
(* The writes.                                                             *)

\* A number is its last byte and what stands before it.
LEMMA LastByte ==
  ASSUME NEW m \in Nat, NEW q \in Nat, NEW b \in Nat, q = m \div 256, b = m % 256
  PROVE  m = 256 * q + b /\ b < 256
BY SMT

\* Quotients by the other two units, from what was cut off.
LEMMA CutTwo ==
  ASSUME NEW m \in Nat, NEW q \in Nat, NEW r \in Nat, r < 65536, m = 65536 * q + r
  PROVE  m \div 65536 = q
BY SMT

LEMMA CutThree ==
  ASSUME NEW m \in Nat, NEW q \in Nat, NEW r \in Nat, r < 16777216, m = 16777216 * q + r
  PROVE  m \div 16777216 = q
BY SMT

\* A length is what its bytes say.
LEMMA BytesOf ==
  ASSUME NEW n \in Nat, n <= 2147483647
  PROVE  /\ n < 65536 => n = 256 * Byte(n, 256) + Byte(n, 1)
         /\ n = 65536 * (256 * Byte(n, 16777216) + Byte(n, 65536)) + (256 * Byte(n, 256) + Byte(n, 1))
<1>1. PICK q1 \in Nat, b1 \in Nat : q1 = n \div 256 /\ b1 = n % 256
  BY SMT
<1>2. PICK q2 \in Nat, b2 \in Nat : q2 = q1 \div 256 /\ b2 = q1 % 256
  BY SMT
<1>3. PICK q3 \in Nat, b3 \in Nat : q3 = q2 \div 256 /\ b3 = q2 % 256
  BY SMT
<1>4. n = 256 * q1 + b1 /\ b1 < 256
  BY <1>1, LastByte, SMT
<1>5. q1 = 256 * q2 + b2 /\ b2 < 256
  BY <1>2, LastByte, SMT
<1>6. q2 = 256 * q3 + b3 /\ b3 < 256
  BY <1>3, LastByte, SMT
<1>7. n \div 65536 = q2
  <2>1. n = 65536 * q2 + (256 * b2 + b1) /\ 256 * b2 + b1 < 65536
    BY <1>4, <1>5, SMT
  <2> QED
    BY <2>1, CutTwo, SMT
<1>8. n \div 16777216 = q3
  <2>1. /\ n = 16777216 * q3 + (65536 * b3 + 256 * b2 + b1)
        /\ 65536 * b3 + 256 * b2 + b1 < 16777216
    BY <1>4, <1>5, <1>6, SMT
  <2> QED
    BY <2>1, CutThree, SMT
<1>9. /\ Byte(n, 1) = b1 /\ Byte(n, 256) = b2 /\ Byte(n, 65536) = b3
  BY <1>1, <1>2, <1>3, <1>7, SMT DEF Byte
<1>10. q3 < 128
  BY <1>4, <1>5, <1>6, SMT
<1>11. Byte(n, 16777216) = q3
  BY <1>8, <1>10, SMT DEF Byte
<1>12. n < 65536 => q2 = 0
  BY <1>4, <1>5, SMT
<1> QED
  BY <1>4, <1>5, <1>6, <1>9, <1>11, <1>12, SMT

\* The server reads the length that buildFrame wrote, in each of the forms.
LEMMA LengthsAreRead ==
  ASSUME NEW n \in Nat, n <= 2147483647
  PROVE  payloadLen(buildFrame(n)) = n
<1> DEFINE h == buildFrame(n)
<1>1. CASE n < 126
  BY <1>1, SMT DEF payloadLen, buildFrame
<1>2. CASE n >= 126 /\ n < 65536
  <2>1. h.len7 = 126 /\ h.ext = <<Byte(n, 256), Byte(n, 1)>>
    BY <1>2 DEF buildFrame
  <2>2. Uint16(h.ext, 1) = 256 * Byte(n, 256) + Byte(n, 1)
    BY <2>1, SMT DEF Uint16
  <2> QED
    BY <1>2, <2>1, <2>2, BytesOf, SMT DEF payloadLen
<1>3. CASE n >= 65536
  <2>1. h.len7 = 127
        /\ h.ext = <<0, 0, 0, 0, Byte(n, 16777216), Byte(n, 65536), Byte(n, 256), Byte(n, 1)>>
    BY <1>3 DEF buildFrame
  <2>2. /\ Byte(n, 16777216) \in Nat /\ Byte(n, 65536) \in Nat
        /\ Byte(n, 256) \in Nat /\ Byte(n, 1) \in Nat
    BY DEF Byte
  <2> HIDE DEF h
  <2>3. Uint32(h.ext, 1) = 0
    BY <2>1, SMT DEF Uint32, Uint16
  <2>4. Uint32(h.ext, 5) = 65536 * (256 * Byte(n, 16777216) + Byte(n, 65536)) + (256 * Byte(n, 256) + Byte(n, 1))
    BY <2>1, <2>2, SMT DEF Uint32, Uint16
  <2>5. Uint64(h.ext) = n
    BY <2>2, <2>3, <2>4, BytesOf, SMT DEF Uint64
  <2> QED
    BY <2>1, <2>5, SMT DEF payloadLen, h
<1> QED
  BY <1>1, <1>2, <1>3

LEMMA WritesAreUnderstood ==
  ASSUME NEW n \in Sizes
  PROVE  Understood(n) = n
BY SizesAssumption, LengthsAreRead DEF Understood

\* What the server has understood are the first writes of the app.
WritesInv == Len(served) <= Len(typed) /\ \A i \in DOMAIN served : served[i] = typed[i]

LEMMA InitWrites == Init => WritesInv
<1> SUFFICES ASSUME Init PROVE WritesInv
  OBVIOUS
<1>1. served = <<>> /\ typed = <<>>
  BY DEF Init
<1> QED
  BY <1>1 DEF WritesInv

\* The app appends behind the writes the server has understood.
LEMMA AppKeepsWrites ==
  ASSUME TypeOK, WritesInv, NEW n \in Sizes, typed' = Append(typed, n), served' = served
  PROVE  WritesInv'
<1>1. typed \in Seq(Sizes) /\ served \in Seq(Lengths)
  BY DEF TypeOK
<1>2. /\ Len(typed') = Len(typed) + 1
      /\ \A i \in 1..Len(typed) : typed'[i] = typed[i]
  BY <1>1, AppendProperties
<1>3. /\ Len(typed) \in Nat /\ Len(served) \in Nat /\ DOMAIN served = 1..Len(served)
  BY <1>1, LenProperties
<1>4. \A i \in DOMAIN served : i \in 1..Len(typed)
  BY <1>3 DEF WritesInv
<1> QED
  BY <1>2, <1>3, <1>4 DEF WritesInv

\* The write the upload holds is the next one the server has to understand.
LEMMA UploadKeepsWrites ==
  ASSUME TypeOK, RelayInv, WritesInv, CopyUpWrites
  PROVE  WritesInv'
<1>1. /\ "up" \in held /\ taken \in Nat /\ typed \in Seq(Sizes) /\ served \in Seq(Lengths)
      /\ ended \in [Directions -> {"no", "eof", "error"}] /\ typed' = typed
  BY DEF CopyUpWrites, TypeOK, appVars
<1>2. relay # "idle"
  BY <1>1 DEF RelayInv, IdleInv
<1>3. taken <= Len(typed) /\ taken > 0 /\ Len(served) + 1 = taken
  BY <1>1, <1>2 DEF RelayInv, UpInv, Under
<1>4. CASE served' = served
  BY <1>1, <1>4 DEF WritesInv
<1>5. CASE served' = Append(served, Understood(typed[taken]))
  <2>1. typed[taken] \in Sizes
    BY <1>1, <1>3, ElementOfSeq
  <2>2. served' = Append(served, typed[taken]) /\ typed[taken] \in Lengths
    BY <1>5, <2>1, WritesAreUnderstood DEF Lengths
  <2>3. /\ Len(served') = Len(served) + 1
        /\ \A i \in 1..Len(served) : served'[i] = served[i]
        /\ served'[Len(served) + 1] = typed[taken]
    BY <1>1, <2>2, AppendProperties
  <2>4. served' \in Seq(Lengths)
    BY <1>1, <2>2, AppendProperties
  <2>5. /\ DOMAIN served = 1..Len(served) /\ DOMAIN served' = 1..Len(served')
        /\ Len(served) \in Nat
    BY <1>1, <2>4, LenProperties
  <2>6. \A i \in DOMAIN served' : i \in DOMAIN served \/ i = taken
    BY <1>3, <2>3, <2>5
  <2>7. \A i \in DOMAIN served' : served'[i] = typed[i]
    BY <1>3, <2>3, <2>5, <2>6 DEF WritesInv
  <2> QED
    BY <1>1, <1>3, <2>3, <2>7 DEF WritesInv
<1> QED
  BY <1>4, <1>5 DEF CopyUpWrites

LEMMA NextKeepsWrites ==
  ASSUME TypeOK, RelayInv, WritesInv, [Next]_vars
  PROVE  WritesInv'
<1>1. ASSUME NEW n \in Sizes, AppWrites(n) PROVE WritesInv'
  BY <1>1, AppKeepsWrites DEF AppWrites, relayVars
<1>2. CASE CopyUpWrites
  BY <1>2, UploadKeepsWrites
<1>3. CASE UNCHANGED <<typed, served>>
  BY <1>3 DEF WritesInv
<1>4. \/ \E n \in Sizes : AppWrites(n)
      \/ CopyUpWrites
      \/ UNCHANGED <<typed, served>>
  <2>1. Server \/ Carry => UNCHANGED <<typed, served>>
    BY DEF Server, ServerSays, ServerControls, Carry, ReadResponse, ConnFails, readFrame, Read,
           relayVars, appVars
  <2>2. App => (\E n \in Sizes : AppWrites(n)) \/ UNCHANGED <<typed, served>>
    BY DEF App, AppEnds, relayVars
  <2>3. StartRelay \/ CopyDown \/ CopyUpReads \/ Blocks \/ relayReturns => UNCHANGED <<typed, served>>
    BY DEF StartRelay, CopyDown, CopyDownReads, CopyDownWrites, CopyUpReads, Blocks, WriteBlocks,
         relayReturns, appVars
  <2>4. UNCHANGED vars => UNCHANGED <<typed, served>>
    BY DEF vars, relayVars, appVars
  <2> QED
    BY <2>1, <2>2, <2>3, <2>4 DEF Next, CopyUp, Blocks
<1> QED
  BY <1>1, <1>2, <1>3, <1>4

\* Each write reaches the server once, in its length and in the app's order,
\* over every carrier and for any sizes.
THEOREM WritesInvariant == Spec => []WritesInv
<1>1. TypeOK /\ RelayInv /\ WritesInv /\ [Next]_vars => WritesInv'
  BY NextKeepsWrites
<1> QED
  BY <1>1, InitWrites, RelayInvariant, PTL DEF Spec

\* A stream arrives as it was sent, in both directions: the units in order
\* unless the stream was disturbed, and the writes as a prefix of the app's.
THEOREM StreamsAreFaithfulHolds == Spec => []StreamsAreFaithful
<1>1. TypeOK /\ WritesInv => IsPrefix(served, typed)
  <2> SUFFICES ASSUME TypeOK, WritesInv PROVE IsPrefix(served, typed)
    OBVIOUS
  <2>1. /\ Len(served) \in Nat /\ Len(typed) \in Nat /\ DOMAIN served = 1..Len(served)
    BY LenProperties DEF TypeOK
  <2>2. SubSeq(served, 1, Len(served)) = [i \in 1..Len(served) |-> served[i]]
    BY <2>1
  <2>3. SubSeq(typed, 1, Len(served)) = [i \in 1..Len(served) |-> typed[i]]
    BY <2>1
  <2> QED
    BY <2>1, <2>2, <2>3 DEF IsPrefix, WritesInv
<1>2. UnitsInOrder /\ IsPrefix(served, typed) => StreamsAreFaithful
  BY DEF StreamsAreFaithful
<1> QED
  BY <1>1, <1>2, RelayInvariant, WritesInvariant, UnitsInOrderHolds, PTL
================================================================================
