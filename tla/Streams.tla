------------------------------- MODULE Streams -------------------------------
(***************************************************************************)
(* The bytes of one proxied connection.                                    *)
(*                                                                         *)
(*   app <-> relay or pipe <-> SSH channel <-> carrier <-> server          *)
(*                                                                         *)
(* The carrier is what Start built: plain TCP ("ssh"), a CONNECT tunnel    *)
(* ("connect", with TLS inside "connectTls"), WebSocket frames             *)
(* ("websocket"); a socksRelay pipes the app to its upstream over plain    *)
(* TCP without SSH ("socks").                                              *)
(*                                                                         *)
(* From the server to the app a unit is a number: the server says 1, 2,    *)
(* 3, ...; unit 1 is its SSH banner, unit serverEnd the end of the         *)
(* channel.  SSH authenticates its packets, so a unit that is not the next *)
(* one ends the SSH connection.  From the app to the server a unit is a    *)
(* write of some size.                                                     *)
(***************************************************************************)
EXTENDS Naturals, Sequences, SequencesExt

CONSTANTS
  Kinds,     \* carriers to consider
  Sizes,     \* sizes of the app's writes, in bytes
  MaxUnits,  \* bound: units the server says
  MaxTyped,  \* bound: writes of the app
  MaxPings   \* bound: control frames of the WebSocket server

ASSUME KindsAssumption ==
  Kinds \subseteq {"ssh", "connect", "connectTls", "websocket", "socks"}
ASSUME SizesAssumption == \A n \in Sizes : n \in Nat /\ n <= 2147483647   \* 2^31 - 1
ASSUME BoundsAssumption ==
  MaxUnits \in Nat /\ MaxTyped \in Nat /\ MaxPings \in Nat

VARIABLES
  kind,      \* the carrier
  conn,      \* "upgrade", "open", "failed"
  early,     \* units arrived together with the response to the upgrade
  wire,      \* segments or frames that are on their way to the client
  reader,    \* those the bufio.Reader has already taken from the socket
  readBuf,   \* units of the frame being read that Read has not handed out
  spoken,    \* units the server has said
  serverEnd, \* the unit that ends the channel, 0 while there is none
  pings,     \* the data of the control frames the server has sent
  accepted,  \* units SSH has taken from the carrier
  broken,    \* SSH has met a unit that is not the next one
  relay,     \* "idle", "relaying", "closed"
  ended,     \* how each io.Copy has ended: "no", "eof", "error"
  held,      \* the io.Copys that have read a unit and not written it yet
  blocked,   \* those whose write has met an end that no longer reads
  copied,    \* units the download has read
  heard,     \* units the app has got
  typed,     \* the app's writes
  taken,     \* writes the upload has read
  served,    \* writes as the server has understood them
  appEnd     \* "open", "half" (the app has shut its write side), "closed"

carrierVars == <<kind, conn, early, wire, reader, readBuf, accepted, broken>>
serverVars  == <<spoken, serverEnd, pings>>
relayVars   == <<relay, ended, held, blocked, copied, heard, taken, served>>
appVars     == <<typed, appEnd>>
vars        == <<carrierVars, serverVars, relayVars, appVars>>

Frame(op, units) == [op |-> op, data |-> units]

(* Unit 1 belongs to the SSH handshake; a pipe has none. *)
Banner == IF kind = "socks" THEN 0 ELSE 1

Init ==
  /\ kind \in Kinds
  /\ conn = IF kind \in {"ssh", "socks"} THEN "open" ELSE "upgrade"
  /\ wire = <<>> /\ reader = <<>> /\ readBuf = <<>>
  /\ early = FALSE /\ broken = FALSE
  /\ spoken = 0 /\ serverEnd = 0 /\ pings = <<>> /\ accepted = 0
  /\ relay = "idle"
  /\ ended = [d \in {"up", "down"} |-> "no"] /\ held = {} /\ blocked = {}
  /\ copied = 0 /\ heard = 0 /\ taken = 0
  /\ typed = <<>> /\ served = <<>> /\ appEnd = "open"

-----------------------------------------------------------------------------
(* The server.  It speaks first, except behind TLS, where it waits for the *)
(* client's hello.                                                         *)

ServerSays(n) ==
  /\ serverEnd = 0 /\ spoken + n <= MaxUnits /\ conn # "failed"
  /\ kind = "connectTls" => conn = "open"
  /\ wire' = Append(wire, Frame("binary", [i \in 1 .. n |-> spoken + i]))
  /\ spoken' = spoken + n
  /\ \E end \in {0, spoken + n} :
        /\ end # 0 => end > Banner
        /\ serverEnd' = end
  /\ UNCHANGED <<kind, conn, early, reader, readBuf, accepted, broken, pings,
                 relayVars, appVars>>

(* A ping may carry data (the 0 here) or none; a close frame ends it all. *)
ServerControls(op, data) ==
  /\ kind = "websocket" /\ Len(pings) < MaxPings
  /\ wire' = Append(wire, Frame(op, data))
  /\ pings' = Append(pings, data)
  /\ UNCHANGED <<kind, conn, early, reader, readBuf, accepted, broken, spoken,
                 serverEnd, relayVars, appVars>>

-----------------------------------------------------------------------------
(* The client's end of the carrier *)

\* Mutant of ReadResponse: the reader of a WebSocket upgrade is dropped too.
DropsReader ==
  /\ conn = "upgrade"
  /\ \E n \in 0 .. Len(wire) :
        /\ early' = (n > 0)
        /\ wire' = SubSeq(wire, n + 1, Len(wire))
  /\ conn' = "open"
  /\ UNCHANGED <<kind, reader, readBuf, accepted, broken, serverVars, relayVars, appVars>>

(* http.ReadResponse over a bufio.Reader, which may take more than the     *)
(* response from the socket.  upgradeWebSocket keeps the reader in the     *)
(* wsConn; newSSHHTTPConnectProxy goes on with the bare connection.        *)
ReadResponse ==
  /\ conn = "upgrade"
  /\ \E n \in 0 .. Len(wire) :
        /\ early' = (n > 0)
        /\ reader' = IF kind = "websocket" THEN SubSeq(wire, 1, n) ELSE <<>>
        /\ wire' = SubSeq(wire, n + 1, Len(wire))
  /\ conn' = "open"
  /\ UNCHANGED <<kind, readBuf, accepted, broken, serverVars, relayVars, appVars>>

(* Another status than the one expected, a failed TLS handshake, the       *)
(* deadline; later, the network or the server drops the connection.        *)
ConnFails ==
  /\ conn # "failed"
  /\ conn' = "failed"
  /\ UNCHANGED <<kind, early, wire, reader, readBuf, accepted, broken,
                 serverVars, relayVars, appVars>>

(* The next frame, whatever its opcode: only a close frame is told apart.  *)
(* An empty one leaves readBuf empty, and Read goes on to the next.  Of a  *)
(* carrier without frames this is the next segment.                        *)
readFrame ==
  /\ conn = "open" /\ readBuf = <<>>
  /\ \E frame \in {Head(s) : s \in {reader \o wire} \ {<<>>}} :
        /\ IF reader # <<>> THEN reader' = Tail(reader) /\ UNCHANGED wire
                            ELSE wire' = Tail(wire) /\ UNCHANGED reader
        /\ IF frame.op = "close" THEN conn' = "failed" /\ UNCHANGED readBuf
                                 ELSE readBuf' = frame.data /\ UNCHANGED conn
  /\ UNCHANGED <<kind, early, accepted, broken, serverVars, relayVars, appVars>>

(* wsConn.Read: at most n units, the rest stays in readBuf.  SSH accepts   *)
(* them when they are the next ones.                                       *)
Read(n) ==
  /\ conn = "open" /\ n <= Len(readBuf)
  /\ readBuf' = SubSeq(readBuf, n + 1, Len(readBuf))
  /\ IF SubSeq(readBuf, 1, n) = [i \in 1 .. n |-> accepted + i]
        THEN accepted' = accepted + n /\ UNCHANGED <<conn, broken>>
        ELSE conn' = "failed" /\ broken' = TRUE /\ UNCHANGED accepted
  /\ UNCHANGED <<kind, early, wire, reader, serverVars, relayVars, appVars>>

(* The length field of a frame: seven bits, and behind 126 two bytes,      *)
(* behind 127 eight.  A write is shorter than 2^31 bytes: the shifts by 32 *)
(* and more leave nothing of its length.                                   *)
Byte(n, unit) == (n \div unit) % 256

buildFrame(n) ==
  [len7 |-> IF n < 126 THEN n ELSE IF n < 65536 THEN 126 ELSE 127,
   ext  |-> IF n < 126 THEN <<>>
            ELSE IF n < 65536 THEN <<Byte(n, 256), Byte(n, 1)>>
            ELSE <<0, 0, 0, 0,
                   Byte(n, 16777216), Byte(n, 65536), Byte(n, 256), Byte(n, 1)>>]

(* binary.BigEndian, and what readFrame makes of the field. *)
Uint16(b, i) == 256 * b[i] + b[i + 1]
Uint32(b, i) == 65536 * Uint16(b, i) + Uint16(b, i + 2)
Uint64(b)    == 65536 * (65536 * Uint32(b, 1)) + Uint32(b, 5)

payloadLen(header) ==
  CASE header.len7 = 126 -> Uint16(header.ext, 1)
    [] header.len7 = 127 -> Uint64(header.ext)
    [] OTHER             -> header.len7

(* What the server makes of a write of n bytes. *)
Understood(n) == IF kind = "websocket" THEN payloadLen(buildFrame(n)) ELSE n

-----------------------------------------------------------------------------
(* The app *)

AppWrites(n) ==
  /\ appEnd = "open" /\ relay = "relaying" /\ Len(typed) < MaxTyped
  /\ typed' = Append(typed, n)
  /\ UNCHANGED <<appEnd, carrierVars, serverVars, relayVars>>

AppEnds(how) ==
  /\ relay = "relaying" /\ appEnd # how /\ appEnd # "closed"
  /\ appEnd' = how
  /\ UNCHANGED <<typed, carrierVars, serverVars, relayVars>>

-----------------------------------------------------------------------------
(* relay and pipe *)

(* Dial has answered: the SSH handshake is over. *)
StartRelay ==
  /\ relay = "idle" /\ conn = "open" /\ accepted >= Banner
  /\ relay' = "relaying" /\ copied' = Banner
  /\ UNCHANGED <<ended, held, blocked, heard, taken, served, carrierVars, serverVars, appVars>>

(* io.Copy(local, remote) reads: a unit, the end of the channel, or an     *)
(* error of a connection that is gone.                                     *)
CopyDownReads ==
  /\ relay # "idle" /\ ended["down"] = "no" /\ "down" \notin held
  /\ \/ /\ relay = "relaying" /\ copied < accepted /\ copied + 1 # serverEnd
        /\ copied' = copied + 1 /\ held' = held \union {"down"}
        /\ UNCHANGED ended
     \/ /\ relay = "relaying" /\ copied < accepted /\ copied + 1 = serverEnd
        /\ ended' = [ended EXCEPT !["down"] = "eof"]
        /\ UNCHANGED <<copied, held>>
     \/ /\ relay = "closed" \/ (copied = accepted /\ conn = "failed")
        /\ ended' = [ended EXCEPT !["down"] = "error"]
        /\ UNCHANGED <<copied, held>>
  /\ UNCHANGED <<relay, blocked, heard, taken, served, carrierVars, serverVars, appVars>>

(* The app, or the server, stops reading for good: once the buffers are    *)
(* full a write waits, without a deadline.                                 *)
WriteBlocks(d) ==
  /\ relay = "relaying" /\ d \in held \ blocked
  /\ blocked' = blocked \union {d}
  /\ UNCHANGED <<relay, ended, held, copied, heard, taken, served,
                 carrierVars, serverVars, appVars>>

(* A write to an app that has closed may still succeed, and is lost: the   *)
(* answer to it is what makes a later one fail.                            *)
CopyDownWrites ==
  /\ "down" \in held
  /\ held' = held \ {"down"} /\ blocked' = blocked \ {"down"}
  /\ \/ /\ relay = "relaying" /\ appEnd # "closed" /\ "down" \notin blocked
        /\ heard' = heard + 1 /\ UNCHANGED ended
     \/ /\ relay = "relaying" /\ appEnd = "closed" /\ "down" \notin blocked
        /\ UNCHANGED <<heard, ended>>
     \/ /\ relay = "closed" \/ appEnd = "closed"
        /\ ended' = [ended EXCEPT !["down"] = "error"] /\ UNCHANGED heard
  /\ UNCHANGED <<relay, copied, taken, served, carrierVars, serverVars, appVars>>

(* io.Copy(remote, local): what the app wrote before it ended is read. *)
CopyUpReads ==
  /\ relay # "idle" /\ ended["up"] = "no" /\ "up" \notin held
  /\ \/ /\ relay = "relaying" /\ taken < Len(typed)
        /\ taken' = taken + 1 /\ held' = held \union {"up"}
        /\ UNCHANGED ended
     \/ /\ relay = "relaying" /\ taken = Len(typed) /\ appEnd # "open"
        /\ ended' = [ended EXCEPT !["up"] = "eof"]
        /\ UNCHANGED <<taken, held>>
     \/ /\ relay = "closed"
        /\ ended' = [ended EXCEPT !["up"] = "error"]
        /\ UNCHANGED <<taken, held>>
  /\ UNCHANGED <<relay, blocked, copied, heard, served, carrierVars, serverVars, appVars>>

(* SSH has taken the server's end of the channel, or the upstream of a     *)
(* pipe has closed: a write may fail from now on, with words of the server *)
(* still unread.  (After a mere end of file it does not.)                  *)
ServerGone == serverEnd # 0 /\ (kind = "socks" \/ accepted >= serverEnd)

(* Closing a channel does not wake a write that waits for its window, the  *)
(* server's answer does; closing a socket does.                            *)
CopyUpWrites ==
  /\ "up" \in held
  /\ held' = held \ {"up"} /\ blocked' = blocked \ {"up"}
  /\ \/ /\ relay = "relaying" /\ conn = "open" /\ "up" \notin blocked
        /\ served' = Append(served, Understood(typed[taken])) /\ UNCHANGED ended
     \/ /\ \/ conn = "failed" \/ ServerGone
           \/ relay = "closed" /\ ("up" \notin blocked \/ kind = "socks")
        /\ ended' = [ended EXCEPT !["up"] = "error"] /\ UNCHANGED served
  /\ UNCHANGED <<relay, copied, heard, taken, carrierVars, serverVars, appVars>>

\* Mutant of relayReturns: pipe goes the way of relay.
PipeEndsWithEither ==
  /\ relay = "relaying" /\ \E d \in DOMAIN ended : ended[d] # "no"
  /\ relay' = "closed"
  /\ UNCHANGED <<ended, held, blocked, copied, heard, taken, served,
                 carrierVars, serverVars, appVars>>

\* Mutant of relayReturns: relay waits for both its copies.
WaitsForBoth ==
  /\ relay = "relaying" /\ \A d \in DOMAIN ended : ended[d] # "no"
  /\ relay' = "closed"
  /\ UNCHANGED <<ended, held, blocked, copied, heard, taken, served,
                 carrierVars, serverVars, appVars>>

(* relay waits for the first of its two copies, pipe for the download      *)
(* alone; then the deferred calls close both connections.                  *)
relayReturns ==
  /\ relay = "relaying"
  /\ IF kind = "socks" THEN ended["down"] # "no"
                       ELSE \E d \in DOMAIN ended : ended[d] # "no"
  /\ relay' = "closed"
  /\ UNCHANGED <<ended, held, blocked, copied, heard, taken, served,
                 carrierVars, serverVars, appVars>>

Server == \/ \E n \in 1 .. MaxUnits : ServerSays(n)
          \/ \E data \in {<<>>, <<0>>} : ServerControls("ping", data)
          \/ ServerControls("close", <<>>)
App    == \/ \E n \in Sizes : AppWrites(n)
          \/ \E how \in {"half", "closed"} : AppEnds(how)
Carry  == \/ ReadResponse
          \/ ConnFails
          \/ readFrame
          \/ \E n \in 1 .. MaxUnits : Read(n)
CopyDown == CopyDownReads \/ CopyDownWrites
CopyUp   == CopyUpReads \/ CopyUpWrites

Next == \/ Server \/ App \/ Carry \/ StartRelay \/ CopyDown \/ CopyUp
        \/ \E d \in {"up", "down"} : WriteBlocks(d)
        \/ relayReturns

(* The goroutines of the client run and the network delivers; the server   *)
(* and the app speak, read and end when they please.  CopyDown and CopyUp  *)
(* are not enabled while a write waits for an end that does not read.      *)
Fairness ==
  /\ WF_vars(readFrame \/ \E n \in 1 .. MaxUnits : Read(n)) /\ WF_vars(StartRelay)
  /\ WF_vars(CopyDown) /\ WF_vars(CopyUp) /\ WF_vars(relayReturns)

Spec == Init /\ [][Next]_vars
FairSpec == Spec /\ Fairness

-----------------------------------------------------------------------------
(* The two cases in which the code does not hand on what the server said:  *)
(* it spoke before the response to a CONNECT was read and its words stayed *)
(* in the reader that was dropped, or a WebSocket control frame carried    *)
(* data, which is handed on as if it were the stream's.                    *)
Disturbed ==
  \/ kind = "connect" /\ early
  \/ \E i \in DOMAIN pings : pings[i] # <<>>

(* SSH meets a wrong unit only where the stream was disturbed. *)
UnitsInOrder == broken => Disturbed

(* A stream arrives as it was sent: the units in order, and every write is *)
(* understood in its length, and in the order of the app.                  *)
StreamsAreFaithful == UnitsInOrder /\ IsPrefix(served, typed)

(* The units of the channel the server has said, its end left out. *)
Said == (IF serverEnd # 0 THEN serverEnd - 1 ELSE spoken) - Banner

(* A write of the app met the server's end, which it shows to relay before *)
(* the download has come that far.                                         *)
WriteMetEnd == kind # "socks" /\ serverEnd # 0 /\ Len(served) < taken

(* What a closed relay has cut off, somebody's end explains.  The app      *)
(* misses words of the server only when it had ended its own side (behind  *)
(* a pipe: closed, not half closed), the carrier is gone, or a write of    *)
(* its own met the server's end; the server misses writes only when it had *)
(* ended the channel, the app had closed, or the carrier is gone.          *)
OnlyEndsCut ==
  relay = "closed" =>
    /\ heard = Said \/ conn = "failed" \/ WriteMetEnd
       \/ appEnd = "closed" \/ (appEnd = "half" /\ kind # "socks")
    /\ Len(served) = Len(typed) \/ conn = "failed"
       \/ serverEnd # 0 \/ appEnd = "closed"

(* The end of the server or of the carrier ends the relay and frees both   *)
(* connections, unless the app has stopped reading; the end of the app     *)
(* does, unless the server has.  A pipe does not tell its upstream that    *)
(* the app has gone: for it only the first half is claimed.                *)
RelaysEnd ==
  /\ (conn = "failed" \/ serverEnd # 0)
       ~> (relay # "relaying" \/ "down" \in blocked)
  /\ (kind # "socks" /\ appEnd # "open")
       ~> (relay # "relaying" \/ "up" \in blocked)
=============================================================================
