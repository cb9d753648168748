------------------------------- MODULE DnsTunnel -------------------------------
(***************************************************************************)
(* One connection of the VayDNS transport (src/go/tunnel/dns_tunnel.go):   *)
(* handleConn, the upload loop copyFromLocal and the download loop         *)
(* copyToLocal, and the queries both send through a resolver that may      *)
(* lose, delay, repeat or refuse them.                                     *)
(*                                                                         *)
(* What one local.Read returns is a chunk, and so is the data of one TXT   *)
(* answer; chunks are numbered in the order they are written.  Chunk 0 is  *)
(* the target address of the SYN, or no data.                              *)
(***************************************************************************)
EXTENDS Naturals, Sequences

CONSTANTS
  MaxUp,      \* bounds the chunks the local client writes
  MaxDown,    \* bounds the chunks the target sends
  MaxPolls    \* bounds the polls

ASSUME BoundsAssumption == MaxUp \in Nat /\ MaxDown \in Nat /\ MaxPolls \in Nat

VARIABLES
  phase,      \* handleConn: before the SYN, waiting for its answer, relaying, over
  up, down,   \* where the two loops are
  sendSeq, recvSeq,
  stop,       \* the tunnel's context is cancelled
  localOpen,  \* the local client has not closed
  written,    \* chunks the local client has written
  taken,      \* chunks local.Read has returned
  came,       \* chunks the answers to polls have brought
  received,   \* chunks written to the local client
  queries,    \* queries sent: each may reach the server, now or later, once or more
  arrived,    \* queries that have reached the server
  accepted,   \* data chunks the server has taken
  produced,   \* chunks the target has sent
  handed,     \* chunks the server has given to polls
  answers,    \* the data the server gave to each poll
  refused,    \* history: an upload query was answered by an error code
  missed      \* history: a poll was not answered by the server

loopVars == <<phase, up, down, sendSeq, recvSeq>>
localVars == <<localOpen, written, taken, came, received>>
serverVars == <<arrived, accepted, produced, handed, answers>>
vars == <<loopVars, stop, localVars, queries, serverVars, refused, missed>>

Chunk(seq, syn, data) == [op |-> "d", seq |-> seq, syn |-> syn, data |-> data]
PollOf(seq) == [op |-> "r", seq |-> seq, syn |-> FALSE, data |-> 0]
Syn == Chunk(0, TRUE, 0)

Init ==
  /\ phase = "new" /\ up = "off" /\ down = "off"
  /\ sendSeq = 0 /\ recvSeq = 0
  /\ stop = FALSE
  /\ localOpen = TRUE /\ written = 0 /\ taken = 0 /\ came = <<>> /\ received = <<>>
  /\ queries = {} /\ arrived = {} /\ accepted = {}
  /\ produced = 0 /\ handed = 0 /\ answers = {}
  /\ refused = FALSE /\ missed = FALSE

--------------------------------------------------------------------------------
(* The environment: the local client, Stop, the resolver and the server.   *)

LocalWrites ==
  /\ localOpen /\ written < MaxUp
  /\ written' = written + 1
  /\ UNCHANGED <<loopVars, stop, localOpen, taken, came, received, queries, serverVars, refused, missed>>

LocalCloses ==
  /\ localOpen
  /\ localOpen' = FALSE
  /\ UNCHANGED <<loopVars, stop, written, taken, came, received, queries, serverVars, refused, missed>>

\* dnsTunnel.stop: cancel().
Stop ==
  /\ ~stop
  /\ stop' = TRUE
  /\ UNCHANGED <<loopVars, localVars, queries, serverVars, refused, missed>>

\* The target sends a chunk to the server.
TargetSends ==
  /\ Syn \in accepted /\ produced < MaxDown
  /\ produced' = produced + 1
  /\ UNCHANGED <<loopVars, stop, localVars, queries, arrived, accepted,
                 handed, answers, refused, missed>>

\* A data query reaches the server.  It opens the connection on the SYN, knows
\* no session before, and takes each (seq, isSyn) once.
DataArrives(q) ==
  /\ q \in queries /\ q.op = "d"
  /\ arrived' = arrived \cup {q}
  /\ accepted' = IF /\ q.syn \/ Syn \in accepted
                    /\ \A a \in accepted : <<a.seq, a.syn>> # <<q.seq, q.syn>>
                 THEN accepted \cup {q} ELSE accepted
  /\ UNCHANGED <<loopVars, stop, localVars, queries, produced, handed, answers, refused, missed>>

\* A poll reaches the server: a new one gets the next chunk there is, if any; a
\* repeated one the answer it had.
PollArrives(q) ==
  /\ q \in queries /\ q.op = "r"
  /\ arrived' = arrived \cup {q}
  /\ IF \E a \in answers : a.seq = q.seq
     THEN UNCHANGED <<answers, handed>>
     ELSE IF handed < produced
     THEN /\ handed' = handed + 1
          /\ answers' = answers \cup {[seq |-> q.seq, data |-> handed + 1]}
     ELSE /\ answers' = answers \cup {[seq |-> q.seq, data |-> 0]}
          /\ UNCHANGED handed
  /\ UNCHANGED <<loopVars, stop, localVars, queries, accepted, produced, refused, missed>>

--------------------------------------------------------------------------------
(* handleConn.                                                             *)

\* The handshake names a target and the session id is drawn: the SYN goes out.
SendSyn ==
  /\ phase = "new"
  /\ phase' = "syn"
  /\ queries' = {Syn}
  /\ UNCHANGED <<up, down, sendSeq, recvSeq, stop, localVars, serverVars, refused, missed>>

\* The handshake or rand.Read fails.
HandshakeFails ==
  /\ phase = "new"
  /\ phase' = "over"
  /\ localOpen' = FALSE
  /\ UNCHANGED <<up, down, sendSeq, recvSeq, stop, written, taken, came, received, queries,
                 serverVars, refused, missed>>

\* Any DNS message that parses is an answer: parseTXTAnswer does not look at the
\* response code.  The answer to the upload query in flight (the SYN, or the last
\* chunk taken) comes from the server, or from a resolver that gave up (SERVFAIL,
\* NXDOMAIN, REFUSED), whether or not the query ever reaches the server.
Answered ==
  \/ (\E q \in arrived : q.op = "d" /\ q.data = taken) /\ UNCHANGED refused
  \/ refused' = TRUE

\* The local client is told of success and the two loops start.
SynAnswered ==
  /\ phase = "syn"
  /\ Answered
  /\ phase' = "relay" /\ up' = "check" /\ down' = "wait"
  /\ UNCHANGED <<sendSeq, recvSeq, stop, localVars, queries, serverVars, missed>>

\* No answer within the deadline, or the query could not be sent.
SynFails ==
  /\ phase = "syn"
  /\ phase' = "over"
  /\ localOpen' = FALSE
  /\ UNCHANGED <<up, down, sendSeq, recvSeq, stop, written, taken, came, received, queries,
                 serverVars, refused, missed>>

\* wg.Wait returns; the deferred local.Close().
Finish ==
  /\ phase = "relay" /\ up = "done" /\ down = "done"
  /\ phase' = "over"
  /\ localOpen' = FALSE
  /\ UNCHANGED <<up, down, sendSeq, recvSeq, stop, written, taken, came, received, queries,
                 serverVars, refused, missed>>

--------------------------------------------------------------------------------
(* copyFromLocal.                                                          *)

UpGoes(to) ==
  /\ up' = to
  /\ UNCHANGED <<phase, down, recvSeq, stop, localOpen, written, came, received, serverVars, missed>>

\* The select at the head of the loop.
UpCheck ==
  /\ up = "check"
  /\ UpGoes(IF stop THEN "done" ELSE "read")
  /\ UNCHANGED <<sendSeq, taken, queries, refused>>

\* Mutant of ReadLocal: the header of a chunk does not tell a SYN from data.
ReadWithoutFlag ==
  /\ up = "read" /\ taken < written
  /\ taken' = taken + 1
  /\ sendSeq' = sendSeq + 1
  /\ queries' = queries \cup {Chunk(sendSeq, sendSeq = 0, taken + 1)}
  /\ UpGoes("send")
  /\ UNCHANGED refused

\* local.Read returns data: it goes out under the next sequence number.
ReadLocal ==
  /\ up = "read" /\ taken < written
  /\ taken' = taken + 1
  /\ sendSeq' = sendSeq + 1
  /\ queries' = queries \cup {Chunk(sendSeq, FALSE, taken + 1)}
  /\ UpGoes("send")
  /\ UNCHANGED refused

\* local.Read fails: the client closed, or was silent for five seconds.
ReadFails ==
  /\ up = "read"
  /\ taken = written \/ ~localOpen
  /\ UpGoes("done")
  /\ UNCHANGED <<sendSeq, taken, queries, refused>>

SendAnswered ==
  /\ up = "send"
  /\ Answered
  /\ UpGoes("check")
  /\ UNCHANGED <<sendSeq, taken, queries>>

\* Mutant of SendFails: the loop goes on after a chunk that was not answered.
SendErrorIgnored ==
  /\ up = "send"
  /\ UpGoes("check")
  /\ UNCHANGED <<sendSeq, taken, queries, refused>>

SendFails ==
  /\ up = "send"
  /\ UpGoes("done")
  /\ UNCHANGED <<sendSeq, taken, queries, refused>>

--------------------------------------------------------------------------------
(* copyToLocal.                                                            *)

DownGoes(to) ==
  /\ down' = to
  /\ UNCHANGED <<phase, up, sendSeq, stop, localOpen, written, taken, serverVars, refused>>

\* Mutant of Poll: the sequence number of the poll does not advance.
PollSameSeq ==
  /\ down = "wait" /\ recvSeq < MaxPolls
  /\ recvSeq' = 1
  /\ queries' = queries \cup {PollOf(0)}
  /\ DownGoes("poll")
  /\ UNCHANGED <<came, received, missed>>

\* The ticker fires: a poll, under a new sequence number whatever became of the
\* last one.  A select with both cases ready may prefer the ticker to Done.
Poll ==
  /\ down = "wait" /\ recvSeq < MaxPolls
  /\ recvSeq' = recvSeq + 1
  /\ queries' = queries \cup {PollOf(recvSeq)}
  /\ DownGoes("poll")
  /\ UNCHANGED <<came, received, missed>>

\* Mutant of DownStops: the loop does not listen to the context.
DownIgnoresStop ==
  /\ FALSE
  /\ UNCHANGED vars

\* ctx.Done()
DownStops ==
  /\ down = "wait" /\ stop
  /\ DownGoes("done")
  /\ UNCHANGED <<recvSeq, queries, came, received, missed>>

LastPoll == PollOf(recvSeq - 1)

\* What parseTXTAnswer makes of a message with a TXT record: p.Answer() has read
\* the record when p.TXTResource() asks for it, which fails, and nothing is left.
parseTXTAnswer(data) == <<>>

\* The answer comes back, with the next chunk or without.  copyToLocal writes
\* what it finds in it: with no data it goes on, so that no write can fail.
PollAnswered ==
  /\ down = "poll" /\ LastPoll \in arrived
  /\ \E a \in answers :
       /\ a.seq = LastPoll.seq
       /\ came' = IF a.data = 0 THEN came ELSE Append(came, a.data)
       /\ received' = received \o parseTXTAnswer(a.data)
  /\ DownGoes("wait")
  /\ UNCHANGED <<recvSeq, queries, missed>>

\* No answer in time, or the resolver's: the loop goes on all the same.
PollFails ==
  /\ down = "poll"
  /\ missed' = TRUE
  /\ DownGoes("wait")
  /\ UNCHANGED <<recvSeq, queries, came, received>>

--------------------------------------------------------------------------------
Next ==
  \/ LocalWrites \/ LocalCloses \/ Stop \/ TargetSends
  \/ \E q \in queries : DataArrives(q) \/ PollArrives(q)
  \/ SendSyn \/ HandshakeFails \/ SynAnswered \/ SynFails \/ Finish
  \/ UpCheck \/ ReadLocal \/ ReadFails \/ SendAnswered \/ SendFails
  \/ Poll \/ DownStops \/ PollAnswered \/ PollFails

Spec == Init /\ [][Next]_vars

\* Goroutines run, every query ends by its deadline and every read by its own.
\* A select picks at random among the cases that are ready, so that ctx.Done()
\* is taken if it is ready again and again.
Fairness ==
  /\ WF_vars(SynAnswered \/ SynFails)
  /\ WF_vars(UpCheck) /\ WF_vars(ReadLocal \/ ReadFails) /\ WF_vars(SendAnswered \/ SendFails)
  /\ WF_vars(Poll) /\ SF_vars(DownStops) /\ WF_vars(PollAnswered \/ PollFails)
  /\ WF_vars(Finish)

FairSpec == Spec /\ Fairness

--------------------------------------------------------------------------------
(* Properties.                                                             *)

QueryType == [op : {"d", "r"}, seq : Nat, syn : BOOLEAN, data : Nat]

\* The first data chunk is chunk 1, under sequence number 0, as is the SYN.
WellFormed(q) ==
  /\ q.op = "r" => ~q.syn /\ q.data = 0
  /\ q.op = "d" /\ q.syn => q.seq = 0 /\ q.data = 0
  /\ q.op = "d" /\ ~q.syn => q.data = q.seq + 1

\* Every variable of the connection has its type; a query carries the sequence
\* number its data calls for.
TypeOK ==
  /\ phase \in {"new", "syn", "relay", "over"}
  /\ up \in {"off", "check", "read", "send", "done"}
  /\ down \in {"off", "wait", "poll", "done"}
  /\ sendSeq \in 0..MaxUp /\ recvSeq \in 0..MaxPolls
  /\ stop \in BOOLEAN
  /\ localOpen \in BOOLEAN
  /\ written \in 0..MaxUp /\ taken \in 0..MaxUp
  /\ came \in Seq(1..MaxDown) /\ received \in Seq(1..MaxDown)
  /\ queries \in SUBSET QueryType /\ \A q \in queries : WellFormed(q)
  /\ arrived \in SUBSET queries /\ accepted \in SUBSET arrived
  /\ produced \in 0..MaxDown /\ handed \in 0..MaxDown
  /\ answers \in SUBSET [seq : 0..MaxPolls, data : 0..MaxDown]
  /\ refused \in BOOLEAN /\ missed \in BOOLEAN

Uploaded == {q.data : q \in {a \in accepted : ~a.syn}}

\* Whenever the upload loop is about to read again, the server has taken exactly
\* the chunks the client has handed over, each under the number of its place,
\* unless a resolver refused a query: lost, late and repeated queries neither
\* leave a gap nor reorder the stream.
UploadIsFaithful ==
  /\ \A q \in accepted : ~q.syn => q.data = q.seq + 1 /\ q.data <= taken
  /\ up \in {"check", "read"} /\ ~refused => Uploaded = 1..taken

\* The answers to polls bring the target's chunks in order, none twice; and all
\* that were handed out, while every poll has been answered by the server.
DownloadIsFaithful ==
  /\ \A m, n \in DOMAIN came : m < n => came[m] < came[n]
  /\ down = "wait" /\ ~missed => came = [n \in 1..handed |-> n]

\* copyToLocal "polls the VayDNS server for data and writes it to local"
\* (dns_tunnel.go:199): what the answers bring, the local client gets.
DownloadArrives == received = came

\* Behind sequence numbers, repeated queries and deadlines each direction is a
\* channel with one place: chunk n + 1 leaves when chunk n has arrived.  The
\* download is a channel up to the client's end of the queries, no further.
Stream ==
  INSTANCE DnsStream WITH
    state <- CASE phase \in {"new", "syn"} -> "opening"
               [] phase = "relay" -> "relaying"
               [] OTHER -> "over",
    opened <- Syn \in accepted,
    got <- Uploaded

ImplementsStream == Stream!DSpec

\* After Stop the connection ends: both loops leave, and the local connection is
\* closed.
StopEndsConnection == stop /\ phase = "relay" ~> phase = "over"

--------------------------------------------------------------------------------
(* The inductive invariant behind both and the refinement.                 *)

\* The loops run between the SYN's answer and the end of the connection.
PhaseInv ==
  /\ phase = "new" => queries = {}
  /\ phase \in {"new", "syn"} => up = "off" /\ down = "off"
  /\ up = "off" => taken = 0
  /\ phase = "relay" => up # "off" /\ down # "off"
  /\ phase = "over" => up \in {"off", "done"} /\ down \in {"off", "done"}
  /\ up = "off" <=> down = "off"

\* A data query names its place in the stream; the server takes every chunk that
\* reaches it, as long as the SYN was not answered in the server's stead.
UpInv ==
  /\ sendSeq = taken /\ taken <= written
  /\ \A q \in accepted : q.op = "d"
  /\ \A q \in queries : q.op = "d" /\ q # Syn => q.data <= taken
  /\ Syn \in arrived => Syn \in accepted
  /\ ~refused =>
       /\ up # "off" => Syn \in accepted
       /\ \A q \in arrived : q.op = "d" => q \in accepted
       /\ up \in {"check", "read"} => 1..taken \subseteq Uploaded
       /\ up = "send" => taken >= 1 /\ 1..(taken - 1) \subseteq Uploaded

\* Each poll has one answer; the answer to the poll in flight is newer than all
\* that came before it.
DownInv ==
  /\ handed <= produced
  /\ \A q \in queries : q.op = "r" => q.seq < recvSeq
  /\ \A a, b \in answers : a.seq = b.seq => a = b
  /\ \A a \in answers : a.seq < recvSeq /\ a.data <= handed
  /\ down = "poll" => recvSeq >= 1
  /\ \A n \in DOMAIN came : came[n] <= handed
  /\ \A m, n \in DOMAIN came : m < n => came[m] < came[n]
  /\ down = "poll" =>
       \A a \in answers : a.seq = recvSeq - 1 /\ a.data # 0 =>
         \A n \in DOMAIN came : came[n] < a.data

\* As long as no poll was missed every earlier poll has its answer, and the only
\* chunk that may be on its way is the one that answers the poll in flight.
NoMissInv ==
  ~missed =>
    /\ \A n \in 0..(recvSeq - 1) :
         n < recvSeq - 1 \/ down # "poll" => \E a \in answers : a.seq = n
    /\ down \in {"off", "wait"} => came = [n \in 1..handed |-> n]
    /\ down = "poll" =>
         \/ /\ came = [n \in 1..handed |-> n]
            /\ \A a \in answers : a.seq = recvSeq - 1 => a.data = 0
         \/ /\ handed >= 1 /\ came = [n \in 1..(handed - 1) |-> n]
            /\ \E a \in answers : a.seq = recvSeq - 1 /\ a.data = handed
    /\ down = "off" => recvSeq = 0 /\ answers = {} /\ handed = 0 /\ came = <<>>

\* What the target has sent came through a connection the SYN opened.
OpenInv == produced > 0 => Syn \in accepted

\* Types, the loops' phases, what the server has and what is on its way: inductive.
IInv == TypeOK /\ PhaseInv /\ UpInv /\ DownInv /\ NoMissInv /\ OpenInv

================================================================================
