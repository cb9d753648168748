---------------------------- MODULE DnsTunnel_proofs ----------------------------
(***************************************************************************)
(* The inductive invariants of DnsTunnel and of the names of its queries,  *)
(* and what follows from them.                                             *)
(***************************************************************************)
EXTENDS DnsTunnel, QueryName, SequenceTheorems, TLAPS

\* The fields of the queries the client sends.
LEMMA QueryShapes ==
  /\ \A n, d : Chunk(n, FALSE, d).op = "d" /\ Chunk(n, FALSE, d).seq = n
               /\ Chunk(n, FALSE, d).syn = FALSE /\ Chunk(n, FALSE, d).data = d
  /\ Syn.op = "d" /\ Syn.seq = 0 /\ Syn.syn = TRUE /\ Syn.data = 0
  /\ \A n : PollOf(n).op = "r" /\ PollOf(n).seq = n /\ PollOf(n).syn = FALSE /\ PollOf(n).data = 0
BY DEF Chunk, Syn, PollOf

\* A query is determined by its kind, its sequence number and its flag.
LEMMA QueriesAreFunctional ==
  ASSUME NEW q \in QueryType, NEW r \in QueryType, WellFormed(q), WellFormed(r),
         q.op = r.op, q.seq = r.seq, q.syn = r.syn
  PROVE  q = r
<1>1. q.data = r.data
  BY DEF QueryType, WellFormed
<1> QED
  BY <1>1 DEF QueryType

LEMMA NewQueries ==
  /\ Syn \in QueryType /\ WellFormed(Syn)
  /\ \A n \in Nat : PollOf(n) \in QueryType /\ WellFormed(PollOf(n))
  /\ \A n \in Nat : Chunk(n, FALSE, n + 1) \in QueryType /\ WellFormed(Chunk(n, FALSE, n + 1))
BY DEF Syn, Chunk, PollOf, QueryType, WellFormed

LEMMA InitIInv == Init => IInv
<1> SUFFICES ASSUME Init PROVE IInv
  OBVIOUS
<1>1. TypeOK
  <2>1. /\ 0 \in 0..MaxUp /\ 0 \in 0..MaxDown /\ 0 \in 0..MaxPolls
        /\ <<>> \in Seq(1..MaxDown)
    BY BoundsAssumption
  <2> QED
    BY <2>1 DEF Init, TypeOK
<1>2. PhaseInv /\ UpInv
  BY DEF Init, PhaseInv, UpInv
<1>3. DownInv
  BY DEF Init, DownInv
<1>4. NoMissInv
  BY DEF Init, NoMissInv
<1>5. OpenInv
  BY DEF Init, OpenInv
<1> QED
  BY <1>1, <1>2, <1>3, <1>4, <1>5 DEF IInv

\* A step keeps every variable in its type.
LEMMA TypeStep == IInv /\ [Next]_vars => TypeOK'
<1> SUFFICES ASSUME IInv, [Next]_vars PROVE TypeOK'
  OBVIOUS
<1> USE BoundsAssumption DEF IInv, TypeOK, loopVars, localVars, serverVars
<1>1. CASE LocalWrites \/ LocalCloses \/ Stop \/ TargetSends \/ UNCHANGED vars
  <2>1. CASE LocalWrites
    BY <2>1 DEF LocalWrites
  <2>2. CASE TargetSends
    BY <2>2 DEF TargetSends
  <2>3. CASE LocalCloses \/ Stop \/ UNCHANGED vars
    BY <2>3 DEF LocalCloses, Stop, vars
  <2> QED
    BY <1>1, <2>1, <2>2, <2>3
<1>2. ASSUME NEW q \in queries, DataArrives(q) PROVE TypeOK'
  BY <1>2 DEF DataArrives
<1>3. ASSUME NEW q \in queries, PollArrives(q) PROVE TypeOK'
  <2>1. q.seq \in 0..MaxPolls
    BY <1>3 DEF PollArrives, DownInv, QueryType
  <2>2. answers' \in SUBSET [seq : 0..MaxPolls, data : 0..MaxDown] /\ handed' \in 0..MaxDown
    <3>1. CASE handed' = handed /\ answers' = answers
      BY <3>1
    <3>2. CASE /\ handed < produced /\ handed' = handed + 1
               /\ answers' = answers \cup {[seq |-> q.seq, data |-> handed + 1]}
      BY <2>1, <3>2
    <3>3. CASE handed' = handed /\ answers' = answers \cup {[seq |-> q.seq, data |-> 0]}
      BY <2>1, <3>3
    <3> QED
      BY <1>3, <3>1, <3>2, <3>3 DEF PollArrives
  <2> QED
    BY <1>3, <2>2 DEF PollArrives
<1>4. CASE SendSyn \/ HandshakeFails \/ SynFails \/ Finish
  <2>1. CASE SendSyn
    BY <2>1, NewQueries DEF SendSyn, PhaseInv
  <2>2. CASE HandshakeFails \/ SynFails \/ Finish
    BY <2>2 DEF HandshakeFails, SynFails, Finish
  <2> QED
    BY <1>4, <2>1, <2>2
<1>5. CASE SynAnswered \/ SendAnswered
  BY <1>5 DEF SynAnswered, SendAnswered, Answered, UpGoes
<1>6. CASE UpCheck \/ ReadFails \/ SendFails
  BY <1>6 DEF UpCheck, ReadFails, SendFails, UpGoes
<1>7. CASE ReadLocal
  <2>1. /\ Chunk(sendSeq, FALSE, taken + 1) \in QueryType
        /\ WellFormed(Chunk(sendSeq, FALSE, taken + 1))
    <3>1. sendSeq \in Nat /\ sendSeq = taken
      BY DEF UpInv
    <3> QED
      BY <3>1, NewQueries
  <2>2. taken' \in 0..MaxUp /\ sendSeq' \in 0..MaxUp
    BY <1>7 DEF ReadLocal, UpInv
  <2> QED
    BY <1>7, <2>1, <2>2 DEF ReadLocal, UpGoes
<1>8. CASE Poll
  <2>1. PollOf(recvSeq) \in QueryType /\ WellFormed(PollOf(recvSeq))
    BY NewQueries
  <2>2. recvSeq' \in 0..MaxPolls
    BY <1>8 DEF Poll
  <2> QED
    BY <1>8, <2>1, <2>2 DEF Poll, DownGoes
<1>9. CASE DownStops \/ PollFails
  BY <1>9 DEF DownStops, PollFails, DownGoes
<1>10. CASE PollAnswered
  <2>1. came' \in Seq(1..MaxDown)
    <3>1. PICK a \in answers : \/ came' = came
                               \/ a.data # 0 /\ came' = Append(came, a.data)
      BY <1>10 DEF PollAnswered
    <3>2. a.data \in 0..MaxDown
      BY <3>1
    <3>3. CASE came' = came
      BY <3>3
    <3>4. CASE a.data # 0 /\ came' = Append(came, a.data)
      <4>1. a.data \in 1..MaxDown
        BY <3>2, <3>4
      <4> QED
        BY <3>4, <4>1
    <3> QED
      BY <3>1, <3>3, <3>4
  <2>2. down' \in {"wait", "done"} /\ UNCHANGED <<phase, up, sendSeq, recvSeq, stop, localOpen,
             written, taken, queries, arrived, accepted, produced, handed, answers, refused, missed>>
    BY <1>10 DEF PollAnswered, DownGoes
  <2>3. received' \in Seq(1..MaxDown)
    BY <1>10 DEF PollAnswered, parseTXTAnswer
  <2> QED
    BY <2>1, <2>2, <2>3
<1> QED
  BY <1>1, <1>2, <1>3, <1>4, <1>5, <1>6, <1>7, <1>8, <1>9, <1>10 DEF Next

LEMMA PhaseStep == IInv /\ [Next]_vars => PhaseInv'
<1> SUFFICES ASSUME IInv, [Next]_vars PROVE PhaseInv'
  OBVIOUS
<1> USE DEF IInv, TypeOK, PhaseInv, loopVars, localVars, serverVars
<1>1. CASE LocalWrites \/ LocalCloses \/ Stop \/ TargetSends \/ UNCHANGED vars
  BY <1>1 DEF LocalWrites, LocalCloses, Stop, TargetSends, vars
<1>2. CASE \E q \in queries : DataArrives(q) \/ PollArrives(q)
  BY <1>2 DEF DataArrives, PollArrives
<1>3. CASE SendSyn \/ HandshakeFails \/ SynAnswered \/ SynFails \/ Finish
  BY <1>3 DEF SendSyn, HandshakeFails, SynAnswered, SynFails, Finish
<1>4. CASE UpCheck \/ ReadLocal \/ ReadFails \/ SendAnswered \/ SendFails
  BY <1>4 DEF UpCheck, ReadLocal, ReadFails, SendAnswered, SendFails, UpGoes
<1>5. CASE Poll \/ DownStops \/ PollAnswered \/ PollFails
  BY <1>5 DEF Poll, DownStops, PollAnswered, PollFails, DownGoes
<1> QED
  BY <1>1, <1>2, <1>3, <1>4, <1>5 DEF Next

\* Among the queries the SYN is the only one with its flag.
LEMMA OnlySyn == TypeOK => \A q \in queries : q.op = "d" /\ q.syn => q = Syn
<1> SUFFICES ASSUME TypeOK, NEW q \in queries, q.op = "d", q.syn PROVE q = Syn
  OBVIOUS
<1>1. q \in QueryType /\ WellFormed(q)
  BY DEF TypeOK
<1>2. q.seq = 0 /\ q.syn = TRUE
  BY <1>1 DEF WellFormed, QueryType
<1> QED
  BY <1>1, <1>2, NewQueries, QueryShapes, QueriesAreFunctional

\* The server takes a query that reaches it when it may: the SYN, and a chunk
\* once the SYN was taken.
LEMMA ServerTakes ==
  ASSUME TypeOK, UpInv, NEW q \in queries, DataArrives(q)
  PROVE  /\ q = Syn => Syn \in accepted'
         /\ Syn \in accepted => q \in accepted'
         /\ accepted \subseteq accepted' /\ accepted' \subseteq accepted \cup {q}
<1>1. ASSUME q = Syn \/ Syn \in accepted, q \notin accepted PROVE q \in accepted'
  <2>1. ASSUME NEW a \in accepted, a.seq = q.seq, a.syn = q.syn PROVE FALSE
    <3>1. /\ a \in QueryType /\ WellFormed(a) /\ a.op = "d"
          /\ q \in QueryType /\ WellFormed(q) /\ q.op = "d"
      BY <2>1 DEF TypeOK, UpInv, DataArrives
    <3> QED
      BY <1>1, <2>1, <3>1, QueriesAreFunctional
  <2>2. q.syn \/ Syn \in accepted
    BY <1>1, QueryShapes
  <2> QED
    BY <2>1, <2>2 DEF DataArrives
<1>2. accepted \subseteq accepted' /\ accepted' \subseteq accepted \cup {q}
  BY DEF DataArrives
<1> QED
  BY <1>1, <1>2

LEMMA UpStep == IInv /\ [Next]_vars => UpInv'
<1> SUFFICES ASSUME IInv, [Next]_vars PROVE UpInv'
  OBVIOUS
<1>0. TypeOK /\ PhaseInv /\ UpInv
  BY DEF IInv
<1> USE <1>0 DEF TypeOK, PhaseInv, UpInv, Uploaded, loopVars, localVars, serverVars
<1>1. CASE LocalWrites \/ LocalCloses \/ Stop \/ TargetSends \/ UNCHANGED vars
  BY <1>1 DEF LocalWrites, LocalCloses, Stop, TargetSends, vars
<1>2. ASSUME NEW q \in queries, DataArrives(q) PROVE UpInv'
  <2>1. /\ q = Syn => Syn \in accepted'
        /\ Syn \in accepted => q \in accepted'
        /\ accepted \subseteq accepted' /\ accepted' \subseteq accepted \cup {q}
    BY <1>2, ServerTakes
  <2>2. /\ arrived' = arrived \cup {q} /\ q.op = "d"
        /\ UNCHANGED <<phase, up, sendSeq, taken, written, queries, refused>>
    BY <1>2 DEF DataArrives
  <2>3. up = "off" => q = Syn
    <3>1. SUFFICES ASSUME up = "off", q # Syn PROVE FALSE
      OBVIOUS
    <3>2. ~q.syn
      BY <2>2, <3>1, OnlySyn
    <3>3. q.data \in Nat /\ q.data >= 1
      BY <2>2, <3>2 DEF WellFormed, QueryType
    <3>4. taken = 0 /\ q.data <= taken
      BY <2>2, <3>1
    <3> QED
      BY <3>3, <3>4
  <2>4. ASSUME ~refused PROVE \A r \in arrived' : r.op = "d" => r \in accepted'
    BY <2>1, <2>2, <2>3, <2>4
  <2> QED
    BY <2>1, <2>2, <2>4
<1>3. ASSUME NEW q \in queries, PollArrives(q) PROVE UpInv'
  <2>1. /\ arrived' = arrived \cup {q} /\ q.op = "r"
        /\ UNCHANGED <<phase, up, sendSeq, taken, written, queries, refused, accepted>>
    BY <1>3 DEF PollArrives
  <2>2. q # Syn /\ q.op # "d"
    BY <2>1, QueryShapes
  <2> QED
    BY <2>1, <2>2
<1>4. CASE SendSyn
  BY <1>4, QueryShapes DEF SendSyn
<1>5. CASE HandshakeFails \/ SynFails \/ Finish
  BY <1>5 DEF HandshakeFails, SynFails, Finish
<1>6. CASE SynAnswered
  <2>1. /\ phase = "syn" /\ up = "off" /\ taken = 0 /\ up' = "check" /\ refused \in BOOLEAN
        /\ UNCHANGED <<sendSeq, taken, written, queries, arrived, accepted>>
    BY <1>6 DEF SynAnswered
  <2>2. ASSUME ~refused' PROVE Syn \in accepted /\ ~refused
    <3>1. PICK q \in arrived : q.op = "d" /\ q.data = 0 /\ refused' = refused
      BY <1>6, <2>1, <2>2 DEF SynAnswered, Answered
    <3>2. q.syn
      BY <3>1 DEF WellFormed, QueryType
    <3> QED
      BY <2>2, <3>1, <3>2, OnlySyn
  <2>3. 1..taken \subseteq Uploaded
    BY <2>1
  <2> QED
    BY <2>1, <2>2, <2>3
<1>7. CASE UpCheck \/ ReadFails \/ SendFails
  BY <1>7 DEF UpCheck, ReadFails, SendFails, UpGoes
<1>8. CASE ReadLocal
  <2>1. /\ up = "read" /\ taken < written /\ taken' = taken + 1 /\ sendSeq' = sendSeq + 1
        /\ queries' = queries \cup {Chunk(sendSeq, FALSE, taken + 1)} /\ up' = "send"
        /\ UNCHANGED <<written, arrived, accepted, refused>>
    BY <1>8 DEF ReadLocal, UpGoes
  <2>2. \A q \in queries' : q.op = "d" /\ q # Syn => q.data <= taken'
    <3>1. ASSUME NEW q \in queries, q.op = "d", q # Syn PROVE q.data <= taken + 1
      <4>1. q.data \in Nat /\ q.data <= taken /\ taken \in Nat
        BY <3>1 DEF QueryType
      <4> QED
        BY <4>1
    <3>2. Chunk(sendSeq, FALSE, taken + 1).data = taken + 1
      BY DEF Chunk
    <3>3. ASSUME NEW q \in queries', q.op = "d", q # Syn PROVE q.data <= taken + 1
      <4>1. CASE q \in queries
        BY <3>1, <3>3, <4>1
      <4>2. CASE q = Chunk(sendSeq, FALSE, taken + 1)
        <5>1. q.data = taken + 1 /\ taken \in 0..MaxUp
          BY <3>2, <4>2
        <5> QED
          BY <5>1, BoundsAssumption
      <4> QED
        BY <2>1, <3>3, <4>1, <4>2
    <3> QED
      BY <2>1, <3>3
  <2>3. sendSeq' = taken' /\ taken' <= written' /\ taken' >= 1 /\ taken' - 1 = taken
    BY <2>1
  <2> QED
    BY <2>1, <2>2, <2>3
<1>9. CASE SendAnswered
  <2>1. /\ up = "send" /\ up' = "check"
        /\ UNCHANGED <<sendSeq, taken, written, queries, arrived, accepted>>
    BY <1>9 DEF SendAnswered, UpGoes
  <2>2. ASSUME ~refused' PROVE ~refused /\ 1..taken \subseteq Uploaded
    <3>1. PICK q \in arrived : q.op = "d" /\ q.data = taken /\ refused' = refused
      BY <1>9, <2>2 DEF SendAnswered, Answered
    <3>2. ~refused /\ q \in accepted /\ taken >= 1 /\ 1..(taken - 1) \subseteq Uploaded
      BY <2>1, <2>2, <3>1
    <3>3. ~q.syn
      BY <3>1, <3>2 DEF WellFormed, QueryType
    <3>4. taken \in Uploaded
      BY <3>1, <3>2, <3>3
    <3>5. 1..taken = 1..(taken - 1) \cup {taken}
      BY <3>2
    <3> QED
      BY <3>2, <3>4, <3>5
  <2>3. refused => refused'
    BY <1>9 DEF SendAnswered, Answered
  <2> QED
    BY <2>1, <2>2, <2>3
<1>10. CASE Poll
  <2>1. /\ queries' = queries \cup {PollOf(recvSeq)}
        /\ UNCHANGED <<phase, up, sendSeq, taken, written, arrived, accepted, refused>>
    BY <1>10 DEF Poll, DownGoes
  <2> QED
    BY <2>1, QueryShapes
<1>11. CASE DownStops \/ PollAnswered \/ PollFails
  <2>1. UNCHANGED <<phase, up, sendSeq, taken, written, queries, arrived, accepted, refused>>
    BY <1>11 DEF DownStops, PollAnswered, PollFails, DownGoes
  <2> QED
    BY <2>1
<1> QED
  BY <1>1, <1>2, <1>3, <1>4, <1>5, <1>6, <1>7, <1>8, <1>9, <1>10, <1>11 DEF Next

\* What DownInv and NoMissInv are about.
downVars == <<down, recvSeq, came, queries, produced, handed, answers, missed>>

\* What the answer to a poll does to the server.
LEMMA PollArrivesAdds ==
  ASSUME TypeOK, NEW q \in queries, PollArrives(q)
  PROVE  /\ q.op = "r" /\ q.seq \in Nat
         /\ UNCHANGED <<phase, up, down, recvSeq, came, queries, produced, missed>>
         /\ \/ UNCHANGED <<answers, handed>> /\ \E a \in answers : a.seq = q.seq
            \/ /\ \A a \in answers : a.seq # q.seq
               /\ \E d \in {0, handed + 1} :
                    /\ answers' = answers \cup {[seq |-> q.seq, data |-> d]}
                    /\ d = 0 => handed' = handed
                    /\ d # 0 => handed' = handed + 1 /\ handed < produced
<1>1. q.op = "r" /\ q.seq \in Nat
  BY DEF PollArrives, TypeOK, QueryType
<1>2. UNCHANGED <<phase, up, down, recvSeq, came, queries, produced, missed>>
  BY DEF PollArrives, loopVars, localVars
<1>3. CASE \E a \in answers : a.seq = q.seq
  BY <1>1, <1>2, <1>3 DEF PollArrives
<1>4. CASE ~\E a \in answers : a.seq = q.seq
  <2>1. CASE handed < produced
    <3>1. handed + 1 # 0 /\ handed' = handed + 1
      BY <1>4, <2>1 DEF PollArrives, TypeOK
    <3> QED
      BY <1>1, <1>2, <1>4, <2>1, <3>1 DEF PollArrives
  <2>2. CASE ~(handed < produced)
    BY <1>1, <1>2, <1>4, <2>2 DEF PollArrives
  <2> QED
    BY <2>1, <2>2
<1> QED
  BY <1>3, <1>4

LEMMA DownStep == IInv /\ [Next]_vars => DownInv'
<1> SUFFICES ASSUME IInv, [Next]_vars PROVE DownInv'
  OBVIOUS
<1>0. TypeOK /\ PhaseInv /\ DownInv
  BY DEF IInv
<1>t. /\ recvSeq \in Nat /\ handed \in Nat /\ produced \in Nat
      /\ came \in Seq(1..MaxDown)
      /\ \A a \in answers : a.seq \in Nat /\ a.data \in Nat
  BY <1>0 DEF TypeOK
<1>s. DOMAIN came = 1..Len(came) /\ Len(came) \in Nat
      /\ \A n \in DOMAIN came : came[n] \in Nat
  <2>1. \A n \in DOMAIN came : came[n] \in 1..MaxDown
    <3>1. DOMAIN came = 1..Len(came)
      BY <1>t, LenProperties
    <3> QED
      BY <1>t, <3>1, ElementOfSeq
  <2> QED
    BY <1>t, <2>1, BoundsAssumption
<1>1. CASE UNCHANGED downVars
  BY <1>0, <1>1 DEF DownInv, downVars
<1>2. CASE TargetSends
  BY <1>0, <1>t, <1>2 DEF TargetSends, DownInv, loopVars, localVars
<1>3. ASSUME NEW q \in queries, PollArrives(q) PROVE DownInv'
  <2>1. CASE UNCHANGED <<answers, handed>>
    <3>1. UNCHANGED downVars
      BY <1>0, <1>3, <2>1, PollArrivesAdds DEF downVars
    <3> QED
      BY <1>1, <3>1
  <2>2. CASE ~UNCHANGED <<answers, handed>>
    <3>1. /\ q.op = "r" /\ q.seq \in Nat /\ \A a \in answers : a.seq # q.seq
          /\ UNCHANGED <<down, recvSeq, came, queries, produced>>
      BY <1>0, <1>3, <2>2, PollArrivesAdds
    <3>2. PICK d \in {0, handed + 1} :
            /\ answers' = answers \cup {[seq |-> q.seq, data |-> d]}
            /\ d = 0 => handed' = handed
            /\ d # 0 => handed' = handed + 1 /\ handed < produced
      BY <1>0, <1>3, <2>2, PollArrivesAdds
    <3>3. handed' \in Nat /\ handed <= handed' /\ d <= handed' /\ handed' <= produced
          /\ (d # 0 => d = handed + 1)
      BY <1>0, <1>t, <3>2 DEF DownInv
    <3>4. q.seq < recvSeq
      BY <1>0, <3>1 DEF DownInv
    <3>5. \A a, b \in answers' : a.seq = b.seq => a = b
      BY <1>0, <3>1, <3>2 DEF DownInv
    <3>6. \A a \in answers' : a.seq < recvSeq /\ a.data <= handed'
      <4>1. \A a \in answers : a.seq < recvSeq /\ a.data <= handed'
        BY <1>0, <1>t, <3>3 DEF DownInv
      <4> QED
        BY <3>2, <3>3, <3>4, <4>1
    <3>7. \A n \in DOMAIN came : came[n] <= handed'
      BY <1>0, <1>t, <1>s, <3>3 DEF DownInv
    <3>8. ASSUME d # 0 PROVE \A n \in DOMAIN came : came[n] < d
      BY <1>0, <1>t, <1>s, <3>3, <3>8 DEF DownInv
    <3>9. ASSUME down = "poll", NEW a \in answers', a.seq = recvSeq - 1, a.data # 0
          PROVE  \A n \in DOMAIN came : came[n] < a.data
      <4>1. CASE a \in answers
        BY <1>0, <3>9, <4>1 DEF DownInv
      <4>2. CASE a = [seq |-> q.seq, data |-> d]
        BY <3>8, <3>9, <4>2
      <4> QED
        BY <3>2, <4>1, <4>2
    <3> QED
      BY <1>0, <3>1, <3>3, <3>5, <3>6, <3>7, <3>9 DEF DownInv
  <2> QED
    BY <2>1, <2>2
<1>4. CASE SendSyn
  BY <1>0, <1>4, QueryShapes DEF SendSyn, DownInv, localVars, serverVars
<1>5. CASE SynAnswered
  BY <1>0, <1>5 DEF SynAnswered, PhaseInv, DownInv, localVars, serverVars
<1>6. CASE ReadLocal
  <2>1. queries' = queries \cup {Chunk(sendSeq, FALSE, taken + 1)}
        /\ UNCHANGED <<down, recvSeq, came, produced, handed, answers>>
    BY <1>6 DEF ReadLocal, UpGoes, serverVars
  <2>2. Chunk(sendSeq, FALSE, taken + 1).op # "r"
    BY DEF Chunk
  <2> QED
    BY <1>0, <2>1, <2>2 DEF DownInv
<1>7. CASE Poll
  <2>1. /\ down' = "poll" /\ recvSeq' = recvSeq + 1
        /\ queries' = queries \cup {PollOf(recvSeq)}
        /\ UNCHANGED <<came, produced, handed, answers>>
    BY <1>7 DEF Poll, DownGoes, serverVars
  <2>2. \A q \in queries' : q.op = "r" => q.seq < recvSeq'
    <3>1. ASSUME NEW q \in queries, q.op = "r" PROVE q.seq < recvSeq + 1
      <4>1. q.seq \in Nat /\ q.seq < recvSeq
        BY <1>0, <3>1 DEF TypeOK, QueryType, DownInv
      <4> QED
        BY <1>t, <4>1
    <3>2. PollOf(recvSeq).seq < recvSeq + 1
      BY <1>t DEF PollOf
    <3> QED
      BY <2>1, <3>1, <3>2
  <2>3. \A a \in answers : a.seq < recvSeq' /\ a.seq # recvSeq' - 1
    BY <1>0, <1>t, <2>1 DEF DownInv
  <2> QED
    BY <1>0, <1>t, <2>1, <2>2, <2>3 DEF DownInv
<1>8. CASE PollAnswered
  <2>1. /\ down = "poll" /\ down' \in {"wait", "done"}
        /\ UNCHANGED <<recvSeq, queries, produced, handed, answers>>
    BY <1>8 DEF PollAnswered, DownGoes, serverVars
  <2>2. CASE came' = came
    BY <1>0, <2>1, <2>2 DEF DownInv
  <2>3. CASE came' # came
    <3>1. PICK a \in answers : a.seq = recvSeq - 1 /\ a.data # 0
                                /\ came' = Append(came, a.data)
      BY <1>8, <2>3, QueryShapes DEF PollAnswered, LastPoll
    <3>2. /\ a.data \in Nat /\ a.data <= handed
          /\ \A n \in DOMAIN came : came[n] < a.data
      BY <1>0, <1>t, <2>1, <3>1 DEF DownInv
    <3>3. /\ DOMAIN came' = 1..(Len(came) + 1)
          /\ \A n \in 1..Len(came) : came'[n] = came[n]
          /\ came'[Len(came) + 1] = a.data
      <4>1. a.data \in 1..MaxDown
        BY <1>0, <3>1, <3>2 DEF TypeOK
      <4> QED
        BY <1>t, <3>1, <4>1
    <3>4. \A n \in DOMAIN came' : came'[n] <= handed
      BY <1>0, <1>s, <3>2, <3>3 DEF DownInv
    <3>5. \A m, n \in DOMAIN came' : m < n => came'[m] < came'[n]
      BY <1>0, <1>s, <3>2, <3>3 DEF DownInv
    <3> QED
      BY <1>0, <2>1, <3>4, <3>5 DEF DownInv
  <2> QED
    BY <2>2, <2>3
<1>9. CASE PollFails \/ DownStops
  BY <1>0, <1>9 DEF PollFails, DownStops, DownGoes, DownInv, serverVars
<1> QED
  BY <1>1, <1>2, <1>3, <1>4, <1>5, <1>6, <1>7, <1>8, <1>9
     DEF Next, downVars, vars, loopVars, localVars, serverVars, LocalWrites, LocalCloses, Stop,
         DataArrives, HandshakeFails, SynFails, Finish, UpCheck, ReadFails, SendAnswered,
         SendFails, UpGoes

LEMMA NoMissStep == IInv /\ [Next]_vars => NoMissInv'
<1> SUFFICES ASSUME IInv, [Next]_vars, ~missed' PROVE NoMissInv'
  BY DEF NoMissInv
<1>0. TypeOK /\ PhaseInv /\ DownInv /\ NoMissInv
  BY DEF IInv
<1>m. ~missed
  BY DEF Next, vars, loopVars, localVars, serverVars, LocalWrites, LocalCloses, Stop, TargetSends,
         DataArrives, PollArrives, SendSyn, HandshakeFails, SynAnswered, SynFails, Finish, UpCheck,
         ReadLocal, ReadFails, SendAnswered, SendFails, UpGoes, Poll, DownStops, PollAnswered,
         PollFails, DownGoes
<1>t. /\ recvSeq \in Nat /\ handed \in Nat
      /\ came \in Seq(1..MaxDown)
      /\ \A a \in answers : a.seq \in Nat /\ a.data \in Nat
  BY <1>0 DEF TypeOK
<1>1. CASE UNCHANGED <<down, recvSeq, came, handed, answers>>
  BY <1>0, <1>m, <1>1 DEF NoMissInv
<1>2. ASSUME NEW q \in queries, PollArrives(q) PROVE NoMissInv'
  <2>1. CASE UNCHANGED <<answers, handed>>
    BY <1>0, <1>1, <1>2, <2>1, PollArrivesAdds
  <2>2. CASE ~UNCHANGED <<answers, handed>>
    <3>1. /\ q.op = "r" /\ q.seq \in Nat /\ \A a \in answers : a.seq # q.seq
          /\ UNCHANGED <<down, recvSeq, came, queries, produced>>
      BY <1>0, <1>2, <2>2, PollArrivesAdds
    <3>2. PICK d \in {0, handed + 1} :
            /\ answers' = answers \cup {[seq |-> q.seq, data |-> d]}
            /\ d = 0 => handed' = handed
            /\ d # 0 => handed' = handed + 1 /\ handed < produced
      BY <1>0, <1>2, <2>2, PollArrivesAdds
    <3>3. q.seq < recvSeq
      BY <1>0, <3>1 DEF DownInv
    <3>4. \A n \in 0..(recvSeq - 1) :
            n < recvSeq - 1 \/ down # "poll" => \E a \in answers' : a.seq = n
      BY <1>0, <1>m, <3>2 DEF NoMissInv
    <3>5. down \notin {"off", "wait"} /\ q.seq = recvSeq - 1
      <4>1. down # "wait" /\ (q.seq < recvSeq - 1 => FALSE)
        BY <1>0, <1>m, <1>t, <3>1, <3>3 DEF NoMissInv
      <4>2. down # "off"
        BY <1>0, <1>m, <1>t, <3>1, <3>3 DEF NoMissInv
      <4> QED
        BY <1>t, <3>1, <3>3, <4>1, <4>2
    <3>6. ASSUME down = "poll"
          PROVE  \/ /\ came = [n \in 1..handed' |-> n]
                    /\ \A a \in answers' : a.seq = recvSeq - 1 => a.data = 0
                 \/ /\ handed' >= 1 /\ came = [n \in 1..(handed' - 1) |-> n]
                    /\ \E a \in answers' : a.seq = recvSeq - 1 /\ a.data = handed'
      <4>1. came = [n \in 1..handed |-> n]
        BY <1>0, <1>m, <3>1, <3>5, <3>6 DEF NoMissInv
      <4>2. CASE d = 0
        BY <3>1, <3>2, <3>5, <4>1, <4>2
      <4>3. CASE d # 0
        <5>1. handed' = handed + 1 /\ d = handed + 1
          BY <3>2, <4>3
        <5>2. handed' >= 1 /\ handed' - 1 = handed
          BY <1>t, <5>1
        <5>3. [seq |-> q.seq, data |-> d] \in answers'
          BY <3>2
        <5> QED
          BY <3>5, <4>1, <5>1, <5>2, <5>3
      <4> QED
        BY <4>2, <4>3
    <3> QED
      BY <3>1, <3>4, <3>5, <3>6 DEF NoMissInv
  <2> QED
    BY <2>1, <2>2
<1>3. CASE SynAnswered
  <2>1. /\ down = "off" /\ down' = "wait" /\ UNCHANGED <<recvSeq, came, handed, answers>>
    BY <1>0, <1>3 DEF SynAnswered, PhaseInv, localVars, serverVars
  <2>2. recvSeq = 0 /\ answers = {} /\ handed = 0 /\ came = <<>>
    BY <1>0, <1>m, <2>1 DEF NoMissInv
  <2> QED
    BY <1>0, <1>m, <2>1, <2>2 DEF NoMissInv
<1>4. CASE Poll
  <2>1. /\ down = "wait" /\ down' = "poll" /\ recvSeq' = recvSeq + 1
        /\ UNCHANGED <<came, handed, answers>>
    BY <1>4 DEF Poll, DownGoes, serverVars
  <2>2. \A a \in answers : a.seq # recvSeq' - 1
    BY <1>0, <1>t, <2>1 DEF DownInv
  <2>3. came = [n \in 1..handed |-> n]
    BY <1>0, <1>m, <2>1 DEF NoMissInv
  <2>4. \A n \in 0..(recvSeq' - 1) : n < recvSeq' - 1 => \E a \in answers : a.seq = n
    <3>1. ASSUME NEW n \in 0..recvSeq, n < recvSeq PROVE \E a \in answers : a.seq = n
      <4>1. n \in 0..(recvSeq - 1)
        BY <1>t, <3>1
      <4> QED
        BY <1>0, <1>m, <2>1, <4>1 DEF NoMissInv
    <3>2. recvSeq' - 1 = recvSeq
      BY <1>t, <2>1
    <3> QED
      BY <3>1, <3>2
  <2> QED
    BY <2>1, <2>2, <2>3, <2>4 DEF NoMissInv
<1>5. CASE PollAnswered
  <2>1. /\ down = "poll" /\ down' \in {"wait", "done"} /\ UNCHANGED <<recvSeq, handed, answers>>
    BY <1>5 DEF PollAnswered, DownGoes, serverVars
  <2>2. PICK a \in answers : /\ a.seq = recvSeq - 1
                             /\ \/ a.data = 0 /\ came' = came
                                \/ a.data # 0 /\ came' = Append(came, a.data)
    BY <1>5, QueryShapes DEF PollAnswered, LastPoll, DownGoes
  <2>3. \A b \in answers : b.seq = recvSeq - 1 => b = a
    BY <1>0, <2>2 DEF DownInv
  <2>4. \A n \in 0..(recvSeq - 1) : \E b \in answers : b.seq = n
    <3>1. ASSUME NEW n \in 0..(recvSeq - 1) PROVE n < recvSeq - 1 \/ n = recvSeq - 1
      BY <1>t
    <3> QED
      BY <1>0, <1>m, <2>2, <3>1 DEF NoMissInv
  <2>5. ASSUME down' = "wait" PROVE came' = [n \in 1..handed |-> n]
    <3>1. CASE came = [n \in 1..handed |-> n] /\ \A b \in answers : b.seq = recvSeq - 1 => b.data = 0
      BY <2>2, <2>5, <3>1
    <3>2. CASE /\ handed >= 1 /\ came = [n \in 1..(handed - 1) |-> n]
               /\ \E b \in answers : b.seq = recvSeq - 1 /\ b.data = handed
      <4>1. a.data = handed /\ a.data # 0
        BY <1>t, <2>3, <3>2
      <4>2. came' = Append(came, handed)
        BY <2>2, <2>5, <4>1
      <4>3. Len(came) = handed - 1
        BY <1>t, <3>2
      <4> QED
        BY <1>t, <3>2, <4>2, <4>3
    <3> QED
      BY <1>0, <1>m, <2>1, <3>1, <3>2 DEF NoMissInv
  <2> QED
    BY <2>1, <2>4, <2>5 DEF NoMissInv
<1>6. CASE DownStops
  BY <1>0, <1>m, <1>6 DEF DownStops, DownGoes, NoMissInv, serverVars
<1>7. CASE PollFails
  BY <1>7 DEF PollFails
<1> QED
  BY <1>1, <1>2, <1>3, <1>4, <1>5, <1>6, <1>7
     DEF Next, vars, loopVars, localVars, serverVars, LocalWrites, LocalCloses, Stop,
         TargetSends, DataArrives, SendSyn, HandshakeFails, SynFails, Finish, UpCheck, ReadLocal,
         ReadFails, SendAnswered, SendFails, UpGoes

LEMMA OpenStep == IInv /\ [Next]_vars => OpenInv'
<1> SUFFICES ASSUME IInv, [Next]_vars PROVE OpenInv'
  OBVIOUS
<1>1. CASE TargetSends
  BY <1>1 DEF TargetSends, OpenInv
<1>2. ASSUME NEW q \in queries, DataArrives(q) PROVE OpenInv'
  BY <1>2, ServerTakes DEF DataArrives, IInv, OpenInv
<1>3. CASE UNCHANGED <<produced, accepted>>
  BY <1>3 DEF IInv, OpenInv
<1> QED
  BY <1>1, <1>2, <1>3
     DEF Next, vars, loopVars, localVars, serverVars, LocalWrites, LocalCloses, Stop,
         PollArrives, SendSyn, HandshakeFails, SynAnswered, SynFails, Finish, UpCheck, ReadLocal,
         ReadFails, SendAnswered, SendFails, UpGoes, Poll, DownStops, PollAnswered, PollFails,
         DownGoes

--------------------------------------------------------------------------------
\* The invariant is inductive.
THEOREM Inductive == Spec => []IInv
<1>1. IInv /\ [Next]_vars => IInv'
  BY TypeStep, PhaseStep, UpStep, DownStep, NoMissStep, OpenStep DEF IInv
<1> QED
  BY InitIInv, <1>1, PTL DEF Spec

\* The server has no chunk that was not taken from the client.
LEMMA ChunksAreTaken ==
  ASSUME IInv
  PROVE  /\ \A q \in accepted : ~q.syn => q.data = q.seq + 1 /\ q.data <= taken
         /\ Uploaded \subseteq 1..taken
<1>1. ASSUME NEW q \in accepted, ~q.syn
      PROVE  q.data = q.seq + 1 /\ q.data <= taken /\ q.data \in 1..taken
  <2>1. q \in queries /\ q.op = "d" /\ WellFormed(q) /\ q \in QueryType /\ q # Syn
    BY <1>1, QueryShapes DEF IInv, TypeOK, UpInv
  <2>2. q.data = q.seq + 1 /\ q.data <= taken /\ q.seq \in Nat
    BY <1>1, <2>1 DEF WellFormed, IInv, UpInv, QueryType
  <2>3. taken \in Nat
    BY BoundsAssumption DEF IInv, TypeOK
  <2> QED
    BY <2>2, <2>3
<1> QED
  BY <1>1 DEF Uploaded

\* However queries are lost, delayed or repeated, the server's stream is what the
\* client wrote, without a gap below what the loop has gone past.
THEOREM UploadIsFaithfulHolds == Spec => []UploadIsFaithful
<1>1. IInv => UploadIsFaithful
  <2> SUFFICES ASSUME IInv PROVE UploadIsFaithful
    OBVIOUS
  <2>1. /\ \A q \in accepted : ~q.syn => q.data = q.seq + 1 /\ q.data <= taken
        /\ Uploaded \subseteq 1..taken
    BY ChunksAreTaken
  <2>3. up \in {"check", "read"} /\ ~refused => 1..taken \subseteq Uploaded
    BY DEF IInv, UpInv
  <2> QED
    BY <2>1, <2>3 DEF UploadIsFaithful
<1> QED
  BY Inductive, <1>1, PTL

\* The client never receives a chunk twice or out of order, and misses none while
\* every poll is answered.
THEOREM DownloadIsFaithfulHolds == Spec => []DownloadIsFaithful
<1>1. IInv => DownloadIsFaithful
  BY DEF IInv, DownInv, NoMissInv, DownloadIsFaithful
<1> QED
  BY Inductive, <1>1, PTL

--------------------------------------------------------------------------------
(* The connection implements DnsStream.                                    *)

\* A step that DnsStream does not see.
LEMMA Unseen ==
  ASSUME UNCHANGED <<phase, accepted, taken, handed, came, refused, missed>>
  PROVE  UNCHANGED Stream!dvars
BY DEF Uploaded, Stream!dvars, Stream!connVars, Stream!upVars, Stream!downVars

\* A query of the client's stream at the server opens the connection, brings
\* the next chunk, or nothing new.
LEMMA ArrivalImplements ==
  ASSUME IInv, NEW q \in queries, DataArrives(q)
  PROVE  Stream!DNext \/ UNCHANGED Stream!dvars
<1>0. TypeOK /\ UpInv /\ q.op = "d"
  BY DEF IInv, DataArrives
<1>1. UNCHANGED <<phase, taken, handed, came, refused, missed>>
  BY DEF DataArrives, loopVars, localVars
<1>2. CASE accepted' = accepted
  BY <1>1, <1>2, Unseen
<1>3. CASE accepted' # accepted
  <2>1. /\ accepted' = accepted \cup {q}
        /\ q.syn \/ Syn \in accepted
        /\ \A a \in accepted : <<a.seq, a.syn>> # <<q.seq, q.syn>>
    BY <1>3 DEF DataArrives
  <2>2. q \in QueryType /\ WellFormed(q)
    BY <1>0 DEF TypeOK
  <2>3. CASE q.syn
    <3>1. q = Syn
      BY <1>0, <2>3, OnlySyn
    <3>2. Syn \notin accepted /\ Syn \in accepted'
      BY <2>1, <3>1
    <3>3. Uploaded' = Uploaded
      BY <2>1, <2>3 DEF Uploaded
    <3>4. Stream!Open
      BY <1>1, <3>2, <3>3 DEF Stream!Open, Stream!upVars, Stream!downVars
    <3> QED
      BY <3>4 DEF Stream!DNext
  <2>4. CASE ~q.syn
    <3>1. q.data = q.seq + 1 /\ q.seq \in Nat /\ q.syn = FALSE
      BY <1>0, <2>2, <2>4 DEF WellFormed, QueryType
    <3>2. q # Syn /\ q.data <= taken
      BY <1>0, <2>4, QueryShapes DEF UpInv
    <3>3. q.data \in 1..taken
      BY <1>0, <3>1, <3>2, BoundsAssumption DEF TypeOK
    <3>4. Syn \in accepted /\ Syn \in accepted'
      BY <2>1, <2>4
    <3>5. q.data \notin Uploaded
      <4>1. SUFFICES ASSUME NEW a \in accepted, ~a.syn, a.data = q.data PROVE FALSE
        BY DEF Uploaded
      <4>2. a \in QueryType /\ WellFormed(a) /\ a.op = "d"
        BY <1>0 DEF TypeOK, UpInv
      <4>3. a.data = a.seq + 1 /\ a.seq \in Nat /\ a.syn = FALSE
        BY <4>1, <4>2 DEF WellFormed, QueryType
      <4>4. a.seq = q.seq
        BY <3>1, <4>1, <4>3
      <4> QED
        BY <2>1, <3>1, <4>3, <4>4
    <3>6. Uploaded' = Uploaded \cup {q.data}
      BY <2>1, <2>4 DEF Uploaded
    <3>7. Stream!Deliver(q.data)
      BY <1>1, <3>3, <3>4, <3>5, <3>6 DEF Stream!Deliver, Stream!connVars, Stream!downVars
    <3> QED
      BY <3>3, <3>7 DEF Stream!DNext
  <2> QED
    BY <2>3, <2>4
<1> QED
  BY <1>2, <1>3

\* A poll at the server is handed a chunk only when the client has all before it.
LEMMA PollImplements ==
  ASSUME IInv, NEW q \in queries, PollArrives(q)
  PROVE  Stream!DNext \/ UNCHANGED Stream!dvars
<1>0. TypeOK /\ DownInv /\ NoMissInv /\ OpenInv
  BY DEF IInv
<1>1. UNCHANGED <<phase, accepted, taken, came, refused, missed>>
  BY DEF PollArrives, loopVars, localVars
<1>2. CASE handed' = handed
  BY <1>1, <1>2, Unseen
<1>3. CASE handed' # handed
  <2>1. /\ q.op = "r" /\ q.seq \in Nat /\ \A a \in answers : a.seq # q.seq
        /\ handed' = handed + 1 /\ handed < produced
    BY <1>0, <1>3, PollArrivesAdds
  <2>2. handed \in Nat /\ produced \in Nat /\ recvSeq \in Nat
    BY <1>0, BoundsAssumption DEF TypeOK
  <2>3. Syn \in accepted
    BY <1>0, <2>1, <2>2 DEF OpenInv
  <2>4. ASSUME ~missed PROVE Len(came) = handed
    <3>1. q.seq < recvSeq
      BY <1>0, <2>1 DEF DownInv
    <3>2. q.seq = recvSeq - 1 /\ down = "poll"
      BY <1>0, <2>1, <2>2, <2>4, <3>1 DEF NoMissInv
    <3>3. came = [n \in 1..handed |-> n]
      BY <1>0, <2>1, <2>4, <3>2 DEF NoMissInv
    <3> QED
      BY <2>2, <3>3
  <2>5. Uploaded' = Uploaded
    BY <1>1 DEF Uploaded
  <2>6. Stream!HandOut
    BY <1>1, <2>1, <2>3, <2>4, <2>5 DEF Stream!HandOut, Stream!connVars, Stream!upVars
  <2> QED
    BY <2>6 DEF Stream!DNext
<1> QED
  BY <1>2, <1>3

\* handleConn opens, relays and ends.
LEMMA PhaseImplements ==
  ASSUME IInv, SendSyn \/ HandshakeFails \/ SynAnswered \/ SynFails \/ Finish
  PROVE  Stream!DNext \/ UNCHANGED Stream!dvars
<1>1. /\ UNCHANGED <<accepted, taken, handed, came, missed>>
      /\ Uploaded' = Uploaded
  BY DEF SendSyn, HandshakeFails, SynAnswered, SynFails, Finish, localVars, serverVars, Uploaded
<1>2. CASE SendSyn
  BY <1>1, <1>2 DEF SendSyn, Stream!dvars, Stream!connVars, Stream!upVars, Stream!downVars
<1>3. CASE HandshakeFails \/ SynFails \/ Finish
  <2>1. phase \in {"new", "syn", "relay"} /\ phase' = "over" /\ refused' = refused
    BY <1>3 DEF HandshakeFails, SynFails, Finish
  <2>2. Stream!End
    BY <1>1, <2>1 DEF Stream!End, Stream!upVars, Stream!downVars
  <2> QED
    BY <2>2 DEF Stream!DNext
<1>4. CASE SynAnswered
  <2>1. phase = "syn" /\ phase' = "relay"
    BY <1>4 DEF SynAnswered
  <2>2. (Syn \in accepted /\ refused' = refused) \/ refused' = TRUE
    <3>1. CASE refused' = TRUE
      BY <3>1
    <3>2. CASE refused' = refused /\ \E q \in arrived : q.op = "d" /\ q.data = taken
      <4>1. PICK q \in arrived : q.op = "d" /\ q.data = taken
        BY <3>2
      <4>2. taken = 0
        BY <2>1 DEF IInv, PhaseInv
      <4>3. q \in queries /\ q \in QueryType /\ WellFormed(q)
        BY DEF IInv, TypeOK
      <4>4. q.syn
        BY <4>1, <4>2, <4>3 DEF WellFormed, QueryType
      <4>5. q = Syn
        BY <4>1, <4>3, <4>4, OnlySyn DEF IInv
      <4> QED
        BY <3>2, <4>5 DEF IInv, UpInv
    <3> QED
      BY <1>4, <3>1, <3>2 DEF SynAnswered, Answered
  <2>3. Stream!Relay
    BY <1>1, <2>1, <2>2 DEF Stream!Relay, Stream!downVars
  <2> QED
    BY <2>3 DEF Stream!DNext
<1> QED
  BY <1>2, <1>3, <1>4

\* The upload loop takes a chunk when the target's side has all before it.
LEMMA UploadImplements ==
  ASSUME IInv, ReadLocal \/ SendAnswered
  PROVE  Stream!DNext \/ UNCHANGED Stream!dvars
<1>1. /\ UNCHANGED <<phase, accepted, handed, came, missed>>
      /\ Uploaded' = Uploaded
  BY DEF ReadLocal, SendAnswered, UpGoes, serverVars, Uploaded
<1>2. phase = "relay"
  BY DEF ReadLocal, SendAnswered, IInv, PhaseInv, TypeOK
<1>3. CASE ReadLocal
  <2>1. taken' = taken + 1 /\ refused' = refused /\ up = "read"
    BY <1>3 DEF ReadLocal
  <2>2. Uploaded = 1..taken \/ refused
    BY <2>1, ChunksAreTaken DEF IInv, UpInv
  <2>3. Stream!Take
    BY <1>1, <1>2, <2>1, <2>2 DEF Stream!Take, Stream!connVars, Stream!downVars
  <2> QED
    BY <2>3 DEF Stream!DNext
<1>4. CASE SendAnswered
  <2>1. taken' = taken /\ (refused' = refused \/ refused' = TRUE)
    BY <1>4 DEF SendAnswered, Answered
  <2>2. CASE refused' = refused
    BY <1>1, <2>1, <2>2, Unseen
  <2>3. CASE refused' = TRUE
    <3>1. Stream!Refuse
      BY <1>1, <1>2, <2>1, <2>3 DEF Stream!Refuse, Stream!connVars, Stream!downVars
    <3> QED
      BY <3>1 DEF Stream!DNext
  <2> QED
    BY <2>1, <2>2, <2>3
<1> QED
  BY <1>3, <1>4

\* What the download loop writes is newer than all the client has, and the
\* next chunk as long as no poll was missed.
LEMMA DownloadImplements ==
  ASSUME IInv, PollAnswered \/ PollFails
  PROVE  Stream!DNext \/ UNCHANGED Stream!dvars
<1>0. TypeOK /\ DownInv /\ NoMissInv
  BY DEF IInv
<1>1. /\ UNCHANGED <<phase, accepted, taken, handed, refused>>
      /\ Uploaded' = Uploaded
  BY DEF PollAnswered, PollFails, DownGoes, serverVars, Uploaded
<1>2. phase = "relay" /\ down = "poll"
  BY DEF PollAnswered, PollFails, IInv, PhaseInv, TypeOK
<1>3. CASE PollFails
  <2>1. missed' = TRUE /\ came' = came
    BY <1>3 DEF PollFails
  <2>2. Stream!Miss
    BY <1>1, <1>2, <2>1 DEF Stream!Miss, Stream!connVars, Stream!upVars
  <2> QED
    BY <2>2 DEF Stream!DNext
<1>4. CASE PollAnswered
  <2>1. PICK a \in answers : /\ a.seq = recvSeq - 1
                             /\ \/ came' = came
                                \/ a.data # 0 /\ came' = Append(came, a.data)
    <3>1. LastPoll.seq = recvSeq - 1
      BY QueryShapes DEF LastPoll
    <3> QED
      BY <1>4, <3>1 DEF PollAnswered
  <2>2. missed' = missed
    BY <1>4 DEF PollAnswered
  <2>3. CASE came' = came
    BY <1>1, <2>2, <2>3, Unseen
  <2>4. CASE a.data # 0 /\ came' = Append(came, a.data)
    <3>1. /\ a.data \in Nat /\ handed \in Nat /\ a.data <= handed
          /\ \A n \in DOMAIN came : came[n] < a.data
      BY <1>0, <1>2, <2>1, <2>4, BoundsAssumption DEF TypeOK, DownInv
    <3>2. ASSUME ~missed PROVE a.data = Len(came) + 1
      <4>1. \A b \in answers : b.seq = recvSeq - 1 => b = a
        BY <1>0, <2>1 DEF DownInv
      <4>2. handed >= 1 /\ came = [n \in 1..(handed - 1) |-> n] /\ a.data = handed
        BY <1>0, <1>2, <2>1, <2>4, <3>2, <4>1 DEF NoMissInv
      <4> QED
        BY <3>1, <4>2
    <3>3. Stream!Come(a.data)
      BY <1>1, <1>2, <2>2, <2>4, <3>1, <3>2 DEF Stream!Come, Stream!connVars, Stream!upVars
    <3>4. a.data \in 1..handed
      BY <2>4, <3>1
    <3> QED
      BY <3>3, <3>4 DEF Stream!DNext
  <2> QED
    BY <2>1, <2>3, <2>4
<1> QED
  BY <1>3, <1>4

LEMMA StepImplements == IInv /\ [Next]_vars => [Stream!DNext]_(Stream!dvars)
<1> SUFFICES ASSUME IInv, [Next]_vars PROVE Stream!DNext \/ UNCHANGED Stream!dvars
  OBVIOUS
<1>1. CASE \/ LocalWrites \/ LocalCloses \/ Stop \/ TargetSends
           \/ UpCheck \/ ReadFails \/ SendFails \/ Poll \/ DownStops
           \/ UNCHANGED vars
  <2>1. UNCHANGED <<phase, accepted, taken, handed, came, refused, missed>>
    BY <1>1 DEF LocalWrites, LocalCloses, Stop, TargetSends, UpCheck, ReadFails, SendFails, Poll,
         DownStops, UpGoes, DownGoes, vars, loopVars, localVars, serverVars
  <2> QED
    BY <2>1, Unseen
<1> QED
  BY <1>1, ArrivalImplements, PollImplements, PhaseImplements, UploadImplements,
     DownloadImplements DEF Next

\* Whatever the resolver does, each direction of the connection is a channel
\* with one place, until a query is answered in the server's stead or a poll
\* is not answered: for any number of chunks and polls.
THEOREM TunnelImplementsStream == Spec => ImplementsStream
<1>1. Init => Stream!DInit
  BY QueryShapes DEF Init, Uploaded, Stream!DInit
<1> QED
  BY <1>1, StepImplements, Inductive, PTL DEF Spec, ImplementsStream, Stream!DSpec

--------------------------------------------------------------------------------
(* The names of the queries.                                               *)

\* Base32 takes five bits a character: what the constants of the code give.
LEMMA Encodings ==
  /\ \A n \in Nat : Base32(9 + n) \in Nat /\ Base32(9 + n) >= 15
  /\ \A n \in Nat : n <= maxChunk => Base32(9 + n) <= 207
  /\ Base32(8) = 13
BY DEF Base32, maxChunk

\* Full labels and a last one are one label more than the full ones.
LEMMA LabelsOf ==
  ASSUME NEW k \in Nat, NEW r \in 1 .. MaxLabel
  PROVE  (MaxLabel * k + r + MaxLabel - 1) \div MaxLabel = k + 1
BY DEF MaxLabel

LEMMA NameInvInit == NameInit => NameInv
BY QueryNameAssumption DEF NameInit, NameInv

LEMMA SendChunkKeeps ==
  ASSUME NameInv, step = "idle",
         NEW what \in {"syn", "data"}, NEW n \in Nat, sendChunk(what, n),
         what = "data" => n <= maxChunk, what = "syn" => n \in Targets
  PROVE  NameInv'
<1>1. Base32(9 + n) \in Nat /\ Base32(9 + n) > 0
  BY Encodings
<1>2. /\ op' = what /\ payload' = n /\ rest' = Base32(9 + n) /\ full' = 0 /\ last' = 0
      /\ step' = "split" /\ domain' = domain /\ upload' = upload
  BY DEF sendChunk
<1>3. MaxLabel * full' + rest' = Base32(9 + payload')
  BY <1>1, <1>2 DEF MaxLabel
<1> QED
  BY <1>1, <1>2, <1>3 DEF NameInv

LEMMA OneLabelKeeps ==
  ASSUME NameInv, poll \/ VerifyPrismServer
  PROVE  NameInv'
<1>1. CASE poll
  <2>1. /\ op' = "poll" /\ payload' = 0 /\ rest' = 0 /\ full' = 0 /\ last' = 13
        /\ step' = "name" /\ domain' = domain /\ upload' = upload
    BY <1>1, Encodings DEF poll
  <2>2. last' \in 1 .. MaxLabel /\ MaxLabel * full' + last' = Encoded'
    BY <2>1, Encodings DEF MaxLabel, Encoded
  <2> QED
    BY <2>1, <2>2 DEF NameInv
<1>2. CASE VerifyPrismServer
  <2>1. /\ op' = "prism" /\ payload' = 0 /\ rest' = 0 /\ full' = 0 /\ last' = 15
        /\ step' = "name" /\ domain' = domain /\ upload' = upload
    BY <1>2 DEF VerifyPrismServer
  <2>2. last' \in 1 .. MaxLabel /\ MaxLabel * full' + last' = Encoded'
    BY <2>1 DEF MaxLabel, Encoded
  <2> QED
    BY <2>1, <2>2 DEF NameInv
<1> QED
  BY <1>1, <1>2

LEMMA SplittingKeeps ==
  ASSUME NameInv, SplitLabel \/ LastLabel
  PROVE  NameInv'
<1>1. /\ op \in {"syn", "data"} /\ rest > 0 /\ last = 0 /\ step = "split"
      /\ MaxLabel * full + rest = Base32(9 + payload)
      /\ rest \in Nat /\ full \in Nat /\ payload \in Nat
  BY DEF NameInv, SplitLabel, LastLabel
<1>2. CASE SplitLabel
  <2>1. /\ rest' = rest - MaxLabel /\ full' = full + 1 /\ rest > MaxLabel
        /\ UNCHANGED <<domain, upload, op, payload, last, step>>
    BY <1>2 DEF SplitLabel
  <2>2. rest' \in Nat /\ rest' > 0 /\ full' \in Nat
    BY <1>1, <2>1 DEF MaxLabel
  <2>3. MaxLabel * full' + rest' = MaxLabel * full + rest
    BY <1>1, <2>1 DEF MaxLabel
  <2> QED
    BY <1>1, <2>1, <2>2, <2>3 DEF NameInv
<1>3. CASE LastLabel
  <2>1. /\ last' = rest /\ rest' = 0 /\ step' = "name" /\ rest <= MaxLabel
        /\ UNCHANGED <<domain, upload, op, payload, full>>
    BY <1>3 DEF LastLabel
  <2>2. last' \in 1 .. MaxLabel
    BY <1>1, <2>1 DEF MaxLabel
  <2>3. MaxLabel * full' + last' = Encoded'
    BY <1>1, <2>1 DEF Encoded
  <2> QED
    BY <1>1, <2>1, <2>2, <2>3 DEF NameInv
<1> QED
  BY <1>2, <1>3

\* The name that is built is the one NameInv speaks of.
LEMMA NameStays ==
  ASSUME UNCHANGED <<domain, op, payload, rest, full, last>>
  PROVE  QName' = QName /\ Encoded' = Encoded
BY DEF QName, Labels, Separator, Encoded

LEMMA BuildQueryKeeps ==
  ASSUME NameInv, buildQuery
  PROVE  NameInv'
<1>1. /\ step = "name" /\ last \in 1 .. MaxLabel
      /\ MaxLabel * full + last = Encoded
      /\ UNCHANGED <<domain, op, payload, rest, full, last>>
  BY DEF NameInv, buildQuery
<1>2. QName' = QName /\ Encoded' = Encoded
  BY <1>1, NameStays
<1>3. QName \in Nat
  BY <1>1, QueryNameAssumption DEF QName, Labels, Separator, NameInv, MaxLabel
<1>4. last <= MaxLabel
  BY <1>1 DEF MaxLabel
<1>5. /\ step' \in {"sent", "refused"}
      /\ step' = "sent" => QName + 1 <= MaxName
      /\ step' = "refused" => QName + 1 > MaxName
      /\ upload' \in {"new", "open", "ended"}
  BY <1>3, <1>4 DEF buildQuery, NameInv, MaxName
<1> QED
  BY <1>1, <1>2, <1>5 DEF NameInv

LEMMA ReturnKeeps ==
  ASSUME NameInv, Return
  PROVE  NameInv'
BY DEF NameInv, Return

LEMMA NameInvStep == NameInv /\ [NameNext]_nameVars => NameInv'
<1> SUFFICES ASSUME NameInv, [NameNext]_nameVars PROVE NameInv'
  OBVIOUS
<1>1. ASSUME NEW n \in Targets, SynChunk(n) PROVE NameInv'
  <2>1. n \in Nat
    BY QueryNameAssumption
  <2> QED
    BY <1>1, <2>1, SendChunkKeeps DEF SynChunk
<1>2. ASSUME NEW n \in 1 .. maxChunk, DataChunk(n) PROVE NameInv'
  <2>1. n \in Nat /\ n <= maxChunk
    BY DEF maxChunk
  <2> QED
    BY <1>2, <2>1, SendChunkKeeps DEF DataChunk
<1>3. CASE UNCHANGED nameVars
  BY <1>3 DEF NameInv, nameVars, QName, Labels, Separator, Encoded
<1> QED
  BY <1>1, <1>2, <1>3, OneLabelKeeps, SplittingKeeps, BuildQueryKeeps, ReturnKeeps
  DEF NameNext

\* For any domains and targets, what splitLabels has put in labels and what
\* it has still to put there are the encoded text.
THEOREM NameInductive == NameSpec => []NameInv
<1> QED
  BY NameInvInit, NameInvStep, PTL DEF NameSpec

\* A finished name has the length the definition of a label gives.
LEMMA LengthOfName ==
  ASSUME NameInv, step \in {"sent", "refused"}
  PROVE  /\ QName = Encoded + full + Separator + domain
         /\ QName = NameOf(Encoded)
         /\ QName \in Nat
<1>1. /\ last \in 1 .. MaxLabel /\ full \in Nat /\ domain \in Nat
      /\ MaxLabel * full + last = Encoded
  BY QueryNameAssumption DEF NameInv
<1>2. Separator \in {1, 3}
  BY DEF Separator
<1>3. Labels = full + 1
  BY <1>1 DEF Labels, MaxLabel
<1>4. QName = Encoded + full + Separator + domain
  BY <1>1, <1>2, <1>3 DEF QName, MaxLabel
<1>5. (Encoded + MaxLabel - 1) \div MaxLabel = full + 1
  BY <1>1, LabelsOf
<1>6. Encoded \in Nat
  BY <1>1 DEF MaxLabel
<1> QED
  BY <1>1, <1>2, <1>4, <1>5, <1>6 DEF NameOf

\* maxChunk leaves room for a domain of 40 characters.
LEMMA RoomForDomain ==
  ASSUME NameInv, step \in {"sent", "refused"}, op # "syn", domain <= 40
  PROVE  QName <= MaxQName
<1>1. /\ last \in 1 .. MaxLabel /\ full \in Nat /\ domain \in Nat
      /\ MaxLabel * full + last = Encoded
      /\ payload \in Nat /\ (op = "data" => payload <= maxChunk)
      /\ op \in {"data", "poll", "prism"}
  BY QueryNameAssumption DEF NameInv
<1>2. Encoded <= 207 /\ Encoded \in Nat
  BY <1>1, Encodings DEF Encoded
<1>3. full <= 3
  BY <1>1, <1>2 DEF MaxLabel
<1>4. Separator \in {1, 3}
  BY DEF Separator
<1> QED
  BY <1>1, <1>2, <1>3, <1>4, LengthOfName DEF MaxQName

\* maxChunk leaves room for exactly the domains of up to 40 characters
\* that dns_tunnel.go:56 speaks of, and a name is refused when, by the
\* definition of a label, it does not fit: for any domains and targets.
THEOREM NamesFitHolds == NameSpec => []NamesFit
<1>1. NameInv => NamesFit
  <2> SUFFICES ASSUME NameInv PROVE NamesFit
    OBVIOUS
  <2>1. ASSUME step \in {"sent", "refused"}
        PROVE  /\ QName = NameOf(Encoded)
               /\ step = "refused" <=> NameOf(Encoded) > MaxQName + 1
    <3>1. QName = NameOf(Encoded) /\ QName \in Nat
      BY <2>1, LengthOfName
    <3>2. /\ step = "sent" => QName + 1 <= MaxName
          /\ step = "refused" => QName + 1 > MaxName
      BY DEF NameInv
    <3> QED
      BY <2>1, <3>1, <3>2 DEF MaxName, MaxQName
  <2>2. ASSUME domain <= 40, op # "syn", step \in {"sent", "refused"}
        PROVE  QName <= MaxQName /\ step # "refused"
    <3>1. QName <= MaxQName /\ QName \in Nat
      BY <2>2, RoomForDomain, LengthOfName
    <3>2. step = "refused" => QName + 1 > MaxName
      BY DEF NameInv
    <3> QED
      BY <3>1, <3>2 DEF MaxName, MaxQName
  <2> QED
    BY <2>1, <2>2 DEF NamesFit
<1> QED
  BY <1>1, NameInductive, PTL
=============================================================================
