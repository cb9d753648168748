-------------------------- MODULE ConnectionBloc_proofs --------------------------
(***************************************************************************)
(* Proofs for ConnectionBloc, for every number of overlapping handlers:    *)
(* IInv is inductive, and the two properties follow from it.               *)
(***************************************************************************)
EXTENDS ConnectionBloc, SequenceTheorems, TLAPS

--------------------------------------------------------------------------------
(* Sequences.                                                              *)

\* An appended message is the last one and leaves the others where they are.
LEMMA Appended ==
  ASSUME NEW S, NEW s \in Seq(S), NEW x \in S
  PROVE  /\ Append(s, x) \in Seq(S)
         /\ Len(Append(s, x)) = Len(s) + 1
         /\ Append(s, x) # <<>>
         /\ Last(Append(s, x)) = x
         /\ Append(s, x)[Len(s) + 1] = x
         /\ \A n \in DOMAIN s : n \in DOMAIN Append(s, x) /\ Append(s, x)[n] = s[n]
         /\ \A n \in DOMAIN Append(s, x) : n \in DOMAIN s \/ n = Len(s) + 1
  BY AppendProperties, LenProperties DEF Last

\* What stays when the first message is taken moves up by one place.
LEMMA Taken ==
  ASSUME NEW S, NEW s \in Seq(S), s # <<>>
  PROVE  /\ Head(s) \in S /\ 1 \in DOMAIN s /\ Head(s) = s[1]
         /\ Tail(s) \in Seq(S)
         /\ \A n \in DOMAIN Tail(s) : n + 1 \in DOMAIN s /\ Tail(s)[n] = s[n + 1]
         /\ \A n \in DOMAIN s : n > 1 => n - 1 \in DOMAIN Tail(s)
  BY HeadTailProperties, LenProperties, EmptySeq

\* One status leaves the queue: the last one stays the last unless it is the
\* one that leaves.
LEMMA Removed ==
  ASSUME NEW S, NEW s \in Seq(S), NEW n \in DOMAIN s
  PROVE  /\ RemoveAt(s, n) \in Seq(S)
         /\ n < Len(s) => RemoveAt(s, n) # <<>> /\ Last(RemoveAt(s, n)) = Last(s)
         /\ n = Len(s) /\ n = 1 => RemoveAt(s, n) = <<>> /\ s[n] = Last(s) /\ s # <<>>
<1> DEFINE front == SubSeq(s, 1, n - 1)
           back  == SubSeq(s, n + 1, Len(s))
<1>1. Len(s) \in Nat /\ n \in 1..Len(s) /\ n \in Nat /\ 1 <= n /\ n <= Len(s)
  BY LenProperties
<1>2. /\ front \in Seq(S) /\ Len(front) = n - 1
      /\ back \in Seq(S) /\ Len(back) = Len(s) - n
      /\ \A i \in 1..Len(s) - n : back[i] = s[n + i]
  BY <1>1, SubSeqProperties
<1>3. RemoveAt(s, n) = front \o back
  BY DEF RemoveAt
<1> HIDE DEF front, back
<1>4. Len(front) = n - 1 /\ Len(back) = Len(s) - n
  BY <1>2
<1>5. /\ front \o back \in Seq(S)
      /\ Len(front \o back) = Len(front) + Len(back)
      /\ \A i \in 1..Len(front) + Len(back) :
           (front \o back)[i] = IF i <= Len(front) THEN front[i] ELSE back[i - Len(front)]
  BY <1>2, ConcatProperties
<1>6. Len(front \o back) = Len(s) - 1
  BY <1>1, <1>4, <1>5
<1>7. ASSUME n < Len(s)
      PROVE  Last(RemoveAt(s, n)) = Last(s) /\ RemoveAt(s, n) # <<>>
  <2>1. \A l, k \in Nat : 1 <= k /\ k < l =>
          /\ l - 1 \in 1..(k - 1) + (l - k) /\ ~(l - 1 <= k - 1)
          /\ l - 1 - (k - 1) = l - k /\ l - k \in 1..l - k /\ k + (l - k) = l
    OBVIOUS
  <2>2. (front \o back)[Len(s) - 1] = back[Len(s) - n]
    <3>1. /\ Len(s) - 1 \in 1..(n - 1) + (Len(s) - n) /\ ~(Len(s) - 1 <= n - 1)
          /\ Len(s) - 1 - (n - 1) = Len(s) - n
      BY <1>1, <1>7, <2>1
    <3> QED
      BY <1>4, <1>5, <3>1
  <2>3. back[Len(s) - n] = s[Len(s)]
    BY <1>1, <1>2, <1>7, <2>1
  <2>4. RemoveAt(s, n) # <<>>
    BY <1>1, <1>3, <1>6, <1>7, EmptySeq
  <2> QED
    BY <1>3, <1>6, <2>2, <2>3, <2>4 DEF Last
<1>8. n = Len(s) /\ n = 1 => RemoveAt(s, n) = <<>> /\ s[n] = Last(s) /\ s # <<>>
  BY <1>1, <1>3, <1>5, <1>6, EmptySeq DEF Last
<1> QED
  BY <1>3, <1>5, <1>7, <1>8

--------------------------------------------------------------------------------
(* The initial states.                                                     *)

LEMMA InitIInv == Init => IInv
<1> SUFFICES ASSUME Init PROVE IInv
  OBVIOUS
<1>1. TypeOK
  <2>1. /\ waiting \in Seq(NativeStatuses) /\ inbox \in Seq(Messages)
        /\ DOMAIN inbox = {}
    BY EmptySeq, LenProperties DEF Init
  <2>2. /\ status \in Statuses /\ button \in {"dead", "connect", "stop"}
        /\ handler \in [Handlers -> HandlerStates]
        /\ timers \in Nat /\ held = FALSE
        /\ native \in NativeStatuses /\ loading \in Nat
        /\ stale \in BOOLEAN /\ wanted \in {"any", "down"}
    BY DEF Init, Statuses, HandlerStates
  <2> QED
    BY <2>1, <2>2 DEF TypeOK, BlocTyped, StreamTyped
<1>2. NewsInv
  BY DEF Init, NewsInv
<1>3. StopInv /\ StopIsObeyed
  BY DEF Init, StopInv, StopIsObeyed
<1> QED
  BY <1>1, <1>2, <1>3 DEF IInv

--------------------------------------------------------------------------------
(* Types.                                                                  *)

\* What each kind of message looks like.
LEMMA MessagesTyped ==
  /\ \A s \in NativeStatuses : Event(s) \in Messages
  /\ \A h \in Handlers, ok \in BOOLEAN, call \in {"install", "start", "stop"} :
       Answer(h, call, ok) \in Messages
  BY DEF Event, Answer, Messages

\* What is on its way to the bloc keeps its type when a message m is added.
LEMMA InboxGrows ==
  ASSUME TypeOK, NEW m \in Messages, inbox' = Append(inbox, m),
         m.is = "status" => m.status \in NativeStatuses
  PROVE  /\ inbox' \in Seq(Messages)
         /\ \A n \in DOMAIN inbox' :
              inbox'[n].is = "status" => inbox'[n].status \in NativeStatuses
<1>1. inbox \in Seq(Messages)
  BY DEF TypeOK
<1> QED
  BY <1>1, Appended DEF TypeOK

\* And when the first one is taken.
LEMMA InboxShrinks ==
  ASSUME TypeOK, inbox # <<>>, inbox' = Tail(inbox)
  PROVE  /\ inbox' \in Seq(Messages)
         /\ \A n \in DOMAIN inbox' :
              inbox'[n].is = "status" => inbox'[n].status \in NativeStatuses
<1>1. inbox \in Seq(Messages)
  BY DEF TypeOK
<1> QED
  BY <1>1, Taken DEF TypeOK

\* The statuses the connection moves to are statuses.
LEMMA MovesTyped == \A s \in NativeStatuses : Moves[s] \subseteq NativeStatuses
  BY DEF NativeStatuses, Moves

\* Becomes keeps the types of what it changes.
LEMMA BecomesTyped ==
  ASSUME TypeOK, NEW s \in NativeStatuses, Becomes(s)
  PROVE  StreamTyped' /\ loading' > 0
<1>1. loading \in Nat /\ waiting \in Seq(NativeStatuses)
  BY DEF TypeOK, StreamTyped
<1>2. native' = s /\ loading' = loading + 1 /\ stale' = FALSE /\ waiting' = waiting
  BY DEF Becomes
<1>3. loading' \in Nat /\ loading' > 0
  BY <1>1, <1>2
<1> QED
  BY <1>1, <1>2, <1>3 DEF StreamTyped

\* The handlers and what they hold keep their types.
LEMMA BlocTypeStep == TypeOK /\ [Next]_vars => BlocTyped'
<1> SUFFICES ASSUME TypeOK, [Next]_vars PROVE BlocTyped'
  OBVIOUS
<1>1. CASE Build
  BY <1>1 DEF Build, ButtonFor, Busy, blocVars, TypeOK, BlocTyped, Statuses
<1>2. ASSUME NEW h \in Handlers,
             TapConnect(h) \/ TapStop(h) \/ ProfileSaved(h) \/ installProfile(h)
               \/ start(h) \/ stop(h) \/ Installed(h) \/ Started(h) \/ Stopped(h)
      PROVE  BlocTyped'
  <2> USE DEF TypeOK, BlocTyped, Goto, Statuses, HandlerStates
  <2>1. CASE TapConnect(h)
    BY <2>1 DEF TapConnect
  <2>2. CASE TapStop(h)
    <3>1. timers' \in Nat /\ held' = FALSE
      BY <2>2 DEF TapStop
    <3>2. wanted' \in {"any", "down"}
      BY <2>2 DEF TapStop
    <3>3. /\ status' = "stopping" /\ button' = button
          /\ handler' = [handler EXCEPT ![h] = "stop"]
      BY <2>2 DEF TapStop
    <3> QED
      BY <3>1, <3>2, <3>3
  <2>3. CASE ProfileSaved(h)
    BY <2>3 DEF ProfileSaved, blocVars
  <2>4. CASE installProfile(h)
    BY <2>4 DEF installProfile
  <2>5. CASE start(h)
    BY <2>5 DEF start
  <2>6. CASE stop(h)
    BY <2>6 DEF stop
  <2>7. CASE Installed(h)
    BY <2>7 DEF Installed, Message
  <2>8. CASE Started(h)
    <3>1. handler' \in [Handlers -> HandlerStates] /\ status' \in Statuses
      BY <2>8 DEF Started
    <3>2. timers' \in Nat /\ held' \in BOOLEAN /\ (held' => timers' >= 1)
      <4>1. CASE Head(inbox).ok
        BY <2>8, <4>1 DEF Started
      <4>2. CASE ~Head(inbox).ok
        BY <2>8, <4>2 DEF Started
      <4> QED
        BY <4>1, <4>2
    <3>3. button' = button /\ wanted' = wanted
      BY <2>8 DEF Started, Message
    <3> QED
      BY <3>1, <3>2, <3>3
  <2>9. CASE Stopped(h)
    BY <2>9 DEF Stopped, Message
  <2> QED
    BY <1>2, <2>1, <2>2, <2>3, <2>4, <2>5, <2>6, <2>7, <2>8, <2>9
<1>3. CASE NativeMoves
  BY <1>3 DEF NativeMoves, blocVars, TypeOK, BlocTyped
<1>4. CASE StatusRead \/ StatusReadFails \/ \E n \in DOMAIN waiting : EmitStatus(n)
  BY <1>4 DEF StatusRead, StatusReadFails, EmitStatus, blocVars, TypeOK, BlocTyped
<1>5. CASE NativeStatusChanged
  <2>1. mapNativeStatus(Head(inbox).status) \in Statuses
    <3>1. Head(inbox).is = "status" /\ inbox # <<>>
      BY <1>5 DEF NativeStatusChanged, Message
    <3>2. Head(inbox).status \in NativeStatuses
      BY <3>1, Taken DEF TypeOK
    <3> QED
      BY <3>2 DEF mapNativeStatus, NativeStatuses, Moves, Statuses
  <2> QED
    BY <1>5, <2>1 DEF NativeStatusChanged, Message, TypeOK, BlocTyped
<1>6. CASE UNCHANGED vars
  BY <1>6 DEF vars, blocVars, TypeOK, BlocTyped
<1> QED
  BY <1>1, <1>2, <1>3, <1>4, <1>5, <1>6 DEF Next

\* So do the connection and the status stream.
LEMMA StreamTypeStep == TypeOK /\ [Next]_vars => StreamTyped'
<1> SUFFICES ASSUME TypeOK, [Next]_vars PROVE StreamTyped'
  OBVIOUS
<1>1. CASE Build \/ NativeStatusChanged \/ UNCHANGED vars
  BY <1>1 DEF Build, NativeStatusChanged, Message, vars, streamVars, TypeOK, StreamTyped
<1>2. ASSUME NEW h \in Handlers,
             TapConnect(h) \/ TapStop(h) \/ installProfile(h)
               \/ Installed(h) \/ Started(h) \/ Stopped(h)
      PROVE  StreamTyped'
  BY <1>2 DEF TapConnect, TapStop, installProfile, Installed, Started, Stopped, Message,
              streamVars, TypeOK, StreamTyped
<1>3. ASSUME NEW h \in Handlers, ProfileSaved(h)
      PROVE  StreamTyped'
  BY <1>3, BecomesTyped DEF ProfileSaved, NativeStatuses, Moves
<1>4. ASSUME NEW h \in Handlers, start(h)
      PROVE  StreamTyped'
  <2>1. CASE Becomes("connecting")
    BY <2>1, BecomesTyped DEF NativeStatuses, Moves
  <2>2. CASE UNCHANGED <<streamVars, stale>>
    BY <2>2 DEF streamVars, TypeOK, StreamTyped
  <2> QED
    BY <1>4, <2>1, <2>2 DEF start
<1>5. ASSUME NEW h \in Handlers, stop(h)
      PROVE  StreamTyped'
  <2>1. CASE Becomes("disconnecting")
    BY <2>1, BecomesTyped DEF NativeStatuses, Moves
  <2>2. CASE UNCHANGED streamVars /\ stale' \in BOOLEAN
    BY <2>2 DEF streamVars, TypeOK, StreamTyped
  <2> QED
    BY <1>5, <2>1, <2>2 DEF stop, TypeOK, StreamTyped
<1>6. CASE NativeMoves
  <2>1. PICK s \in Moves[native] : Becomes(s)
    BY <1>6 DEF NativeMoves
  <2>2. s \in NativeStatuses
    BY <2>1, MovesTyped DEF TypeOK, StreamTyped
  <2> QED
    BY <2>1, <2>2, BecomesTyped
<1>7. CASE StatusRead
  BY <1>7, Appended DEF StatusRead, TypeOK, StreamTyped
<1>8. CASE StatusReadFails
  BY <1>8 DEF StatusReadFails, TypeOK, StreamTyped
<1>9. ASSUME NEW n \in DOMAIN waiting, EmitStatus(n)
      PROVE  StreamTyped'
  BY <1>9, Removed DEF EmitStatus, TypeOK, StreamTyped
<1> QED
  BY <1>1, <1>2, <1>3, <1>4, <1>5, <1>6, <1>7, <1>8, <1>9 DEF Next

\* And what is on its way to the bloc.
LEMMA TypeStep == TypeOK /\ [Next]_vars => TypeOK'
<1> SUFFICES ASSUME TypeOK, [Next]_vars
             PROVE  /\ inbox' \in Seq(Messages)
                    /\ \A n \in DOMAIN inbox' :
                         inbox'[n].is = "status" => inbox'[n].status \in NativeStatuses
  BY BlocTypeStep, StreamTypeStep DEF TypeOK
<1>1. ASSUME inbox' = inbox
      PROVE  /\ inbox' \in Seq(Messages)
             /\ \A n \in DOMAIN inbox' :
                  inbox'[n].is = "status" => inbox'[n].status \in NativeStatuses
  BY <1>1 DEF TypeOK
<1>2. ASSUME NEW h \in Handlers, installProfile(h) \/ start(h) \/ stop(h)
      PROVE  \E call \in {"install", "start", "stop"}, ok \in BOOLEAN :
               inbox' = Append(inbox, Answer(h, call, ok))
  BY <1>2 DEF installProfile, start, stop
<1>3. ASSUME NEW h \in Handlers, installProfile(h) \/ start(h) \/ stop(h)
      PROVE  /\ inbox' \in Seq(Messages)
             /\ \A n \in DOMAIN inbox' :
                  inbox'[n].is = "status" => inbox'[n].status \in NativeStatuses
  <2>1. PICK call \in {"install", "start", "stop"}, ok \in BOOLEAN :
               inbox' = Append(inbox, Answer(h, call, ok))
    BY <1>2, <1>3
  <2>2. Answer(h, call, ok) \in Messages /\ Answer(h, call, ok).is # "status"
    BY MessagesTyped DEF Answer
  <2> QED
    BY <2>1, <2>2, InboxGrows
<1>4. ASSUME NEW n \in DOMAIN waiting, EmitStatus(n)
      PROVE  /\ inbox' \in Seq(Messages)
             /\ \A i \in DOMAIN inbox' :
                  inbox'[i].is = "status" => inbox'[i].status \in NativeStatuses
  <2>1. waiting[n] \in NativeStatuses
    BY ElementOfSeq, LenProperties DEF TypeOK, StreamTyped
  <2>2. Event(waiting[n]) \in Messages /\ Event(waiting[n]).status \in NativeStatuses
    BY <2>1, MessagesTyped DEF Event
  <2> QED
    BY <1>4, <2>2, InboxGrows DEF EmitStatus
<1>5. ASSUME NEW call, NEW h, Message(call, h)
      PROVE  /\ inbox' \in Seq(Messages)
             /\ \A n \in DOMAIN inbox' :
                  inbox'[n].is = "status" => inbox'[n].status \in NativeStatuses
  BY <1>5, InboxShrinks DEF Message
<1>6. ASSUME Build \/ NativeMoves \/ StatusRead \/ StatusReadFails \/ UNCHANGED vars
               \/ \E h \in Handlers : TapConnect(h) \/ TapStop(h) \/ ProfileSaved(h)
      PROVE  inbox' = inbox
  BY <1>6 DEF Build, NativeMoves, StatusRead, StatusReadFails, TapConnect, TapStop,
              ProfileSaved, vars
<1>7. ASSUME NativeStatusChanged
               \/ \E h \in Handlers : Installed(h) \/ Started(h) \/ Stopped(h)
      PROVE  \E call, h : Message(call, h)
  BY <1>7 DEF NativeStatusChanged, Installed, Started, Stopped
<1> QED
  BY <1>1, <1>3, <1>4, <1>5, <1>6, <1>7 DEF Next

--------------------------------------------------------------------------------
(* A stop is obeyed.                                                       *)

\* What a step does to the handlers and to the connection, as far as the two
\* parts of the invariant about a stop can tell.
LEMMA StopStep ==
  TypeOK /\ StopInv /\ StopIsObeyed /\ [Next]_vars => StopInv' /\ StopIsObeyed'
<1> SUFFICES ASSUME TypeOK, StopInv, StopIsObeyed, [Next]_vars, wanted' = "down"
             PROVE  /\ ~StartInFlight'
                    /\ (\A h \in Handlers : handler'[h] # "stop") => native' \in Down
  BY DEF StopInv, StopIsObeyed
<1>1. handler \in [Handlers -> HandlerStates]
  BY DEF TypeOK, BlocTyped
<1>2. ASSUME UNCHANGED <<handler, wanted>>, native' = native
      PROVE  /\ ~StartInFlight'
             /\ (\A h \in Handlers : handler'[h] # "stop") => native' \in Down
  BY <1>2 DEF StopInv, StopIsObeyed, StartInFlight
<1>3. CASE \/ Build \/ StatusRead \/ StatusReadFails \/ NativeStatusChanged
           \/ UNCHANGED vars \/ \E n \in DOMAIN waiting : EmitStatus(n)
  BY <1>2, <1>3 DEF Build, StatusRead, StatusReadFails, NativeStatusChanged, Message,
                    EmitStatus, vars, blocVars, streamVars
<1>4. CASE NativeMoves
  <2>1. /\ handler' = handler /\ wanted = "down" /\ native # "disconnected"
        /\ native' \in Moves[native]
    BY <1>4 DEF NativeMoves, Becomes, blocVars
  <2>2. native \in Down => native' \in Down
    BY <2>1 DEF Down, Moves
  <2> QED
    BY <2>1, <2>2 DEF StopInv, StopIsObeyed, StartInFlight
<1>5. ASSUME NEW h \in Handlers, TapStop(h)
      PROVE  ~StartInFlight' /\ handler'[h] = "stop"
  BY <1>1, <1>5 DEF TapStop, Goto, StartInFlight
<1>6. ASSUME NEW h \in Handlers, stop(h)
      PROVE  ~StartInFlight' /\ native' \in Down
  <2>1. ~StartInFlight /\ handler' = [handler EXCEPT ![h] = "stopped"]
    BY <1>6 DEF stop, Goto, StopInv
  <2>2. native' \in Down
    BY <1>6 DEF stop, Becomes, streamVars, Down
  <2> QED
    BY <1>1, <2>1, <2>2 DEF StartInFlight
<1>7. ASSUME NEW h \in Handlers, Stopped(h)
      PROVE  /\ ~StartInFlight'
             /\ (\A g \in Handlers : handler'[g] # "stop") => native' \in Down
  <2>1. /\ wanted = "down" /\ native' = native
        /\ handler[h] = "stopped" /\ handler' = [handler EXCEPT ![h] = "idle"]
    BY <1>7 DEF Stopped, Message, Goto, streamVars
  <2> QED
    BY <1>1, <2>1 DEF StopInv, StopIsObeyed, StartInFlight
<1>8. ASSUME NEW h \in Handlers,
             TapConnect(h) \/ ProfileSaved(h) \/ installProfile(h) \/ start(h)
               \/ Installed(h) \/ Started(h)
      PROVE  FALSE
  <2>1. CASE TapConnect(h)
    BY <2>1 DEF TapConnect
  <2>2. CASE ProfileSaved(h) \/ installProfile(h)
    BY <2>2 DEF ProfileSaved, installProfile, StopInv, StartInFlight
  <2>3. CASE start(h)
    BY <2>3 DEF start, StopInv, StartInFlight
  <2>4. CASE Installed(h) \/ Started(h)
    BY <2>4 DEF Installed, Started, Message, StopInv, StartInFlight
  <2> QED
    BY <1>8, <2>1, <2>2, <2>3, <2>4
<1> QED
  BY <1>3, <1>4, <1>5, <1>6, <1>7, <1>8 DEF Next

--------------------------------------------------------------------------------
(* The news that reach the bloc.                                           *)

\* The part of NewsInv about the messages on their way to the bloc.
Told ==
  /\ \A n \in DOMAIN inbox : Fits(inbox[n]) \/ EventBehind(n)
  /\ Agrees \/ (\E h \in Handlers : handler[h] # "idle") \/ EventBehind(0)

\* A message that fits is added behind the others while its handler runs, or the
\* message is the event of the current status.
LEMMA ToldOnAppend ==
  ASSUME TypeOK, Told, NEW m \in Messages, inbox' = Append(inbox, m), native' = native,
         Fits(m), \E h \in Handlers : handler'[h] # "idle"
  PROVE  Told'
<1>1. inbox \in Seq(Messages)
  BY DEF TypeOK
<1>2. /\ \A n \in DOMAIN inbox : n \in DOMAIN inbox' /\ inbox'[n] = inbox[n]
      /\ \A n \in DOMAIN inbox' : n \in DOMAIN inbox \/ n = Len(inbox) + 1
      /\ inbox'[Len(inbox) + 1] = m
  BY <1>1, Appended
<1>3. \A k : Fits(k) => Fits(k)'
  BY DEF Fits
<1>4. \A n : EventBehind(n) => EventBehind(n)'
  BY <1>2 DEF EventBehind
<1> QED
  BY <1>2, <1>3, <1>4 DEF Told

LEMMA ToldOnEvent ==
  ASSUME TypeOK, inbox' = Append(inbox, Event(native')), native' \in NativeStatuses
  PROVE  Told'
<1>1. inbox \in Seq(Messages) /\ Event(native') \in Messages
  BY MessagesTyped DEF TypeOK
<1>2. /\ \A n \in DOMAIN inbox : n \in DOMAIN inbox' /\ inbox'[n] = inbox[n]
      /\ \A n \in DOMAIN inbox' : n \in DOMAIN inbox \/ n = Len(inbox) + 1
      /\ inbox'[Len(inbox) + 1] = Event(native')
      /\ Len(inbox) + 1 \in DOMAIN inbox'
      /\ Len(inbox) \in Nat /\ DOMAIN inbox = 1..Len(inbox)
  BY <1>1, Appended, LenProperties
<1>3. EventBehind(0)' /\ \A n \in DOMAIN inbox : EventBehind(n)'
  BY <1>2 DEF EventBehind, Event
<1>4. \A k : k = Event(native') => Fits(k)'
  BY DEF Fits, Event
<1> QED
  BY <1>2, <1>3, <1>4 DEF Told

\* The first message is taken: what it was either fits or is not the last event.
LEMMA ToldOnTake ==
  ASSUME TypeOK, Told, inbox # <<>>, inbox' = Tail(inbox), native' = native
  PROVE  /\ \A n \in DOMAIN inbox' : (Fits(inbox[n]) \/ EventBehind(n))'
         /\ Fits(Head(inbox)) \/ EventBehind(0)'
<1>1. inbox \in Seq(Messages)
  BY DEF TypeOK
<1>2. /\ 1 \in DOMAIN inbox /\ Head(inbox) = inbox[1]
      /\ \A n \in DOMAIN inbox' : n + 1 \in DOMAIN inbox /\ inbox'[n] = inbox[n + 1]
      /\ \A n \in DOMAIN inbox : n > 1 => n - 1 \in DOMAIN inbox'
      /\ DOMAIN inbox \subseteq Nat /\ DOMAIN inbox' \subseteq Nat
  BY <1>1, Taken, LenProperties
<1>3. \A k : Fits(k) => Fits(k)'
  BY DEF Fits
<1>4. \A n \in Nat : EventBehind(n + 1) => EventBehind(n)'
  <2> SUFFICES ASSUME NEW n \in Nat, EventBehind(n + 1) PROVE EventBehind(n)'
    OBVIOUS
  <2>1. PICK m \in DOMAIN inbox : n + 1 < m /\ inbox[m].is = "status"
    BY DEF EventBehind
  <2>2. m \in Nat /\ m > 1 /\ n < m - 1 /\ (m - 1) + 1 = m
    BY <1>2, <2>1
  <2>3. m - 1 \in DOMAIN inbox' /\ inbox'[m - 1] = inbox[m]
    BY <1>2, <2>2
  <2> QED
    BY <2>1, <2>2, <2>3 DEF EventBehind
<1>5. Fits(Head(inbox)) \/ EventBehind(0)'
  BY <1>2, <1>4 DEF Told
<1> QED
  BY <1>2, <1>3, <1>4, <1>5 DEF Told

\* NewsInv in two parts.
LEMMA NewsParts ==
  ASSUME NewsInv, ~stale, loading = 0
  PROVE  /\ waiting # <<>> => Last(waiting) = native
         /\ waiting = <<>> /\ native \notin Transitional => Told
  BY DEF NewsInv, Told

\* A step that leaves the stream alone and keeps what the bloc will be told.
LEMMA NewsKept ==
  ASSUME TypeOK, NewsInv, UNCHANGED streamVars, stale' = stale,
         Told /\ native \notin Transitional => Told'
  PROVE  NewsInv'
<1> SUFFICES ASSUME ~stale', loading' = 0
             PROVE  /\ waiting' # <<>> => Last(waiting)' = native'
                    /\ waiting' = <<>> /\ native' \notin Transitional => Told'
  BY DEF NewsInv, Told
<1>1. ~stale /\ loading = 0 /\ native' = native /\ waiting' = waiting
  BY DEF streamVars
<1> QED
  BY <1>1, NewsParts

\* The calls to the platform are answered ...
LEMMA NewsOnCall ==
  ASSUME TypeOK, NewsInv, NEW h \in Handlers,
         ProfileSaved(h) \/ installProfile(h) \/ start(h) \/ stop(h)
  PROVE  NewsInv'
<1>1. ASSUME NEW s, Becomes(s)
      PROVE  NewsInv'
  <2>1. loading' # 0
    BY <1>1 DEF Becomes, TypeOK, StreamTyped
  <2> QED
    BY <2>1 DEF NewsInv
<1>2. ASSUME NEW call \in {"install", "start", "stop"}, NEW ok \in BOOLEAN,
             inbox' = Append(inbox, Answer(h, call, ok)),
             UNCHANGED <<streamVars, stale>>, handler'[h] # "idle",
             native \notin Transitional => Fits(Answer(h, call, ok))
      PROVE  NewsInv'
  <2>1. Answer(h, call, ok) \in Messages
    BY MessagesTyped
  <2>2. UNCHANGED streamVars /\ stale' = stale /\ native' = native
    BY <1>2 DEF streamVars
  <2>3. ASSUME Told, native \notin Transitional PROVE Told'
    BY <1>2, <2>1, <2>2, <2>3, ToldOnAppend
  <2> QED
    BY <2>2, <2>3, NewsKept
<1>3. handler \in [Handlers -> HandlerStates] /\ native \in NativeStatuses
  BY DEF TypeOK, BlocTyped, StreamTyped
<1>4. CASE ProfileSaved(h)
  BY <1>1, <1>4 DEF ProfileSaved
<1>5. CASE installProfile(h)
  <2>1. PICK ok \in BOOLEAN : inbox' = Append(inbox, Answer(h, "install", ok))
    BY <1>5 DEF installProfile
  <2>2. Fits(Answer(h, "install", ok))
    BY DEF Fits, Answer
  <2>3. UNCHANGED <<streamVars, stale>> /\ handler'[h] = "installed"
    BY <1>3, <1>5 DEF installProfile, Goto
  <2> QED
    BY <1>2, <2>1, <2>2, <2>3
<1>6. CASE start(h)
  <2>1. handler'[h] = "started"
    BY <1>3, <1>6 DEF start, Goto
  <2>2. CASE Becomes("connecting")
    BY <1>1, <2>2
  <2>3. CASE /\ native \notin {"disconnected", "invalid"}
             /\ inbox' = Append(inbox, Answer(h, "start", TRUE))
             /\ UNCHANGED <<streamVars, stale>>
    <3>1. native \notin Transitional => Fits(Answer(h, "start", TRUE))
      BY <1>3, <2>3 DEF Fits, Answer, NativeStatuses, Moves, Transitional
    <3> QED
      BY <1>2, <2>1, <2>3, <3>1
  <2>4. CASE /\ inbox' = Append(inbox, Answer(h, "start", FALSE))
             /\ UNCHANGED <<streamVars, stale>>
    <3>1. Fits(Answer(h, "start", FALSE))
      BY DEF Fits, Answer
    <3> QED
      BY <1>2, <2>1, <2>4, <3>1
  <2> QED
    BY <1>6, <2>2, <2>3, <2>4 DEF start
<1>7. CASE stop(h)
  <2>1. handler'[h] = "stopped"
    BY <1>3, <1>7 DEF stop, Goto
  <2>2. CASE Becomes("disconnecting")
    BY <1>1, <2>2
  <2>3. CASE /\ native \in Down
             /\ inbox' = Append(inbox, Answer(h, "stop", TRUE))
             /\ UNCHANGED <<streamVars, stale>>
    <3>1. Fits(Answer(h, "stop", TRUE))
      BY <2>3 DEF Fits, Answer
    <3> QED
      BY <1>2, <2>1, <2>3, <3>1
  <2>4. CASE stale' = TRUE
    BY <2>4 DEF NewsInv
  <2> QED
    BY <1>7, <2>2, <2>3, <2>4 DEF stop
<1> QED
  BY <1>4, <1>5, <1>6, <1>7

\* ... the statuses are read and sent ...
LEMMA NewsOnStatus ==
  ASSUME TypeOK, NewsInv,
         StatusRead \/ StatusReadFails \/ \E n \in DOMAIN waiting : EmitStatus(n)
  PROVE  NewsInv'
<1> SUFFICES ASSUME ~stale', loading' = 0
             PROVE  /\ waiting' # <<>> => Last(waiting)' = native'
                    /\ waiting' = <<>> => Told'
  BY DEF NewsInv, Told
<1>1. loading \in Nat /\ waiting \in Seq(NativeStatuses) /\ native \in NativeStatuses
  BY DEF TypeOK, StreamTyped
<1>2. CASE StatusRead
  <2>1. waiting' = Append(waiting, native) /\ native' = native
    BY <1>2 DEF StatusRead
  <2>2. waiting' # <<>> /\ Last(Append(waiting, native)) = native
    BY <1>1, <2>1, Appended
  <2> QED
    BY <2>1, <2>2
<1>3. CASE StatusReadFails
  <2>1. loading = 1
    BY <1>1, <1>3 DEF StatusReadFails
  <2>2. stale'
    BY <1>3, <2>1 DEF StatusReadFails
  <2> QED
    BY <2>2
<1>4. ASSUME NEW n \in DOMAIN waiting, EmitStatus(n)
      PROVE  /\ waiting' # <<>> => Last(waiting)' = native'
             /\ waiting' = <<>> => Told'
  <2>1. /\ ~stale /\ loading = 0 /\ ~(n = Len(waiting) /\ n > 1)
        /\ native' = native /\ waiting' = RemoveAt(waiting, n)
        /\ inbox' = Append(inbox, Event(waiting[n]))
    BY <1>4 DEF EmitStatus
  <2>2. n \in Nat /\ 1 <= n /\ n <= Len(waiting) /\ Len(waiting) \in Nat /\ waiting # <<>>
    BY <1>1, LenProperties, EmptySeq
  <2>3. Last(waiting) = native
    BY <2>1, <2>2, NewsParts
  <2>4. CASE n < Len(waiting)
    BY <1>1, <2>1, <2>3, <2>4, Removed
  <2>5. CASE n = Len(waiting) /\ n = 1
    <3>1. waiting' = <<>> /\ waiting[n] = native
      BY <1>1, <2>1, <2>3, <2>5, Removed
    <3> QED
      BY <1>1, <2>1, <3>1, ToldOnEvent
  <2> QED
    BY <2>1, <2>2, <2>4, <2>5
<1> QED
  BY <1>2, <1>3, <1>4

\* ... and the bloc is told.
LEMMA NewsOnMessage ==
  ASSUME TypeOK, NewsInv,
         NativeStatusChanged \/ \E h \in Handlers : Installed(h) \/ Started(h) \/ Stopped(h)
  PROVE  NewsInv'
<1>1. PICK call, who : Message(call, who)
  BY DEF NativeStatusChanged, Installed, Started, Stopped
<1>2. /\ inbox # <<>> /\ inbox' = Tail(inbox) /\ UNCHANGED streamVars
      /\ stale' = stale /\ native' = native
  BY <1>1 DEF Message, streamVars
<1>3. native \in NativeStatuses /\ handler \in [Handlers -> HandlerStates]
  BY DEF TypeOK, BlocTyped, StreamTyped
<1> SUFFICES ASSUME Told, native \notin Transitional PROVE Told'
  BY <1>2, NewsKept
<1>4. /\ \A n \in DOMAIN inbox' : (Fits(inbox[n]) \/ EventBehind(n))'
      /\ Fits(Head(inbox)) \/ EventBehind(0)'
  BY <1>2, ToldOnTake
<1> SUFFICES ASSUME Fits(Head(inbox))
             PROVE  Agrees' \/ \E h \in Handlers : handler'[h] # "idle"
  BY <1>4 DEF Told
<1>5. CASE NativeStatusChanged
  BY <1>2, <1>5 DEF NativeStatusChanged, Message, Fits, Agrees
<1>6. ASSUME NEW h \in Handlers, Installed(h)
      PROVE  Agrees' \/ \E g \in Handlers : handler'[g] # "idle"
  <2>1. CASE Head(inbox).ok
    BY <1>3, <1>6, <2>1 DEF Installed, Goto
  <2>2. CASE ~Head(inbox).ok
    BY <1>6, <2>2 DEF Installed, Agrees
  <2> QED
    BY <2>1, <2>2
<1>7. ASSUME NEW h \in Handlers, Started(h)
      PROVE  Agrees'
  <2>1. CASE Head(inbox).ok
    BY <1>2, <1>7, <2>1 DEF Started, Message, Fits, Agrees, mapNativeStatus
  <2>2. CASE ~Head(inbox).ok
    BY <1>7, <2>2 DEF Started, Agrees
  <2> QED
    BY <2>1, <2>2
<1>8. ASSUME NEW h \in Handlers, Stopped(h)
      PROVE  Agrees'
  BY <1>2, <1>3, <1>8 DEF Stopped, Message, Fits, Agrees, mapNativeStatus, Down, Transitional
<1> QED
  BY <1>5, <1>6, <1>7, <1>8

LEMMA NewsStep == TypeOK /\ NewsInv /\ [Next]_vars => NewsInv'
<1> SUFFICES ASSUME TypeOK, NewsInv, [Next]_vars PROVE NewsInv'
  OBVIOUS
<1>1. handler \in [Handlers -> HandlerStates]
  BY DEF TypeOK, BlocTyped
<1>2. CASE Build \/ UNCHANGED vars
  <2>1. UNCHANGED <<status, handler, inbox, stale, streamVars, native>>
    BY <1>2 DEF Build, vars, blocVars, streamVars
  <2>2. Told => Told'
    BY <2>1 DEF Told, Fits, EventBehind, Agrees
  <2> QED
    BY <2>1, <2>2, NewsKept
<1>3. ASSUME NEW h \in Handlers, TapConnect(h) \/ TapStop(h)
      PROVE  NewsInv'
  <2>1. UNCHANGED <<inbox, stale, streamVars, native>> /\ handler'[h] # "idle"
    BY <1>1, <1>3 DEF TapConnect, TapStop, Goto, streamVars
  <2>2. Told => Told'
    BY <2>1 DEF Told, Fits, EventBehind
  <2> QED
    BY <2>1, <2>2, NewsKept
<1>4. CASE NativeMoves
  <2>1. loading' # 0
    BY <1>4 DEF NativeMoves, Becomes, TypeOK, StreamTyped
  <2> QED
    BY <2>1 DEF NewsInv
<1> QED
  BY <1>2, <1>3, <1>4, NewsOnCall, NewsOnStatus, NewsOnMessage DEF Next

--------------------------------------------------------------------------------
(* The theorems.                                                           *)

\* Every reachable state satisfies the inductive invariant, the types among its
\* parts, however many handlers overlap and messages are on their way.
THEOREM Inductive == Spec => []IInv
<1>1. Init => IInv
  BY InitIInv
<1>2. IInv /\ [Next]_vars => IInv'
  BY TypeStep, NewsStep, StopStep DEF IInv
<1> QED
  BY <1>1, <1>2, PTL DEF Spec

\* At rest the app shows what the VPN is (connection_bloc.dart, _onStarted,
\* _onStopped and _onNativeStatusChanged): a state that breaks SettledAgrees
\* would break NewsInv, for nothing is on its way to put it right.
THEOREM SettledAgreesHolds == Spec => []SettledAgrees
<1>1. IInv => SettledAgrees
  <2> SUFFICES ASSUME IInv, Settled, ~stale PROVE Agrees
    BY DEF SettledAgrees
  <2>1. ~EventBehind(0)
    BY LenProperties, EmptySeq DEF Settled, EventBehind
  <2> QED
    BY <2>1 DEF IInv, NewsInv, Settled
<1> QED
  BY <1>1, Inductive, PTL

\* A stop that is through has taken the tunnel down, whatever was on its way
\* when the button was tapped (VPNManager.stop behind _onStopped).
THEOREM StopIsObeyedHolds == Spec => []StopIsObeyed
<1>1. IInv => StopIsObeyed
  BY DEF IInv
<1> QED
  BY <1>1, Inductive, PTL

================================================================================
