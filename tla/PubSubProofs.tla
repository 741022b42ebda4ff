---------------------------- MODULE PubSubProofs ----------------------------
(* Theorems about PubSub, for every value of its constants.                *)
EXTENDS PubSub, FiniteSetTheorems, TLAPS

-----------------------------------------------------------------------------
(* Sequences of places in a log that grows.                                *)

LEMMA SeqGrows ==
  ASSUME NEW S, NEW T, S \subseteq T, NEW s \in Seq(S)
  PROVE  s \in Seq(T)
  OBVIOUS

\* What PUBLISH appends to.
LEMMA AppendPlace ==
  ASSUME NEW s \in Seq(Messages), NEW m \in Messages
  PROVE  /\ Append(s, m) \in Seq(Messages)
         /\ DOMAIN s = 1..Len(s) /\ DOMAIN Append(s, m) = 1..(Len(s) + 1)
         /\ \A i \in DOMAIN s : Append(s, m)[i] = s[i]
         /\ Append(s, m)[Len(s) + 1] = m /\ Len(s) \in Nat
  OBVIOUS

\* A lost connection keeps a prefix of its stream.
LEMMA PrefixType ==
  ASSUME NEW S, NEW s \in Seq(S), NEW n \in 0..Len(s)
  PROVE  /\ SubSeq(s, 1, n) \in Seq(S) /\ DOMAIN SubSeq(s, 1, n) = 1..n
         /\ 1..n \subseteq DOMAIN s
         /\ \A i \in 1..n : SubSeq(s, 1, n)[i] = s[i]
  OBVIOUS

-----------------------------------------------------------------------------
(* Type correctness.                                                       *)

SubscriberTypeOK ==
    /\ sub \in {"connect", "subscribe", "listen", "sleep", "ended"}
    /\ attempt \in 1..MaxAttempts /\ todo \subseteq Channels
    /\ conn \in {"none", "open", "broken"} /\ subs \subseteq Channels
    /\ stream \in Seq(DOMAIN log) /\ handled \in Seq(DOMAIN log)
    /\ due \subseteq DOMAIN log
    /\ conn = "none" => subs = {} /\ stream = <<>>

RedisTypeOK ==
    /\ up \in BOOLEAN /\ outages \in 0..MaxOutages
    /\ faults \in 0..MaxFaults /\ panics \in 0..MaxPanics

PublishersTypeOK ==
    /\ publish \in [Messages -> {"idle", "wait", "applied", "ok", "failed"}]
    /\ tries \in [Messages -> 0..MaxAttempts] /\ late \in [Messages -> Nat]

\* The parts of TypeOK that change together.
LEMMA TypeParts ==
  TypeOK <=> RedisTypeOK /\ PublishersTypeOK /\ SubscriberTypeOK /\ log \in Seq(Messages)
  BY DEF TypeOK, RedisTypeOK, PublishersTypeOK, SubscriberTypeOK

\* What an action leaves alone keeps its types.
LEMMA SubscriberUnchanged ==
  SubscriberTypeOK /\ UNCHANGED <<log, subscriber, due>> => SubscriberTypeOK'
  BY DEF SubscriberTypeOK, subscriber, connection

LEMMA PublishersUnchanged == PublishersTypeOK /\ UNCHANGED publishers => PublishersTypeOK'
  BY DEF PublishersTypeOK, publishers

LEMMA RedisUnchanged == RedisTypeOK /\ UNCHANGED redis => RedisTypeOK'
  BY DEF RedisTypeOK, redis

\* The faults of Redis and of the connection.
LEMMA FaultType == RedisTypeOK /\ Fault => RedisTypeOK'
  BY PubSubAssumption DEF RedisTypeOK, Fault

LEMMA FailureType == RedisTypeOK /\ Failure => RedisTypeOK'
  BY FaultType, RedisUnchanged DEF Failure

LEMMA LoseType ==
  ASSUME SubscriberTypeOK, Lose, UNCHANGED <<log, due>>
  PROVE  SubscriberTypeOK'
<1>1. CASE conn = "open"
  <2>1. PICK n \in 0..Len(stream) : stream' = SubSeq(stream, 1, n)
    BY <1>1 DEF Lose
  <2>2. stream' \in Seq(DOMAIN log)
    BY <2>1, PrefixType DEF SubscriberTypeOK
  <2> QED BY <1>1, <2>2 DEF Lose, SubscriberTypeOK
<1>2. CASE conn # "open"
  BY <1>2, SubscriberUnchanged DEF Lose
<1> QED BY <1>1, <1>2

\* A message that Redis publishes.
LEMMA RunType ==
  ASSUME TypeOK, NEW m \in Messages, Run(m)
  PROVE  log' \in Seq(Messages) /\ SubscriberTypeOK' /\ RedisTypeOK'
<1>1. /\ log' \in Seq(Messages) /\ DOMAIN log \subseteq DOMAIN log'
      /\ Len(log) + 1 \in DOMAIN log'
  <2>1. log \in Seq(Messages) /\ log' = Append(log, m)
    BY DEF TypeOK, Run
  <2> QED BY <2>1, AppendPlace
<1>2. stream \in Seq(DOMAIN log') /\ handled \in Seq(DOMAIN log')
  BY <1>1, SeqGrows DEF TypeOK
<1>3. stream' \in Seq(DOMAIN log') /\ due' \subseteq DOMAIN log'
  <2>1. Append(stream, Len(log) + 1) \in Seq(DOMAIN log')
    BY <1>1, <1>2
  <2> QED BY <1>1, <1>2, <2>1 DEF Run, TypeOK
<1>4. SubscriberTypeOK'
  BY <1>2, <1>3 DEF Run, TypeOK, SubscriberTypeOK
<1> QED BY <1>1, <1>4, RedisUnchanged, TypeParts DEF Run

\* The subscriber drops its connection.
LEMMA DropType ==
  ASSUME TypeOK, Drop
  PROVE  PublishersTypeOK' /\ SubscriberTypeOK' /\ log' \in Seq(Messages)
<1>1. PublishersTypeOK'
  BY PublishersUnchanged, TypeParts DEF Drop
<1> QED BY <1>1 DEF Drop, TypeOK, SubscriberTypeOK

\* No variable starts outside its type.
LEMMA TypeInit == Init => TypeOK
  BY PubSubAssumption DEF Init, TypeOK

LEMMA TypeStep == TypeOK /\ [Next]_vars => TypeOK'
<1> SUFFICES ASSUME TypeOK, [Next]_vars PROVE TypeOK'
  OBVIOUS
<1>0. RedisTypeOK /\ PublishersTypeOK /\ SubscriberTypeOK /\ log \in Seq(Messages)
  BY TypeParts
<1>a. ASSUME RedisTypeOK', PublishersTypeOK', SubscriberTypeOK', log' \in Seq(Messages)
      PROVE  TypeOK'
  BY <1>a DEF TypeOK, RedisTypeOK, PublishersTypeOK, SubscriberTypeOK
<1>1. CASE GoDown
  <2>1. up' \in BOOLEAN /\ outages' \in 0..MaxOutages
    <3>1. outages \in 0..MaxOutages /\ outages < MaxOutages
      BY <1>0, <1>1 DEF GoDown, RedisTypeOK
    <3>2. outages + 1 \in 0..MaxOutages
      BY <3>1, PubSubAssumption
    <3> QED BY <1>1, <3>2 DEF GoDown
  <2>2. RedisTypeOK'
    BY <1>0, <1>1, <2>1 DEF GoDown, RedisTypeOK
  <2> QED BY <1>0, <1>a, <1>1, <2>2, LoseType, PublishersUnchanged DEF GoDown
<1>2. CASE GoUp
  <2>1. RedisTypeOK'
    BY <1>0, <1>2 DEF GoUp, RedisTypeOK
  <2> QED BY <1>0, <1>a, <1>2, <2>1, SubscriberUnchanged, PublishersUnchanged DEF GoUp
<1>3. CASE Break
  BY <1>0, <1>a, <1>3, FaultType, LoseType, PublishersUnchanged DEF Break
<1>4. ASSUME NEW m \in Messages, Begin(m) PROVE TypeOK'
  <2>1. PublishersTypeOK'
    BY <1>0, <1>4, PubSubAssumption DEF Begin, PublishersTypeOK
  <2> QED BY <1>0, <1>a, <1>4, <2>1, RedisUnchanged, SubscriberUnchanged DEF Begin
<1>5. ASSUME NEW m \in Messages, Publish(m) PROVE TypeOK'
  <2>1. PublishersTypeOK'
    BY <1>0, <1>5 DEF Publish, Run, PublishersTypeOK
  <2> QED BY <1>a, <1>5, <2>1, RunType DEF Publish
<1>6. ASSUME NEW m \in Messages, LatePublish(m) PROVE TypeOK'
  <2>1. PublishersTypeOK'
    BY <1>0, <1>6 DEF LatePublish, Run, PublishersTypeOK
  <2> QED BY <1>a, <1>6, <2>1, RunType DEF LatePublish
<1>7. ASSUME NEW m \in Messages, PublishOk(m) PROVE TypeOK'
  <2>1. PublishersTypeOK'
    BY <1>0, <1>7 DEF PublishOk, PublishersTypeOK
  <2> QED BY <1>0, <1>a, <1>7, <2>1, RedisUnchanged, SubscriberUnchanged DEF PublishOk
<1>8. ASSUME NEW m \in Messages, PublishError(m) PROVE TypeOK'
  <2>1. late' \in [Messages -> Nat]
    BY <1>0, <1>8 DEF PublishError, PublishersTypeOK
  <2>2. publish' \in [Messages -> {"idle", "wait", "applied", "ok", "failed"}]
    BY <1>0, <1>8 DEF PublishError, PublishersTypeOK
  <2>3. tries' \in [Messages -> 0..MaxAttempts]
    <3>1. tries[m] < MaxAttempts => tries[m] + 1 \in 0..MaxAttempts
      BY <1>0, PubSubAssumption DEF PublishersTypeOK
    <3> QED BY <1>0, <1>8, <3>1 DEF PublishError, PublishersTypeOK
  <2>4. PublishersTypeOK'
    BY <2>1, <2>2, <2>3 DEF PublishersTypeOK
  <2> QED BY <1>0, <1>a, <1>8, <2>4, FailureType, SubscriberUnchanged DEF PublishError
<1>9. CASE Connect
  <2>1. SubscriberTypeOK'
    BY <1>0, <1>9 DEF Connect, SubscriberTypeOK
  <2> QED BY <1>0, <1>a, <1>9, <2>1, RedisUnchanged, PublishersUnchanged DEF Connect
<1>10. CASE ConnectError
  <2>1. attempt' \in 1..MaxAttempts /\ sub' \in {"connect", "sleep"}
    BY <1>0, <1>10, PubSubAssumption DEF ConnectError, SubscriberTypeOK
  <2>2. SubscriberTypeOK'
    BY <1>0, <1>10, <2>1 DEF ConnectError, SubscriberTypeOK, connection
  <2> QED BY <1>0, <1>a, <1>10, <2>2, FailureType, PublishersUnchanged DEF ConnectError
<1>11. ASSUME NEW ch \in Channels, Subscribe(ch) PROVE TypeOK'
  <2>1. SubscriberTypeOK'
    BY <1>0, <1>11 DEF Subscribe, SubscriberTypeOK
  <2> QED BY <1>0, <1>a, <1>11, <2>1, RedisUnchanged, PublishersUnchanged DEF Subscribe
<1>12. CASE SubscribeError
  BY <1>0, <1>a, <1>12, DropType, FaultType, RedisUnchanged DEF SubscribeError
<1>13. CASE Listen
  <2>1. SubscriberTypeOK'
    BY <1>0, <1>13 DEF Listen, SubscriberTypeOK, connection
  <2> QED BY <1>0, <1>a, <1>13, <2>1, RedisUnchanged, PublishersUnchanged DEF Listen
<1>14. CASE Handle
  <2>1. Tail(stream) \in Seq(DOMAIN log) /\ Head(stream) \in DOMAIN log
    BY <1>0, <1>14 DEF Handle, SubscriberTypeOK
  <2>2. Append(handled, Head(stream)) \in Seq(DOMAIN log)
    BY <1>0, <2>1 DEF SubscriberTypeOK
  <2>3. SubscriberTypeOK'
    BY <1>0, <1>14, <2>1, <2>2 DEF Handle, SubscriberTypeOK
  <2> QED BY <1>0, <1>a, <1>14, <2>3, RedisUnchanged, PublishersUnchanged DEF Handle
<1>15. CASE StreamEnd
  BY <1>0, <1>a, <1>15, DropType, RedisUnchanged DEF StreamEnd
<1>16. CASE Panic
  <2>1. RedisTypeOK' /\ SubscriberTypeOK'
    BY <1>0, <1>16, PubSubAssumption DEF Panic, RedisTypeOK, SubscriberTypeOK
  <2> QED BY <1>0, <1>a, <1>16, <2>1, PublishersUnchanged DEF Panic
<1>17. CASE Wake
  <2>1. SubscriberTypeOK'
    BY <1>0, <1>17, PubSubAssumption DEF Wake, SubscriberTypeOK, connection
  <2> QED BY <1>0, <1>a, <1>17, <2>1, RedisUnchanged, PublishersUnchanged DEF Wake
<1>18. CASE UNCHANGED vars
  BY <1>0, <1>a, <1>18, RedisUnchanged, PublishersUnchanged, SubscriberUnchanged DEF vars
<1> QED
  BY <1>1, <1>2, <1>3, <1>4, <1>5, <1>6, <1>7, <1>8, <1>9, <1>10, <1>11, <1>12,
     <1>13, <1>14, <1>15, <1>16, <1>17, <1>18 DEF Next

\* Every variable keeps its type, and a message is on its way to the callback
\* only while there is a connection (pubsub.rs subscribe_and_listen).
THEOREM PubSubTypeCorrect == Spec => []TypeOK
  BY TypeInit, TypeStep, PTL DEF Spec

-----------------------------------------------------------------------------
(* Order and number of the messages: the inductive invariant.              *)

LogPlaces(m) == {i \in DOMAIN log : log[i] = m}

Waiting(m) == IF publish[m] = "wait" THEN 1 ELSE 0

\* A message is in the log once at most for each attempt to publish it that is
\* neither under way nor left behind.
PublishedOncePerAttempt ==
    \A m \in Messages : Cardinality(LogPlaces(m)) + late[m] + Waiting(m) <= tries[m]

NotBefore == \A m \in Messages : publish[m] = "idle" => tries[m] = 0

\* What is on the connection comes after all that was handled.
HandledBefore ==
    \A i \in DOMAIN handled : \A k \in DOMAIN stream : handled[i] < stream[k]

OrderInv ==
    /\ TypeOK
    /\ NotBefore
    /\ PublishedOncePerAttempt
    /\ Increasing(handled) /\ Increasing(stream) /\ HandledBefore

\* The places of a message in the log are finitely many.
LEMMA PlacesFinite ==
  ASSUME NEW s \in Seq(Messages), NEW m
  PROVE  /\ IsFiniteSet({i \in DOMAIN s : s[i] = m})
         /\ Cardinality({i \in DOMAIN s : s[i] = m}) \in Nat
<1>1. IsFiniteSet(1..Len(s)) /\ DOMAIN s = 1..Len(s)
  BY FS_Interval
<1>2. {i \in DOMAIN s : s[i] = m} \in SUBSET (1..Len(s))
  BY <1>1
<1> QED BY <1>1, <1>2, FS_Subset, FS_CardinalityType

\* PUBLISH adds one place of its message.
LEMMA RunPlaces ==
  ASSUME TypeOK, NEW k \in Messages, Run(k), NEW m \in Messages
  PROVE  /\ Cardinality(LogPlaces(m)) \in Nat
         /\ Cardinality(LogPlaces(m)') =
              Cardinality(LogPlaces(m)) + IF m = k THEN 1 ELSE 0
<1>1. log \in Seq(Messages) /\ log' = Append(log, k)
  BY DEF TypeOK, Run
<1>2. /\ DOMAIN log = 1..Len(log) /\ DOMAIN log' = 1..(Len(log) + 1)
      /\ \A i \in DOMAIN log : log'[i] = log[i]
      /\ log'[Len(log) + 1] = k /\ Len(log) \in Nat
  BY <1>1, AppendPlace
<1>3. IsFiniteSet(LogPlaces(m)) /\ Cardinality(LogPlaces(m)) \in Nat
  BY <1>1, PlacesFinite DEF LogPlaces
<1>4. CASE m = k
  <2>1. LogPlaces(m)' = LogPlaces(m) \cup {Len(log) + 1} /\ Len(log) + 1 \notin LogPlaces(m)
    BY <1>2, <1>4 DEF LogPlaces
  <2> QED BY <1>3, <1>4, <2>1, FS_AddElement
<1>5. CASE m # k
  <2>1. LogPlaces(m)' = LogPlaces(m)
    BY <1>2, <1>5 DEF LogPlaces
  <2> QED BY <1>3, <1>5, <2>1
<1> QED BY <1>4, <1>5

\* A new place comes after all the others.
LEMMA AppendIncreasing ==
  ASSUME NEW n \in Nat, NEW s \in Seq(1..n), NEW p \in Nat, Increasing(s),
         \A i \in DOMAIN s : s[i] < p
  PROVE  Increasing(Append(s, p))
<1>1. /\ DOMAIN Append(s, p) = 1..(Len(s) + 1) /\ DOMAIN s = 1..Len(s) /\ Len(s) \in Nat
      /\ \A i \in DOMAIN s : Append(s, p)[i] = s[i]
      /\ Append(s, p)[Len(s) + 1] = p
  OBVIOUS
<1> SUFFICES ASSUME NEW i \in 1..(Len(s) + 1), NEW j \in 1..(Len(s) + 1), i < j
             PROVE  Append(s, p)[i] < Append(s, p)[j]
  BY <1>1 DEF Increasing
<1>2. i \in DOMAIN s
  BY <1>1
<1>3. CASE j <= Len(s)
  <2>1. j \in DOMAIN s
    BY <1>1, <1>3
  <2> QED BY <1>1, <1>2, <2>1 DEF Increasing
<1>4. CASE j = Len(s) + 1
  BY <1>1, <1>2, <1>4
<1>5. j <= Len(s) \/ j = Len(s) + 1
  <2>1. \A k \in Nat : \A h \in 1..(k + 1) : h <= k \/ h = k + 1
    OBVIOUS
  <2> QED BY <1>1, <2>1
<1> QED BY <1>3, <1>4, <1>5

\* The subscriber's part of the invariant, when only the stream gets shorter.
LEMMA ShorterStream ==
  ASSUME OrderInv, handled' = handled, stream' \in Seq(Nat),
         \E n \in 0..Len(stream) : DOMAIN stream' = 1..n
             /\ 1..n \subseteq DOMAIN stream /\ \A i \in 1..n : stream'[i] = stream[i]
  PROVE  Increasing(handled') /\ Increasing(stream') /\ HandledBefore'
  BY DEF OrderInv, Increasing, HandledBefore

\* The publishers' part of the invariant, when nobody publishes.
LEMMA NoPublish ==
  ASSUME OrderInv, UNCHANGED <<publishers, log>>
  PROVE  NotBefore' /\ PublishedOncePerAttempt'
  BY DEF OrderInv, publishers, NotBefore, PublishedOncePerAttempt, LogPlaces, Waiting

\* Losing the connection.
LEMMA LoseStep ==
  ASSUME OrderInv, TypeOK', Lose, UNCHANGED <<publishers, log>>
  PROVE  OrderInv'
<1>1. CASE conn = "open"
  <2>1. PICK n \in 0..Len(stream) : stream' = SubSeq(stream, 1, n)
    BY <1>1 DEF Lose
  <2>2. /\ stream \in Seq(DOMAIN log) /\ log \in Seq(Messages)
        /\ stream' \in Seq(DOMAIN log) /\ handled' = handled
    BY <1>1, <2>1, PrefixType DEF OrderInv, TypeOK, Lose
  <2>3. stream' \in Seq(Nat)
    <3>1. DOMAIN log \subseteq Nat
      BY <2>2
    <3> QED BY <2>2, <3>1, SeqGrows
  <2>4. /\ DOMAIN stream' = 1..n /\ 1..n \subseteq DOMAIN stream
        /\ \A i \in 1..n : stream'[i] = stream[i]
    BY <2>1, <2>2, PrefixType
  <2>5. Increasing(handled') /\ Increasing(stream') /\ HandledBefore'
    BY <2>1, <2>2, <2>3, <2>4, ShorterStream
  <2> QED BY <2>5, NoPublish DEF OrderInv
<1>2. CASE conn # "open"
  <2>1. UNCHANGED <<handled, stream>>
    BY <1>2 DEF Lose, subscriber, connection
  <2> QED BY <2>1, NoPublish DEF OrderInv, HandledBefore
<1> QED BY <1>1, <1>2

\* Redis runs PUBLISH for an attempt that is under way or left behind.
LEMMA RunStep ==
  ASSUME OrderInv, TypeOK', NEW k \in Messages, Run(k),
         NotBefore',
         \A m \in Messages :
            late'[m] + Waiting(m)' = late[m] + Waiting(m) - IF m = k THEN 1 ELSE 0
  PROVE  OrderInv'
<1>1. /\ log \in Seq(Messages) /\ stream \in Seq(DOMAIN log) /\ handled \in Seq(DOMAIN log)
      /\ DOMAIN log = 1..Len(log) /\ Len(log) \in Nat /\ handled' = handled
  BY AppendPlace DEF OrderInv, TypeOK, Run
<1>2. /\ \A i \in DOMAIN stream : stream[i] \in DOMAIN log /\ stream[i] < Len(log) + 1
      /\ \A i \in DOMAIN handled : handled[i] \in DOMAIN log /\ handled[i] < Len(log) + 1
  BY <1>1
<1>3. PublishedOncePerAttempt'
  <2> SUFFICES ASSUME NEW m \in Messages
               PROVE  Cardinality(LogPlaces(m)') + late'[m] + Waiting(m)' <= tries'[m]
    BY DEF PublishedOncePerAttempt
  <2>1. /\ Cardinality(LogPlaces(m)) \in Nat
        /\ Cardinality(LogPlaces(m)') =
             Cardinality(LogPlaces(m)) + IF m = k THEN 1 ELSE 0
    BY RunPlaces DEF OrderInv
  <2>2. /\ late[m] \in Nat /\ late'[m] \in Nat /\ tries[m] \in Nat
        /\ tries'[m] = tries[m] /\ Waiting(m) \in Nat /\ Waiting(m)' \in Nat
    BY PubSubAssumption DEF OrderInv, TypeOK, Run, Waiting
  <2>3. Cardinality(LogPlaces(m)) + late[m] + Waiting(m) <= tries[m]
    BY DEF OrderInv, PublishedOncePerAttempt
  <2>4. late'[m] + Waiting(m)' = late[m] + Waiting(m) - IF m = k THEN 1 ELSE 0
    OBVIOUS
  <2> QED BY <2>1, <2>2, <2>3, <2>4
<1>4. stream' = stream \/ stream' = Append(stream, Len(log) + 1)
  BY DEF Run
<1>5. CASE stream' = stream
  BY <1>1, <1>3, <1>5 DEF OrderInv, HandledBefore
<1>6. CASE stream' = Append(stream, Len(log) + 1)
  <2>1. Increasing(stream')
    BY <1>1, <1>2, <1>6, AppendIncreasing DEF OrderInv
  <2>2. /\ DOMAIN stream' = DOMAIN stream \cup {Len(stream) + 1}
        /\ \A i \in DOMAIN stream : stream'[i] = stream[i]
        /\ stream'[Len(stream) + 1] = Len(log) + 1
    BY <1>1, <1>6
  <2>3. HandledBefore'
    BY <1>1, <1>2, <2>2 DEF OrderInv, HandledBefore
  <2> QED BY <1>1, <1>3, <2>1, <2>3 DEF OrderInv
<1> QED BY <1>4, <1>5, <1>6

\* The callback gets the next message, or the message does not decode.
LEMMA HandleStep ==
  ASSUME OrderInv, TypeOK', Handle
  PROVE  OrderInv'
<1>1. /\ log \in Seq(Messages) /\ stream \in Seq(1..Len(log))
      /\ handled \in Seq(1..Len(log)) /\ Len(log) \in Nat
      /\ stream # <<>> /\ stream' = Tail(stream)
  BY AppendPlace DEF OrderInv, TypeOK, Handle
<1>2. /\ DOMAIN stream = 1..Len(stream) /\ Head(stream) = stream[1] /\ Len(stream) \in Nat
      /\ 1 \in DOMAIN stream /\ stream[1] \in 1..Len(log)
      /\ DOMAIN stream' = 1..(Len(stream) - 1)
      /\ \A i \in DOMAIN stream' : i + 1 \in DOMAIN stream /\ stream'[i] = stream[i + 1]
  BY <1>1
<1>3. Increasing(stream')
  <2> SUFFICES ASSUME NEW i \in DOMAIN stream', NEW j \in DOMAIN stream', i < j
               PROVE  stream'[i] < stream'[j]
    BY DEF Increasing
  <2>1. i + 1 < j + 1 /\ i + 1 \in DOMAIN stream /\ j + 1 \in DOMAIN stream
    BY <1>2
  <2> QED BY <1>2, <2>1 DEF OrderInv, Increasing
<1>4. NotBefore' /\ PublishedOncePerAttempt'
  BY NoPublish DEF Handle
<1>5. CASE handled' = handled
  <2>1. HandledBefore'
    BY <1>2, <1>5 DEF OrderInv, HandledBefore
  <2> QED BY <1>3, <1>4, <1>5, <2>1 DEF OrderInv
<1>6. CASE handled' = Append(handled, stream[1])
  <2>1. Increasing(handled')
    <3>1. \A i \in DOMAIN handled : handled[i] < stream[1]
      BY <1>2 DEF OrderInv, HandledBefore
    <3> QED BY <1>1, <1>2, <1>6, <3>1, AppendIncreasing DEF OrderInv
  <2>2. /\ DOMAIN handled' = DOMAIN handled \cup {Len(handled) + 1}
        /\ \A i \in DOMAIN handled : handled'[i] = handled[i]
        /\ handled'[Len(handled) + 1] = stream[1]
    BY <1>1, <1>2, <1>6
  <2>3. \A k \in DOMAIN stream' : stream[1] < stream'[k]
    <3> SUFFICES ASSUME NEW k \in DOMAIN stream' PROVE stream[1] < stream'[k]
      OBVIOUS
    <3>1. 1 < k + 1 /\ k + 1 \in DOMAIN stream /\ stream'[k] = stream[k + 1]
      BY <1>2
    <3> QED BY <1>2, <3>1 DEF OrderInv, Increasing
  <2>4. HandledBefore'
    BY <1>2, <2>2, <2>3 DEF OrderInv, HandledBefore
  <2> QED BY <1>3, <1>4, <2>1, <2>4 DEF OrderInv
<1> QED BY <1>2, <1>5, <1>6 DEF Handle

\* An attempt fails and leaves its request behind, or another one begins.
LEMMA PublishErrorStep ==
  ASSUME OrderInv, TypeOK', NEW k \in Messages, PublishError(k)
  PROVE  OrderInv'
<1>1. /\ publish \in [Messages -> {"idle", "wait", "applied", "ok", "failed"}]
      /\ tries \in [Messages -> 0..MaxAttempts] /\ late \in [Messages -> Nat]
      /\ publish[k] \in {"wait", "applied"} /\ log' = log
  BY DEF OrderInv, TypeOK, PublishError
<1>2. \/ late' = late
      \/ publish[k] = "wait" /\ late' = [late EXCEPT ![k] = @ + 1]
  BY DEF PublishError
<1>3. \/ /\ tries' = [tries EXCEPT ![k] = @ + 1]
         /\ publish' = [publish EXCEPT ![k] = "wait"]
      \/ publish' = [publish EXCEPT ![k] = "failed"] /\ tries' = tries
  BY DEF PublishError
<1>4. PublishedOncePerAttempt'
  <2> SUFFICES ASSUME NEW m \in Messages
               PROVE  Cardinality(LogPlaces(m)') + late'[m] + Waiting(m)' <= tries'[m]
    BY DEF PublishedOncePerAttempt
  <2>1. LogPlaces(m)' = LogPlaces(m)
    BY <1>1 DEF LogPlaces
  <2>2. Cardinality(LogPlaces(m)) \in Nat
    BY PlacesFinite DEF OrderInv, TypeOK, LogPlaces
  <2>3. Cardinality(LogPlaces(m)) + late[m] + Waiting(m) <= tries[m]
    BY DEF OrderInv, PublishedOncePerAttempt
  <2>4. late'[m] + Waiting(m)' - tries'[m] <= late[m] + Waiting(m) - tries[m]
    <3>1. CASE m = k
      BY <1>1, <1>2, <1>3, <3>1 DEF Waiting
    <3>2. CASE m # k
      BY <1>1, <1>2, <1>3, <3>2 DEF Waiting
    <3> QED BY <3>1, <3>2
  <2>5. /\ late[m] \in Nat /\ late'[m] \in Nat /\ tries[m] \in Nat /\ tries'[m] \in Nat
        /\ Waiting(m) \in Nat /\ Waiting(m)' \in Nat
    BY PubSubAssumption DEF OrderInv, TypeOK, Waiting
  <2> QED BY <2>1, <2>2, <2>3, <2>4, <2>5
<1>5. NotBefore'
  BY <1>1, <1>3 DEF OrderInv, NotBefore
<1>6. UNCHANGED <<handled, stream>>
  BY DEF PublishError, subscriber, connection
<1> QED BY <1>4, <1>5, <1>6 DEF OrderInv, HandledBefore

\* Nothing has been published before the start.
LEMMA OrderInit == Init => OrderInv
<1> SUFFICES ASSUME Init PROVE OrderInv
  OBVIOUS
<1>1. TypeOK
  BY TypeInit
<1>2. ASSUME NEW m \in Messages
      PROVE  Cardinality(LogPlaces(m)) + late[m] + Waiting(m) <= tries[m]
  <2>1. LogPlaces(m) = {}
    BY DEF Init, LogPlaces
  <2>2. Cardinality(LogPlaces(m)) = 0
    BY <2>1, FS_EmptySet
  <2> QED BY <2>2 DEF Init, Waiting
<1>3. Increasing(handled) /\ Increasing(stream) /\ HandledBefore /\ NotBefore
  BY DEF Init, Increasing, HandledBefore, NotBefore
<1> QED BY <1>1, <1>2, <1>3 DEF OrderInv, PublishedOncePerAttempt

\* No step reorders, repeats or adds a message without an attempt.
LEMMA OrderStep == OrderInv /\ [Next]_vars => OrderInv'
<1> SUFFICES ASSUME OrderInv, [Next]_vars PROVE OrderInv'
  OBVIOUS
<1>0. /\ TypeOK /\ TypeOK'
      /\ publish \in [Messages -> {"idle", "wait", "applied", "ok", "failed"}]
      /\ tries \in [Messages -> 0..MaxAttempts] /\ late \in [Messages -> Nat]
  BY TypeStep DEF OrderInv, TypeOK
<1>a. ASSUME UNCHANGED <<publishers, log, handled>>, stream' = stream \/ stream' = <<>>
      PROVE  OrderInv'
  <2>1. Increasing(handled') /\ Increasing(stream') /\ HandledBefore'
    BY <1>a DEF OrderInv, Increasing, HandledBefore
  <2> QED BY <1>0, <1>a, <2>1, NoPublish DEF OrderInv
<1>1. CASE GoDown
  BY <1>0, <1>1, LoseStep DEF GoDown
<1>2. CASE Break
  BY <1>0, <1>2, LoseStep DEF Break
<1>3. ASSUME NEW k \in Messages, Begin(k) PROVE OrderInv'
  <2>1. /\ publish[k] = "idle" /\ tries[k] = 0 /\ UNCHANGED <<late, log, handled, stream>>
        /\ publish' = [publish EXCEPT ![k] = "wait"] /\ tries' = [tries EXCEPT ![k] = 1]
    BY <1>3 DEF Begin, OrderInv, NotBefore, subscriber, connection
  <2>2. PublishedOncePerAttempt'
    <3> SUFFICES ASSUME NEW m \in Messages
                 PROVE  Cardinality(LogPlaces(m)') + late'[m] + Waiting(m)' <= tries'[m]
      BY DEF PublishedOncePerAttempt
    <3>a. log \in Seq(Messages)
      BY <1>0 DEF TypeOK
    <3>b. LogPlaces(m)' = LogPlaces(m) /\ Cardinality(LogPlaces(m)) \in Nat
      BY <2>1, <3>a, PlacesFinite DEF LogPlaces
    <3>1. /\ LogPlaces(m)' = LogPlaces(m) /\ late'[m] = late[m] /\ late[m] \in Nat
          /\ Cardinality(LogPlaces(m)) \in Nat /\ tries[m] \in Nat
      BY <1>0, <2>1, <3>b, PubSubAssumption
    <3>2. Cardinality(LogPlaces(m)) + late[m] + Waiting(m) <= tries[m]
      BY DEF OrderInv, PublishedOncePerAttempt
    <3>3. CASE m = k
      BY <1>0, <2>1, <3>1, <3>2, <3>3 DEF Waiting
    <3>4. CASE m # k
      BY <1>0, <2>1, <3>1, <3>2, <3>4 DEF Waiting
    <3> QED BY <3>3, <3>4
  <2>3. NotBefore'
    BY <1>0, <2>1 DEF OrderInv, NotBefore
  <2> QED BY <1>0, <2>1, <2>2, <2>3 DEF OrderInv, HandledBefore
<1>4. ASSUME NEW k \in Messages, Publish(k) PROVE OrderInv'
  <2>1. NotBefore'
    BY <1>0, <1>4 DEF Publish, Run, OrderInv, NotBefore
  <2>2. ASSUME NEW m \in Messages
        PROVE  late'[m] + Waiting(m)' = late[m] + Waiting(m) - IF m = k THEN 1 ELSE 0
    BY <1>0, <1>4 DEF Publish, Waiting
  <2> QED BY <1>0, <1>4, <2>1, <2>2, RunStep DEF Publish
<1>5. ASSUME NEW k \in Messages, LatePublish(k) PROVE OrderInv'
  <2>1. NotBefore'
    BY <1>0, <1>5 DEF LatePublish, Run, OrderInv, NotBefore
  <2>2. ASSUME NEW m \in Messages
        PROVE  late'[m] + Waiting(m)' = late[m] + Waiting(m) - IF m = k THEN 1 ELSE 0
    BY <1>0, <1>5 DEF LatePublish, Waiting
  <2> QED BY <1>0, <1>5, <2>1, <2>2, RunStep DEF LatePublish
<1>6. ASSUME NEW k \in Messages, PublishOk(k) PROVE OrderInv'
  <2>1. /\ publish[k] = "applied" /\ UNCHANGED <<tries, late, log, handled, stream>>
        /\ publish' = [publish EXCEPT ![k] = "ok"]
    BY <1>6 DEF PublishOk, subscriber, connection
  <2>2. \A m \in Messages : Waiting(m)' = Waiting(m) /\ LogPlaces(m)' = LogPlaces(m)
    BY <1>0, <2>1 DEF Waiting, LogPlaces
  <2>3. NotBefore' /\ PublishedOncePerAttempt'
    BY <1>0, <2>1, <2>2 DEF OrderInv, NotBefore, PublishedOncePerAttempt
  <2> QED BY <1>0, <2>1, <2>3 DEF OrderInv, HandledBefore
<1>7. CASE \/ GoUp \/ Connect \/ ConnectError \/ \E ch \in Channels : Subscribe(ch)
           \/ SubscribeError \/ Listen \/ StreamEnd \/ Panic \/ Wake \/ UNCHANGED vars
  <2>1. UNCHANGED <<publishers, log, handled>> /\ (stream' = stream \/ stream' = <<>>)
    BY <1>7 DEF GoUp, Connect, ConnectError, Subscribe, SubscribeError, Listen,
                StreamEnd, Panic, Wake, Drop, vars, subscriber, connection
  <2> QED BY <1>a, <2>1
<1> QED
  BY <1>0, <1>1, <1>2, <1>3, <1>4, <1>5, <1>6, <1>7, HandleStep, PublishErrorStep
     DEF Next

\* The handled copies of a message are at different places in the log.
LEMMA HandledPlaces ==
  ASSUME OrderInv, NEW m \in Messages
  PROVE  Cardinality({i \in DOMAIN handled : log[handled[i]] = m}) <= tries[m]
<1> DEFINE places == {i \in DOMAIN handled : log[handled[i]] = m}
           f == [i \in places |-> handled[i]]
<1>1. /\ handled \in Seq(DOMAIN log) /\ log \in Seq(Messages) /\ DOMAIN log \subseteq Nat
      /\ DOMAIN handled \subseteq Nat
      /\ \A i \in DOMAIN handled : handled[i] \in DOMAIN log
  <2>1. handled \in Seq(DOMAIN log) /\ log \in Seq(Messages)
    BY DEF OrderInv, TypeOK
  <2>2. DOMAIN log \subseteq Nat
    BY <2>1
  <2> QED BY <2>1, <2>2
<1>2. IsFiniteSet(LogPlaces(m)) /\ Cardinality(LogPlaces(m)) \in Nat
  BY <1>1, PlacesFinite DEF LogPlaces
<1>3. f \in Injection(places, LogPlaces(m))
  <2>1. f \in [places -> LogPlaces(m)]
    BY <1>1 DEF LogPlaces
  <2>2. \A i, j \in places : f[i] = f[j] => i = j
    <3> SUFFICES ASSUME NEW i \in places, NEW j \in places, i # j
                 PROVE  handled[i] # handled[j]
      OBVIOUS
    <3>1. i < j \/ j < i
      BY <1>1
    <3>2. handled[i] < handled[j] \/ handled[j] < handled[i]
      BY <3>1 DEF OrderInv, Increasing
    <3> QED BY <1>1, <3>2
  <2> QED BY <2>1, <2>2 DEF Injection, IsInjective
<1> HIDE DEF f, places
<1>4. IsFiniteSet(places) /\ Cardinality(places) <= Cardinality(LogPlaces(m))
  BY <1>2, <1>3, FS_Injection
<1>5. Cardinality(LogPlaces(m)) + late[m] + Waiting(m) <= tries[m]
  BY DEF OrderInv, PublishedOncePerAttempt
<1>6. /\ Cardinality(places) \in Nat /\ late[m] \in Nat /\ tries[m] \in Nat
      /\ Waiting(m) \in Nat
  BY <1>4, FS_CardinalityType, PubSubAssumption DEF OrderInv, TypeOK, Waiting
<1>7. Cardinality(places) <= tries[m]
  BY <1>2, <1>4, <1>5, <1>6
<1> QED BY <1>7 DEF places

\* What was handled, followed by what is on the connection, is in order.
LEMMA InOrder ==
  ASSUME OrderInv
  PROVE  Increasing(handled \o stream)
<1>1. /\ handled \in Seq(Nat) /\ stream \in Seq(Nat)
  <2>1. /\ handled \in Seq(DOMAIN log) /\ stream \in Seq(DOMAIN log)
        /\ DOMAIN log \subseteq Nat
    BY AppendPlace DEF OrderInv, TypeOK
  <2> QED BY <2>1, SeqGrows
<1> DEFINE s == handled \o stream
           n == Len(handled)
<1>2. /\ n \in Nat /\ Len(stream) \in Nat /\ DOMAIN s = 1..(n + Len(stream))
      /\ DOMAIN handled = 1..n /\ DOMAIN stream = 1..Len(stream)
      /\ \A i \in 1..n : s[i] = handled[i]
      /\ \A i \in DOMAIN s : i > n => i - n \in DOMAIN stream /\ s[i] = stream[i - n]
  BY <1>1
<1> SUFFICES ASSUME NEW i \in DOMAIN s, NEW j \in DOMAIN s, i < j
             PROVE  s[i] < s[j]
  BY DEF Increasing
<1> HIDE DEF s, n
<1>3. CASE j <= n
  <2>1. i \in DOMAIN handled /\ j \in DOMAIN handled
    BY <1>2, <1>3
  <2> QED BY <1>2, <2>1 DEF OrderInv, Increasing
<1>4. CASE i <= n /\ j > n
  <2>1. i \in DOMAIN handled /\ j - n \in DOMAIN stream
    BY <1>2, <1>4
  <2> QED BY <1>2, <1>4, <2>1 DEF OrderInv, HandledBefore
<1>5. CASE i > n
  <2>1. /\ i - n \in DOMAIN stream /\ j - n \in DOMAIN stream /\ i - n < j - n
        /\ s[i] = stream[i - n] /\ s[j] = stream[j - n]
    BY <1>2, <1>5
  <2> QED BY <2>1 DEF OrderInv, Increasing
<1> QED BY <1>2, <1>3, <1>4, <1>5

\* The callback gets the publications in Redis's order, each of them once and
\* no message more often than it was attempted to be published, through any
\* number of retries, outages and reconnections.
THEOREM CallbackInOrderOncePerAttempt == Spec => []InOrderOncePerAttempt
<1>1. OrderInv => InOrderOncePerAttempt
  BY InOrder, HandledPlaces DEF InOrderOncePerAttempt
<1> QED BY <1>1, OrderInit, OrderStep, PTL DEF Spec

-----------------------------------------------------------------------------
(* What the subscriber gets while it listens.                              *)

Has(s, x) == \E n \in DOMAIN s : s[n] = x

\* What is appended to a sequence joins what it has.
LEMMA AppendHas ==
  ASSUME NEW S, NEW s \in Seq(S), NEW y \in S
  PROVE  Has(Append(s, y), y) /\ \A x : Has(s, x) => Has(Append(s, y), x)
<1>1. /\ DOMAIN Append(s, y) = DOMAIN s \cup {Len(s) + 1}
      /\ \A n \in DOMAIN s : Append(s, y)[n] = s[n]
      /\ Append(s, y)[Len(s) + 1] = y
  OBVIOUS
<1> QED BY <1>1 DEF Has

\* What a sequence has is its head or in its tail.
LEMMA TailHas ==
  ASSUME NEW S, NEW s \in Seq(S), s # <<>>, NEW x, Has(s, x)
  PROVE  x = Head(s) \/ Has(Tail(s), x)
<1>1. /\ Head(s) = s[1] /\ Len(s) \in Nat /\ DOMAIN s = 1..Len(s)
      /\ DOMAIN Tail(s) = 1..(Len(s) - 1)
      /\ \A n \in DOMAIN Tail(s) : Tail(s)[n] = s[n + 1]
  OBVIOUS
<1>2. PICK n \in DOMAIN s : s[n] = x
  BY DEF Has
<1>3. CASE n # 1
  <2>1. n - 1 \in DOMAIN Tail(s) /\ Tail(s)[n - 1] = x
    BY <1>1, <1>2, <1>3
  <2> QED BY <2>1 DEF Has
<1> QED BY <1>1, <1>2, <1>3

\* What is due has been handled, or will be, or does not decode.
Arrives(i) == log[i] \in Garbled \/ Has(handled, i) \/ Has(stream, i)

\* A subscriber listens once it has asked for all channels, and a connection that
\* holds carries those it has asked for.
Subscribed ==
    /\ sub = "listen" => todo = {}
    /\ conn = "open" => sub \in {"subscribe", "listen"} /\ Channels = subs \cup todo

MissInv == TypeOK /\ Subscribed /\ NothingMissed

\* NothingMissed in terms of Arrives.
LEMMA MissedArrives == NothingMissed <=> (conn = "open" => \A i \in due : Arrives(i))
  BY DEF NothingMissed, Arrives, Has

\* A message is sent on the connection of a subscriber that listens.
LEMMA RunReaches ==
  ASSUME MissInv, NEW m \in Messages, Run(m)
  PROVE  Subscribed' /\ NothingMissed'
<1>1. /\ log \in Seq(Messages) /\ log' = Append(log, m) /\ due \subseteq DOMAIN log
      /\ stream \in Seq(DOMAIN log) /\ ChannelOf[m] \in Channels
      /\ UNCHANGED <<sub, todo, conn, subs, handled>>
  BY PubSubAssumption DEF MissInv, TypeOK, Run
<1>2. /\ \A i \in due : log'[i] = log[i]
      /\ stream \in Seq(Nat) /\ Len(log) + 1 \in Nat
  <2>1. /\ \A i \in DOMAIN log : log'[i] = log[i]
        /\ DOMAIN log \subseteq Nat /\ Len(log) + 1 \in Nat
    BY <1>1, AppendPlace
  <2> QED BY <1>1, <2>1, SeqGrows
<1>3. Subscribed'
  BY <1>1 DEF MissInv, Subscribed
<1>4. ASSUME conn = "open" PROVE \A i \in due' : Arrives(i)'
  <2>1. \A i \in due : Arrives(i)
    BY <1>4, MissedArrives DEF MissInv
  <2>2. stream' = stream \/ stream' = Append(stream, Len(log) + 1)
    BY DEF Run
  <2>3. \A i : Has(stream, i) => Has(stream', i)
    <3>1. \A i : Has(stream, i) => Has(Append(stream, Len(log) + 1), i)
      BY <1>2, AppendHas
    <3> QED BY <2>2, <3>1
  <2>4. \A i \in due : Arrives(i)'
    BY <1>1, <1>2, <2>1, <2>3 DEF Arrives
  <2>5. CASE sub = "listen"
    <3>1. stream' = Append(stream, Len(log) + 1) /\ due' = due \cup {Len(log) + 1}
      BY <1>1, <1>4, <2>5 DEF Run, MissInv, Subscribed
    <3>2. Has(stream', Len(log) + 1)
      BY <1>2, <3>1, AppendHas
    <3> QED BY <2>4, <3>1, <3>2 DEF Arrives
  <2>6. CASE sub # "listen"
    BY <2>4, <2>6 DEF Run
  <2> QED BY <2>5, <2>6
<1>5. NothingMissed'
  BY <1>1, <1>4 DEF NothingMissed, Arrives, Has
<1> QED BY <1>3, <1>5

\* The callback gets the first message, or it does not decode.
LEMMA HandleReaches ==
  ASSUME MissInv, Handle
  PROVE  Subscribed' /\ NothingMissed'
<1>1. /\ stream # <<>> /\ stream \in Seq(DOMAIN log) /\ handled \in Seq(DOMAIN log)
      /\ stream' = Tail(stream) /\ UNCHANGED <<log, sub, todo, conn, subs, due>>
      /\ handled' = IF log[Head(stream)] \in Garbled
                    THEN handled ELSE Append(handled, Head(stream))
  BY DEF MissInv, TypeOK, Handle
<1>2. Subscribed'
  BY <1>1 DEF MissInv, Subscribed
<1>3. Head(stream) \in DOMAIN log
  BY <1>1
<1>4. \A i : Has(handled, i) => Has(handled', i)
  BY <1>1, <1>3, AppendHas
<1>5. \A i : Has(stream, i) /\ log[i] \notin Garbled => Has(handled', i) \/ Has(stream', i)
  BY <1>1, <1>3, AppendHas, TailHas
<1>6. conn = "open" => \A i \in due : Arrives(i)'
  BY <1>1, <1>4, <1>5, MissedArrives DEF MissInv, Arrives
<1>7. NothingMissed'
  BY <1>1, <1>6 DEF NothingMissed, Arrives, Has
<1> QED BY <1>2, <1>7

\* No step of a publisher, of Redis or of the subscriber loses what is due.
LEMMA MissStep == MissInv /\ [Next]_vars => MissInv'
<1> SUFFICES ASSUME MissInv, [Next]_vars PROVE Subscribed' /\ NothingMissed'
  BY TypeStep DEF MissInv
<1>1. ASSUME UNCHANGED <<log, sub, todo, conn, subs, stream, handled, due>>
      PROVE  Subscribed' /\ NothingMissed'
  BY <1>1 DEF MissInv, Subscribed, NothingMissed
<1>2. ASSUME conn' # "open", sub' # "listen" \/ UNCHANGED <<sub, todo>>
      PROVE  Subscribed' /\ NothingMissed'
  BY <1>2 DEF MissInv, Subscribed, NothingMissed
<1>3. CASE GoUp \/ UNCHANGED vars
  BY <1>1, <1>3 DEF GoUp, vars, subscriber, connection
<1>4. CASE GoDown \/ Break
  <2>1. CASE conn = "open"
    BY <1>2, <1>4, <2>1 DEF GoDown, Break, Lose
  <2>2. CASE conn # "open"
    BY <1>1, <1>4, <2>2 DEF GoDown, Break, Lose, subscriber, connection
  <2> QED BY <2>1, <2>2
<1>5. ASSUME NEW m \in Messages, Begin(m) \/ PublishOk(m) \/ PublishError(m)
      PROVE  Subscribed' /\ NothingMissed'
  BY <1>1, <1>5 DEF Begin, PublishOk, PublishError, subscriber, connection
<1>6. ASSUME NEW m \in Messages, Publish(m) \/ LatePublish(m)
      PROVE  Subscribed' /\ NothingMissed'
  BY <1>6, RunReaches DEF Publish, LatePublish
<1>7. CASE Connect
  BY <1>7 DEF Connect, Subscribed, NothingMissed
<1>8. CASE ConnectError
  BY <1>8 DEF ConnectError, MissInv, Subscribed, NothingMissed, connection
<1>9. ASSUME NEW ch \in Channels, Subscribe(ch) PROVE Subscribed' /\ NothingMissed'
  BY <1>9 DEF Subscribe, MissInv, Subscribed, NothingMissed
<1>10. CASE SubscribeError \/ StreamEnd \/ Panic
  BY <1>2, <1>10 DEF SubscribeError, StreamEnd, Panic, Drop
<1>11. CASE Listen \/ Wake
  BY <1>11 DEF Listen, Wake, MissInv, Subscribed, NothingMissed, connection
<1> QED
  BY <1>3, <1>4, <1>5, <1>6, <1>7, <1>8, <1>9, <1>10, <1>11, HandleReaches DEF Next

\* As long as its connection holds, a subscriber that listens misses nothing that
\* is published on any of its channels, whatever it lost on earlier connections
\* (subscribe_and_listen).
THEOREM ListenerMissesNothing == Spec => []NothingMissed
<1>1. Init => MissInv
  BY TypeInit DEF Init, MissInv, Subscribed, NothingMissed
<1>2. MissInv => NothingMissed
  BY DEF MissInv
<1> QED BY <1>1, <1>2, MissStep, PTL DEF Spec

=============================================================================
