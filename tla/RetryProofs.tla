---------------------------- MODULE RetryProofs ----------------------------
(***************************************************************************)
(* Proofs about Retry: every breaker is sound whatever threads the tasks   *)
(* run on, it opens only after a streak of failures, and it closes only    *)
(* after enough trials.                                                    *)
(***************************************************************************)
EXTENDS Retry, TLAPS

-----------------------------------------------------------------------------
(* The methods of the breaker keep it sound.                               *)

\* NoBreaker is no breaker.
LEMMA SoundIsABreaker == \A b : Sound(b) => b # NoBreaker
  BY RetryAssumption DEF Sound

\* A breaker just built, and one that has just opened, have a time.
LEMMA ElapsedType == 0 \in Elapsed /\ Never \in Elapsed /\ 0 # Never
  BY BreakerAssumption DEF Elapsed

LEMMA NewSound == Sound(New) /\ New # NoBreaker
<1>1. New \in Breaker
  BY BreakerAssumption, ElapsedType DEF New, Breaker
<1>2. Sound(New)
  BY <1>1, BreakerAssumption DEF Sound, New
<1> QED BY <1>2, SoundIsABreaker

\* A fact about records: what may be written to the fields of a breaker.
LEMMA FieldsType ==
  ASSUME NEW b \in Breaker
  PROVE  /\ 0 \in 0..FailureThreshold /\ 0 \in 0..SuccessThreshold
         /\ b.failures \in 0..FailureThreshold /\ b.successes \in 0..SuccessThreshold
         /\ b.elapsed \in Elapsed
  BY BreakerAssumption DEF Breaker

LEMMA AskedSound ==
  ASSUME NEW b, Sound(b)
  PROVE  Sound(Asked(b)) /\ Asked(b) # NoBreaker
<1>1. b \in Breaker /\ 0 \in 0..SuccessThreshold
  BY FieldsType DEF Sound
<1>2. CASE Expired(b)
  <2>1. Asked(b) = [b EXCEPT !.state = "HalfOpen", !.successes = 0]
    BY <1>2 DEF Asked
  <2>2. Asked(b) \in Breaker
    BY <1>1, <2>1 DEF Breaker
  <2>3. Asked(b).state = "HalfOpen" /\ Asked(b).successes = 0
    BY <1>1, <2>1 DEF Breaker
  <2>4. Sound(Asked(b))
    BY <2>2, <2>3, BreakerAssumption DEF Sound
  <2> QED BY <2>4, SoundIsABreaker
<1>3. CASE ~Expired(b)
  BY <1>3, SoundIsABreaker DEF Asked
<1> QED BY <1>2, <1>3

LEMMA SucceededSound ==
  ASSUME NEW b, Sound(b)
  PROVE  Sound(Succeeded(b)) /\ Succeeded(b) # NoBreaker
<1>1. b \in Breaker /\ 0 \in 0..FailureThreshold /\ 0 \in 0..SuccessThreshold
  BY FieldsType DEF Sound
<1>2. CASE b.state # "HalfOpen"
  <2>1. Succeeded(b) = [b EXCEPT !.failures = 0]
    BY <1>2 DEF Succeeded
  <2>2. /\ Succeeded(b) \in Breaker
        /\ Succeeded(b).state = b.state /\ Succeeded(b).elapsed = b.elapsed
        /\ Succeeded(b).failures = 0
    BY <1>1, <2>1 DEF Breaker
  <2>3. Sound(Succeeded(b))
    BY <1>2, <2>2, BreakerAssumption DEF Sound
  <2> QED BY <2>3, SoundIsABreaker
<1>3. CASE b.state = "HalfOpen" /\ b.successes + 1 >= SuccessThreshold
  <2>1. Succeeded(b) =
          [b EXCEPT !.state = "Closed", !.failures = 0, !.successes = 0]
    BY <1>3 DEF Succeeded
  <2>2. /\ Succeeded(b) \in Breaker
        /\ Succeeded(b).state = "Closed" /\ Succeeded(b).failures = 0
    BY <1>1, <2>1 DEF Breaker
  <2>3. Sound(Succeeded(b))
    BY <2>2, BreakerAssumption DEF Sound
  <2> QED BY <2>3, SoundIsABreaker
<1>4. CASE b.state = "HalfOpen" /\ ~(b.successes + 1 >= SuccessThreshold)
  <2>1. Succeeded(b) = [b EXCEPT !.successes = b.successes + 1]
    BY <1>4 DEF Succeeded
  <2>2. /\ b.successes + 1 < SuccessThreshold
        /\ b.successes + 1 \in 0..SuccessThreshold
    BY <1>1, <1>4, FieldsType, BreakerAssumption
  <2>3. /\ Succeeded(b) \in Breaker
        /\ Succeeded(b).state = "HalfOpen"
        /\ Succeeded(b).successes = b.successes + 1
    BY <1>1, <1>4, <2>1, <2>2 DEF Breaker
  <2>4. Sound(Succeeded(b))
    BY <2>2, <2>3 DEF Sound
  <2> QED BY <2>4, SoundIsABreaker
<1> QED BY <1>2, <1>3, <1>4

LEMMA OneMoreBounds ==
  ASSUME NEW n \in Nat, NEW m \in Nat, n <= m
  PROVE  /\ OneMore(n) \in Nat
         /\ OneMore(n) <= OneMore(m)
         /\ n <= FailureThreshold => OneMore(n) <= FailureThreshold
  BY BreakerAssumption DEF OneMore

LEMMA FailedSound ==
  ASSUME NEW b, Sound(b)
  PROVE  Sound(Failed(b)) /\ Failed(b) # NoBreaker
<1> DEFINE n == OneMore(b.failures)
<1>1. b \in Breaker
  BY DEF Sound
<1>2. n \in 0..FailureThreshold
  BY <1>1, FieldsType, OneMoreBounds, BreakerAssumption
<1> HIDE DEF n
<1>3. CASE n >= FailureThreshold /\ b.state # "Open"
  <2>1. Failed(b) = [b EXCEPT !.state = "Open", !.failures = n, !.elapsed = 0]
    BY <1>3 DEF Failed, n
  <2>2. /\ Failed(b) \in Breaker
        /\ Failed(b).state = "Open" /\ Failed(b).elapsed = 0
    BY <1>1, <1>2, <2>1, ElapsedType DEF Breaker
  <2>3. Sound(Failed(b))
    BY <2>2, ElapsedType DEF Sound
  <2> QED BY <2>3, SoundIsABreaker
<1>4. CASE ~(n >= FailureThreshold /\ b.state # "Open")
  <2>1. Failed(b) = [b EXCEPT !.failures = n]
    BY <1>4 DEF Failed, n
  <2>2. /\ Failed(b) \in Breaker
        /\ Failed(b).state = b.state /\ Failed(b).elapsed = b.elapsed
        /\ Failed(b).failures = n /\ Failed(b).successes = b.successes
    BY <1>1, <1>2, <2>1 DEF Breaker
  <2>3. Sound(Failed(b))
    BY <1>2, <1>4, <2>2, BreakerAssumption DEF Sound
  <2> QED BY <2>3, SoundIsABreaker
<1> QED BY <1>3, <1>4

LEMMA AgedSound ==
  ASSUME NEW b, Sound(b)
  PROVE  /\ Sound(Aged(b)) /\ Aged(b) # NoBreaker
         /\ Aged(b).state = b.state
         /\ Aged(b).failures = b.failures /\ Aged(b).successes = b.successes
<1>1. b \in Breaker
  BY DEF Sound
<1>2. CASE b.elapsed # Never /\ b.elapsed < Timeout
  <2>1. Aged(b) = [b EXCEPT !.elapsed = b.elapsed + 1]
    BY <1>2 DEF Aged
  <2>2. b.elapsed + 1 \in Elapsed /\ b.elapsed + 1 # Never
    BY <1>1, <1>2, FieldsType, BreakerAssumption DEF Elapsed
  <2>3. /\ Aged(b) \in Breaker /\ Aged(b).elapsed = b.elapsed + 1
        /\ Aged(b).state = b.state
        /\ Aged(b).failures = b.failures /\ Aged(b).successes = b.successes
    BY <1>1, <2>1, <2>2 DEF Breaker
  <2>4. Sound(Aged(b))
    BY <2>2, <2>3 DEF Sound
  <2> QED BY <2>3, <2>4, SoundIsABreaker
<1>3. CASE ~(b.elapsed # Never /\ b.elapsed < Timeout)
  BY <1>3, SoundIsABreaker DEF Aged
<1> QED BY <1>2, <1>3


-----------------------------------------------------------------------------
(* One thread: its breaker b, the streak s and the trials r.               *)

\* A closed breaker has counted no more failures than the streak, a half-open
\* one no more successes than the trials.
Counted(b, s, r) ==
    \/ b = NoBreaker
    \/ /\ Sound(b)
       /\ b.state = "Closed" => b.failures <= s
       /\ b.state = "HalfOpen" => b.successes <= r

\* What a step may not do to one thread.
Lawful(b, c, s, r) ==
    b # NoBreaker /\ c # NoBreaker =>
        /\ b.state = "Closed" /\ c.state = "Open" => s >= FailureThreshold
        /\ b.state = "HalfOpen" /\ c.state = "Closed" => r >= SuccessThreshold

LEMMA AskedCounted ==
  ASSUME NEW b, NEW s \in Nat, NEW r \in Nat, b # NoBreaker, Counted(b, s, r)
  PROVE  /\ Counted(Asked(b), s, IF Expired(b) THEN 0 ELSE r)
         /\ Lawful(b, Asked(b), s, IF Expired(b) THEN 0 ELSE r)
<1>1. Sound(b) /\ Sound(Asked(b))
  BY AskedSound DEF Counted
<1>2. CASE Expired(b)
  <2>1. Asked(b) = [b EXCEPT !.state = "HalfOpen", !.successes = 0]
    BY <1>2 DEF Asked
  <2>2. /\ Asked(b).state = "HalfOpen" /\ Asked(b).successes = 0
        /\ b.state = "Open"
    BY <1>1, <1>2, <2>1 DEF Sound, Breaker, Expired
  <2> QED BY <1>1, <1>2, <2>2 DEF Counted, Lawful
<1>3. CASE ~Expired(b)
  BY <1>3 DEF Asked, Counted, Lawful
<1> QED BY <1>2, <1>3

LEMMA SucceededCounted ==
  ASSUME NEW b, NEW s \in Nat, NEW r \in Nat, b # NoBreaker, Counted(b, s, r)
  PROVE  LET q == IF b.state = "HalfOpen" THEN r + 1 ELSE r IN
         /\ Counted(Succeeded(b), 0, q)
         /\ Lawful(b, Succeeded(b), 0, q)
<1>1. /\ Sound(b) /\ Sound(Succeeded(b)) /\ b \in Breaker
      /\ b.state = "HalfOpen" => b.successes <= r
  BY SucceededSound DEF Counted, Sound
<1>2. b.successes \in Nat
  BY <1>1, FieldsType, BreakerAssumption
<1>3. CASE b.state # "HalfOpen"
  <2>1. Succeeded(b) = [b EXCEPT !.failures = 0]
    BY <1>3 DEF Succeeded
  <2>2. Succeeded(b).state = b.state /\ Succeeded(b).failures = 0
    BY <1>1, <2>1 DEF Breaker
  <2> QED BY <1>1, <1>3, <2>2 DEF Counted, Lawful
<1>4. CASE b.state = "HalfOpen" /\ b.successes + 1 >= SuccessThreshold
  <2>1. Succeeded(b) =
          [b EXCEPT !.state = "Closed", !.failures = 0, !.successes = 0]
    BY <1>4 DEF Succeeded
  <2>2. Succeeded(b).state = "Closed" /\ Succeeded(b).failures = 0
    BY <1>1, <2>1 DEF Breaker
  <2>3. r + 1 >= SuccessThreshold
    BY <1>1, <1>2, <1>4, BreakerAssumption
  <2> QED BY <1>1, <1>4, <2>2, <2>3 DEF Counted, Lawful
<1>5. CASE b.state = "HalfOpen" /\ ~(b.successes + 1 >= SuccessThreshold)
  <2>1. Succeeded(b) = [b EXCEPT !.successes = b.successes + 1]
    BY <1>5 DEF Succeeded
  <2>2. /\ Succeeded(b).state = "HalfOpen"
        /\ Succeeded(b).successes = b.successes + 1
    BY <1>1, <1>5, <2>1 DEF Breaker
  <2>3. b.successes + 1 <= r + 1
    BY <1>1, <1>2, <1>5
  <2> QED BY <1>1, <1>5, <2>2, <2>3 DEF Counted, Lawful
<1> QED BY <1>3, <1>4, <1>5

LEMMA FailedCounted ==
  ASSUME NEW b, NEW s \in Nat, NEW r \in Nat, b # NoBreaker, Counted(b, s, r)
  PROVE  /\ Counted(Failed(b), OneMore(s), r)
         /\ Lawful(b, Failed(b), OneMore(s), r)
<1> DEFINE n == OneMore(b.failures)
<1>1. /\ Sound(b) /\ Sound(Failed(b)) /\ b \in Breaker
      /\ b.state = "Closed" => b.failures <= s
      /\ b.state = "HalfOpen" => b.successes <= r
  BY FailedSound DEF Counted, Sound
<1>2. /\ b.failures \in Nat /\ n \in 0..FailureThreshold
      /\ OneMore(s) \in Nat
      /\ b.state = "Closed" => n <= OneMore(s)
  BY <1>1, FieldsType, OneMoreBounds, BreakerAssumption
<1> HIDE DEF n
<1>3. CASE n >= FailureThreshold /\ b.state # "Open"
  <2>1. Failed(b) = [b EXCEPT !.state = "Open", !.failures = n, !.elapsed = 0]
    BY <1>3 DEF Failed, n
  <2>2. Failed(b).state = "Open"
    BY <1>1, <2>1 DEF Breaker
  <2>3. b.state = "Closed" => OneMore(s) >= FailureThreshold
    BY <1>2, <1>3, BreakerAssumption
  <2> QED BY <1>1, <2>2, <2>3 DEF Counted, Lawful
<1>4. CASE ~(n >= FailureThreshold /\ b.state # "Open")
  <2>1. Failed(b) = [b EXCEPT !.failures = n]
    BY <1>4 DEF Failed, n
  <2>2. /\ Failed(b).state = b.state /\ Failed(b).failures = n
        /\ Failed(b).successes = b.successes
    BY <1>1, <2>1 DEF Breaker
  <2> QED BY <1>1, <1>2, <2>2 DEF Counted, Lawful
<1> QED BY <1>3, <1>4

LEMMA AgedCounted ==
  ASSUME NEW b, NEW s \in Nat, NEW r \in Nat, b # NoBreaker, Counted(b, s, r)
  PROVE  Counted(Aged(b), s, r) /\ Lawful(b, Aged(b), s, r)
  BY AgedSound DEF Counted, Lawful


-----------------------------------------------------------------------------
(* All threads.                                                            *)

ThreadsCounted ==
    /\ breaker \in [Threads -> Breaker \cup {NoBreaker}]
    /\ streak \in [Threads -> Nat] /\ trials \in [Threads -> Nat]
    /\ \A t \in Threads : Counted(breaker[t], streak[t], trials[t])

LawfulStep ==
    \A t \in Threads : Lawful(breaker[t], breaker[t]', streak'[t], trials'[t])

\* A step that keeps one thread counted and lawful and leaves the others alone.
LEMMA OneThread ==
  ASSUME ThreadsCounted, NEW t \in Threads,
         NEW c, NEW s \in Nat, NEW r \in Nat,
         Counted(c, s, r), Lawful(breaker[t], c, s, r),
         breaker' = [breaker EXCEPT ![t] = c],
         streak' = [streak EXCEPT ![t] = s],
         trials' = [trials EXCEPT ![t] = r]
  PROVE  ThreadsCounted' /\ LawfulStep
<1>1. c \in Breaker \cup {NoBreaker}
  BY DEF Counted, Sound
<1>2. /\ breaker' \in [Threads -> Breaker \cup {NoBreaker}]
      /\ streak' \in [Threads -> Nat] /\ trials' \in [Threads -> Nat]
  BY <1>1 DEF ThreadsCounted
<1>3. ASSUME NEW u \in Threads
      PROVE  /\ Counted(breaker'[u], streak'[u], trials'[u])
             /\ Lawful(breaker[u], breaker'[u], streak'[u], trials'[u])
  <2>1. CASE u = t
    <3>1. breaker'[u] = c /\ streak'[u] = s /\ trials'[u] = r
      BY <2>1 DEF ThreadsCounted
    <3> QED BY <2>1, <3>1
  <2>2. CASE u # t
    <3>1. /\ breaker'[u] = breaker[u] /\ streak'[u] = streak[u]
          /\ trials'[u] = trials[u]
      BY <2>2 DEF ThreadsCounted
    <3>2. Counted(breaker[u], streak[u], trials[u])
      BY DEF ThreadsCounted
    <3>3. Lawful(breaker[u], breaker[u], streak[u], trials[u])
      BY DEF Lawful
    <3> QED BY <3>1, <3>2, <3>3
  <2> QED BY <2>1, <2>2
<1> QED BY <1>2, <1>3 DEF ThreadsCounted, LawfulStep

LEMMA StillThreads ==
  ASSUME ThreadsCounted, UNCHANGED <<breaker, streak, trials>>
  PROVE  ThreadsCounted' /\ LawfulStep
  BY DEF ThreadsCounted, LawfulStep, Lawful

LEMMA TickThreads ==
  ASSUME ThreadsCounted, Tick
  PROVE  ThreadsCounted' /\ LawfulStep
<1>1. breaker' = [t \in Threads |->
          IF breaker[t] = NoBreaker THEN NoBreaker ELSE Aged(breaker[t])]
  BY DEF Tick
<1>2. streak' = streak /\ trials' = trials
  BY DEF Tick, history
<1>3. ASSUME NEW u \in Threads
      PROVE  /\ Counted(breaker'[u], streak[u], trials[u])
             /\ Lawful(breaker[u], breaker'[u], streak[u], trials[u])
  <2>1. Counted(breaker[u], streak[u], trials[u]) /\ streak[u] \in Nat /\ trials[u] \in Nat
    BY DEF ThreadsCounted
  <2>2. CASE breaker[u] = NoBreaker
    BY <1>1, <2>2 DEF Counted, Lawful
  <2>3. CASE breaker[u] # NoBreaker
    <3>1. breaker'[u] = Aged(breaker[u])
      BY <1>1, <2>3
    <3> QED BY <2>1, <2>3, <3>1, AgedCounted
  <2> QED BY <2>2, <2>3
<1>4. \A u \in Threads : breaker'[u] \in Breaker \cup {NoBreaker}
  BY <1>3 DEF Counted, Sound
<1>5. breaker' \in [Threads -> Breaker \cup {NoBreaker}]
  BY <1>1, <1>4
<1> QED BY <1>2, <1>3, <1>5 DEF ThreadsCounted, LawfulStep

LEMMA TryThreads ==
  ASSUME ThreadsCounted, NEW k \in Tasks, NEW t \in Threads, NEW b,
         Try(k, t, b),
         b = breaker[t] \/ (breaker[t] = NoBreaker /\ b = New)
  PROVE  ThreadsCounted' /\ LawfulStep
<1> DEFINE c == IF b = NoBreaker THEN b ELSE Asked(b)
           r == IF b # NoBreaker /\ Expired(b) THEN 0 ELSE trials[t]
<1>1. streak[t] \in Nat /\ trials[t] \in Nat /\ Counted(breaker[t], streak[t], trials[t])
  BY DEF ThreadsCounted
<1>2. Counted(b, streak[t], trials[t])
  <2>1. CASE b = New
    <3>1. New.state = "Closed" /\ New.failures = 0
      BY DEF New
    <3> QED BY <1>1, <2>1, <3>1, NewSound DEF Counted
  <2>2. CASE b = breaker[t]
    BY <1>1, <2>2
  <2> QED BY <2>1, <2>2
<1>3. Counted(c, streak[t], r) /\ Lawful(b, c, streak[t], r) /\ r \in Nat
  <2>1. CASE b = NoBreaker
    BY <1>1, <1>2, <2>1 DEF Lawful
  <2>2. CASE b # NoBreaker
    BY <1>1, <1>2, <2>2, AskedCounted
  <2> QED BY <2>1, <2>2
<1>4. Lawful(breaker[t], c, streak[t], r)
  BY <1>3 DEF Lawful
<1>5. /\ breaker' = [breaker EXCEPT ![t] = c]
      /\ trials' = [trials EXCEPT ![t] = r]
      /\ streak' = [streak EXCEPT ![t] = streak[t]]
  BY DEF Try, ThreadsCounted
<1> HIDE DEF c, r
<1> QED BY <1>1, <1>3, <1>4, <1>5, OneThread

LEMMA SucceedThreads ==
  ASSUME ThreadsCounted, NEW k \in Tasks, NEW t \in Threads, Succeed(k, t)
  PROVE  ThreadsCounted' /\ LawfulStep
<1> DEFINE b == breaker[t]
           q == IF b.state = "HalfOpen" THEN trials[t] + 1 ELSE trials[t]
<1>1. streak[t] \in Nat /\ trials[t] \in Nat /\ Counted(b, streak[t], trials[t])
  BY DEF ThreadsCounted
<1>2. CASE b = NoBreaker
  <2>1. UNCHANGED <<breaker, streak, trials>>
    BY <1>2 DEF Succeed, Settle, ThreadsCounted
  <2> QED BY <2>1, StillThreads
<1>3. CASE b # NoBreaker
  <2>1. /\ breaker' = [breaker EXCEPT ![t] = Succeeded(b)]
        /\ streak' = [streak EXCEPT ![t] = 0]
        /\ trials' = [trials EXCEPT ![t] = q]
    BY <1>3 DEF Succeed, Settle, ThreadsCounted
  <2>2. Counted(Succeeded(b), 0, q) /\ Lawful(b, Succeeded(b), 0, q) /\ q \in Nat
    BY <1>1, <1>3, SucceededCounted
  <2> HIDE DEF q
  <2> QED BY <2>1, <2>2, OneThread
<1> QED BY <1>2, <1>3

LEMMA FailThreads ==
  ASSUME ThreadsCounted, NEW k \in Tasks, NEW t \in Threads, Fail(k, t)
  PROVE  ThreadsCounted' /\ LawfulStep
<1> DEFINE b == breaker[t]
           s == OneMore(streak[t])
<1>1. streak[t] \in Nat /\ trials[t] \in Nat /\ Counted(b, streak[t], trials[t])
  BY DEF ThreadsCounted
<1>2. CASE b = NoBreaker
  <2>1. UNCHANGED <<breaker, streak, trials>>
    BY <1>2 DEF Fail, Settle, ThreadsCounted
  <2> QED BY <2>1, StillThreads
<1>3. CASE b # NoBreaker
  <2>1. /\ breaker' = [breaker EXCEPT ![t] = Failed(b)]
        /\ streak' = [streak EXCEPT ![t] = s]
        /\ trials' = [trials EXCEPT ![t] = trials[t]]
    BY <1>3 DEF Fail, Settle, ThreadsCounted
  <2>2. Counted(Failed(b), s, trials[t]) /\ Lawful(b, Failed(b), s, trials[t])
    BY <1>1, <1>3, FailedCounted
  <2>3. s \in Nat
    BY <1>1, OneMoreBounds
  <2> HIDE DEF s
  <2> QED BY <1>1, <2>1, <2>2, <2>3, OneThread
<1> QED BY <1>2, <1>3

LEMMA ThreadsStep ==
  ASSUME ThreadsCounted, [Next]_vars
  PROVE  ThreadsCounted' /\ LawfulStep
<1>1. CASE GoDown
  BY <1>1, StillThreads DEF GoDown, history
<1>2. CASE GoUp
  BY <1>2, StillThreads DEF GoUp, history
<1>3. CASE Tick
  BY <1>3, TickThreads
<1>4. ASSUME NEW k \in Tasks, NEW t \in Threads, Begin(k, t)
      PROVE  ThreadsCounted' /\ LawfulStep
  <2>1. CASE breaker[t] = NoBreaker
    BY <1>4, <2>1, TryThreads DEF Begin
  <2>2. CASE breaker[t] # NoBreaker
    BY <1>4, <2>2, TryThreads DEF Begin
  <2> QED BY <2>1, <2>2
<1>5. ASSUME NEW k \in Tasks, NEW t \in Threads, Again(k, t)
      PROVE  ThreadsCounted' /\ LawfulStep
  BY <1>5, TryThreads DEF Again
<1>6. ASSUME NEW k \in Tasks, NEW t \in Threads, Succeed(k, t)
      PROVE  ThreadsCounted' /\ LawfulStep
  BY <1>6, SucceedThreads
<1>7. ASSUME NEW k \in Tasks, NEW t \in Threads, Fail(k, t)
      PROVE  ThreadsCounted' /\ LawfulStep
  BY <1>7, FailThreads
<1>8. ASSUME NEW k \in Tasks, Reject(k)
      PROVE  ThreadsCounted' /\ LawfulStep
  BY <1>8, StillThreads DEF Reject, history
<1>9. CASE UNCHANGED vars
  BY <1>9, StillThreads DEF vars, history
<1> QED
  BY <1>1, <1>2, <1>3, <1>4, <1>5, <1>6, <1>7, <1>8, <1>9 DEF Next


-----------------------------------------------------------------------------
(* All tasks.                                                              *)

LEMMA TryTasks ==
  ASSUME TasksTypeOK, NEW k \in Tasks, NEW t \in Threads, NEW b,
         pc[k] \in {"idle", "backoff"}, Try(k, t, b)
  PROVE  TasksTypeOK'
<1>1. attempt[k] + 1 \in 1..MaxAttempts
  BY RetryAssumption DEF TasksTypeOK
<1>2. CASE ~Refused(b)
  <2>1. /\ pc' = [pc EXCEPT ![k] = "await"]
        /\ attempt' = [attempt EXCEPT ![k] = attempt[k] + 1]
        /\ shaky' = IF healthy THEN shaky ELSE shaky \cup {k}
        /\ refused' = refused \ {k}
        /\ healthy' = healthy
    BY <1>2 DEF Try
  <2> QED BY <1>1, <2>1, RetryAssumption DEF TasksTypeOK
<1>3. CASE Refused(b)
  <2>1. /\ pc' = [pc EXCEPT ![k] = "idle"]
        /\ attempt' = [attempt EXCEPT ![k] = 0]
        /\ refused' = refused \cup {k}
        /\ shaky' = shaky /\ healthy' = healthy
    BY <1>3 DEF Try, End
  <2> QED BY <2>1, RetryAssumption DEF TasksTypeOK
<1> QED BY <1>2, <1>3

\* A call that awaited its operation ends.
LEMMA EndTasks ==
  ASSUME TasksTypeOK, NEW k \in Tasks, pc[k] = "await", End(k),
         shaky' = shaky \ {k}, UNCHANGED <<healthy, refused>>
  PROVE  TasksTypeOK'
  BY RetryAssumption DEF TasksTypeOK, End

LEMMA FailTasks ==
  ASSUME TasksTypeOK, NEW k \in Tasks, NEW t \in Threads, Fail(k, t)
  PROVE  TasksTypeOK'
<1>1. /\ pc[k] = "await" /\ shaky' = shaky \ {k}
      /\ UNCHANGED <<healthy, refused>>
  BY DEF Fail, Settle
<1>2. CASE End(k)
  BY <1>1, <1>2, EndTasks
<1>3. CASE /\ attempt[k] < MaxAttempts
           /\ pc' = [pc EXCEPT ![k] = "backoff"]
           /\ UNCHANGED attempt
  BY <1>1, <1>3, RetryAssumption DEF TasksTypeOK
<1> QED BY <1>2, <1>3 DEF Fail

LEMMA TasksStep ==
  ASSUME TasksTypeOK, [Next]_vars
  PROVE  TasksTypeOK'
<1>1. CASE GoDown
  BY <1>1 DEF GoDown, TasksTypeOK
<1>2. CASE GoUp
  BY <1>2 DEF GoUp, TasksTypeOK
<1>3. CASE Tick
  BY <1>3 DEF Tick, TasksTypeOK
<1>4. ASSUME NEW k \in Tasks, NEW t \in Threads, Begin(k, t)
      PROVE  TasksTypeOK'
  BY <1>4, TryTasks DEF Begin
<1>5. ASSUME NEW k \in Tasks, NEW t \in Threads, Again(k, t)
      PROVE  TasksTypeOK'
  BY <1>5, TryTasks DEF Again
<1>6. ASSUME NEW k \in Tasks, NEW t \in Threads, Succeed(k, t)
      PROVE  TasksTypeOK'
  BY <1>6, EndTasks DEF Succeed, Settle
<1>7. ASSUME NEW k \in Tasks, NEW t \in Threads, Fail(k, t)
      PROVE  TasksTypeOK'
  BY <1>7, FailTasks
<1>8. ASSUME NEW k \in Tasks, Reject(k)
      PROVE  TasksTypeOK'
  BY <1>8, EndTasks DEF Reject
<1>9. CASE UNCHANGED vars
  BY <1>9 DEF vars, history, TasksTypeOK
<1> QED
  BY <1>1, <1>2, <1>3, <1>4, <1>5, <1>6, <1>7, <1>8, <1>9 DEF Next

-----------------------------------------------------------------------------
(* The theorems.                                                           *)

Inv == ThreadsCounted /\ TasksTypeOK

LEMMA InitInv == Init => Inv
<1> SUFFICES ASSUME Init PROVE Inv
  OBVIOUS
<1>1. ThreadsCounted
  BY DEF Init, ThreadsCounted, Counted
<1>2. TasksTypeOK
  BY RetryAssumption DEF Init, TasksTypeOK
<1> QED BY <1>1, <1>2 DEF Inv

LEMMA InvCorrect == Spec => []Inv
<1>1. Inv /\ [Next]_vars => Inv'
  BY ThreadsStep, TasksStep DEF Inv
<1> QED BY <1>1, InitInv, PTL DEF Spec

LEMMA InvTypeOK == Inv => TypeOK
  BY DEF Inv, TypeOK, ThreadsTypeOK, ThreadsCounted, Counted

\* Every variable of retry_async keeps its type, a closed or half-open breaker
\* stays below its thresholds, and an open one knows when it opened, on any
\* number of threads and tasks.
THEOREM TypeCorrect == Spec => []TypeOK
  BY InvCorrect, InvTypeOK, PTL

\* The consequence of try_record_failure and try_record_success together: a
\* closed breaker opens only after a streak of FailureThreshold failures.
THEOREM BreakersOpenAfterStreak == Spec => OpensAfterStreak
<1>1. Inv /\ [Next]_vars =>
        [\A t \in Threads : State(t) = "Closed" /\ State(t)' = "Open"
                            => streak'[t] >= FailureThreshold]_vars
  <2> SUFFICES ASSUME Inv, [Next]_vars, NEW t \in Threads,
                      State(t) = "Closed", State(t)' = "Open"
               PROVE  streak'[t] >= FailureThreshold
    OBVIOUS
  <2>1. Lawful(breaker[t], breaker[t]', streak'[t], trials'[t])
    BY ThreadsStep DEF Inv, LawfulStep
  <2>2. /\ breaker[t] # NoBreaker /\ breaker[t].state = "Closed"
        /\ breaker[t]' # NoBreaker /\ breaker[t]'.state = "Open"
    BY DEF State
  <2> QED BY <2>1, <2>2 DEF Lawful
<1> QED BY <1>1, InvCorrect, PTL DEF Spec, OpensAfterStreak

\* A half-open breaker closes only after SuccessThreshold successes since it
\* was last half open, those counted in an earlier half-open time excluded.
THEOREM BreakersCloseAfterTrials == Spec => ClosesAfterTrials
<1>1. Inv /\ [Next]_vars =>
        [\A t \in Threads : State(t) = "HalfOpen" /\ State(t)' = "Closed"
                            => trials'[t] >= SuccessThreshold]_vars
  <2> SUFFICES ASSUME Inv, [Next]_vars, NEW t \in Threads,
                      State(t) = "HalfOpen", State(t)' = "Closed"
               PROVE  trials'[t] >= SuccessThreshold
    OBVIOUS
  <2>1. Lawful(breaker[t], breaker[t]', streak'[t], trials'[t])
    BY ThreadsStep DEF Inv, LawfulStep
  <2>2. /\ breaker[t] # NoBreaker /\ breaker[t].state = "HalfOpen"
        /\ breaker[t]' # NoBreaker /\ breaker[t]'.state = "Closed"
    BY DEF State
  <2> QED BY <2>1, <2>2 DEF Lawful
<1> QED BY <1>1, InvCorrect, PTL DEF Spec, ClosesAfterTrials

=============================================================================
