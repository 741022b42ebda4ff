---------------------------- MODULE TurnsProofs ----------------------------
(* Theorems about Turns, for any set of consumers and any group size.      *)
EXTENDS Turns, TLAPS

-----------------------------------------------------------------------------
(* Arithmetic of the turn.                                                 *)

\* A multiple of n other than zero is at least n away from zero.
LEMMA Multiple ==
  ASSUME NEW d \in Int, NEW n \in Nat \ {0}, d # 0
  PROVE  n * d >= n \/ n * d <= -n
<1>1. CASE d >= 1
  <2>1. n * d = n + n * (d - 1) /\ n * (d - 1) >= 0
    BY <1>1
  <2> QED BY <2>1
<1>2. CASE d <= -1
  <2>1. n * d = n * (d + 1) - n /\ n * (d + 1) <= 0
    BY <1>2
  <2> QED BY <2>1
<1> QED BY <1>1, <1>2

\* Division with remainder, and its uniqueness.
LEMMA Division ==
  ASSUME NEW k \in Nat, NEW n \in Nat \ {0}
  PROVE  /\ k % n \in 0..(n - 1)
         /\ k \div n \in Nat
         /\ k = (n * (k \div n)) + (k % n)
  OBVIOUS

LEMMA OneDivision ==
  ASSUME NEW n \in Nat \ {0}, NEW q \in Int, NEW p \in Int,
         NEW r \in 0..(n - 1), NEW s \in 0..(n - 1),
         n * q + r = n * p + s
  PROVE  q = p /\ r = s
<1>1. n * (q - p) = s - r
  OBVIOUS
<1>2. q - p = 0
  <2>1. s - r < n /\ s - r > -n
    OBVIOUS
  <2> QED BY <1>1, <2>1, Multiple
<1> QED BY <1>1, <1>2

\* The turn moves on by one slot and after the last one a round is complete.
LEMMA NextTurn ==
  ASSUME NEW k \in Nat, NEW n \in Nat \ {0}
  PROVE  LET again == (k % n) + 1 = n IN
         /\ (k + 1) % n = IF again THEN 0 ELSE (k % n) + 1
         /\ (k + 1) \div n = IF again THEN (k \div n) + 1 ELSE k \div n
<1> DEFINE q == k \div n
           r == k % n
           p == (k + 1) \div n
           s == (k + 1) % n
<1>1. r \in 0..(n - 1) /\ q \in Int /\ k = n * q + r
  BY Division
<1>2. s \in 0..(n - 1) /\ p \in Int /\ k + 1 = n * p + s
  BY Division
<1> HIDE DEF q, r, p, s
<1>3. CASE r + 1 = n
  <2>1. n * p + s = n * (q + 1) + 0
    BY <1>1, <1>2, <1>3
  <2>2. q + 1 \in Int /\ 0 \in 0..(n - 1)
    BY <1>1
  <2>3. p = q + 1 /\ s = 0
    BY <1>2, <2>1, <2>2, OneDivision
  <2> QED BY <1>3, <2>3 DEF q, r, p, s
<1>4. CASE r + 1 # n
  <2>1. n * p + s = n * q + (r + 1) /\ r + 1 \in 0..(n - 1)
    BY <1>1, <1>2, <1>4
  <2>2. p = q /\ s = r + 1
    BY <1>1, <1>2, <2>1, OneDivision
  <2> QED BY <1>4, <2>2 DEF q, r, p, s
<1> QED BY <1>3, <1>4

-----------------------------------------------------------------------------
(* After k turns of a group of n, slot i has had Served(k, i, n) turns in  *)
(* which only its owner could take the job: the first turn of slot 0 is    *)
(* the first job, which anyone may have taken.                             *)

Served(k, i, n) ==
    (k \div n) + (IF i < k % n THEN 1 ELSE 0) - (IF i = 0 THEN 1 ELSE 0)

\* A slot is at most one turn behind, the first one.
LEMMA ServedType ==
  ASSUME NEW k \in Nat, NEW n \in Nat \ {0}, NEW i \in 0..(n - 1)
  PROVE  Served(k, i, n) \in Int /\ Served(k, i, n) >= -1
<1>1. k % n \in 0..(n - 1) /\ k \div n \in Nat
  BY Division
<1> QED BY <1>1 DEF Served

\* Before the first job only slot 0 is behind, by the job open to everyone.
LEMMA NothingServed ==
  ASSUME NEW n \in Nat \ {0}, NEW i \in 0..(n - 1)
  PROVE  Served(0, i, n) = IF i = 0 THEN -1 ELSE 0
<1>1. 0 \div n = 0 /\ 0 % n = 0
  OBVIOUS
<1> QED BY <1>1 DEF Served

\* A turn serves its own slot and no other.
LEMMA ServedStep ==
  ASSUME NEW k \in Nat, NEW n \in Nat \ {0}, NEW i \in 0..(n - 1)
  PROVE  Served(k + 1, i, n) =
           IF i = k % n THEN Served(k, i, n) + 1 ELSE Served(k, i, n)
<1> DEFINE q == k \div n
           r == k % n
<1>1. r \in 0..(n - 1) /\ q \in Nat
  BY Division
<1>2. CASE r + 1 = n
  <2>1. (k + 1) % n = 0 /\ (k + 1) \div n = q + 1
    BY <1>2, NextTurn
  <2> HIDE DEF q, r
  <2>2. Served(k + 1, i, n) = (q + 1) + 0 - (IF i = 0 THEN 1 ELSE 0)
    BY <2>1 DEF Served
  <2>3. Served(k, i, n) = q + (IF i < r THEN 1 ELSE 0) - (IF i = 0 THEN 1 ELSE 0)
    BY DEF Served, q, r
  <2>4. i = k % n <=> i = r
    BY DEF r
  <2> QED BY <1>1, <1>2, <2>2, <2>3, <2>4
<1>3. CASE r + 1 # n
  <2>1. (k + 1) % n = r + 1 /\ (k + 1) \div n = q
    BY <1>3, NextTurn
  <2> HIDE DEF q, r
  <2>2. Served(k + 1, i, n) =
          q + (IF i < r + 1 THEN 1 ELSE 0) - (IF i = 0 THEN 1 ELSE 0)
    BY <2>1 DEF Served
  <2>3. Served(k, i, n) = q + (IF i < r THEN 1 ELSE 0) - (IF i = 0 THEN 1 ELSE 0)
    BY DEF Served, q, r
  <2>4. i = k % n <=> i = r
    BY DEF r
  <2> QED BY <1>1, <1>3, <2>2, <2>3, <2>4
<1> QED BY <1>2, <1>3

\* Two slots have been served equally often, give or take one.
LEMMA ServedAlike ==
  ASSUME NEW k \in Nat, NEW n \in Nat \ {0},
         NEW i \in 0..(n - 1), NEW j \in 0..(n - 1)
  PROVE  Served(k, i, n) <= Served(k, j, n) + 1
<1>1. k % n \in 0..(n - 1) /\ k \div n \in Nat
  BY Division
<1> QED BY <1>1 DEF Served

-----------------------------------------------------------------------------
(* The invariant: each member has taken the jobs of its own slot and at    *)
(* most the first job besides, and a slot without a member has not been    *)
(* served.                                                                 *)

Level(c) ==
    LET own == Served(counter, info[c].id, info[c].total)
    IN  own <= taken[c] /\ taken[c] <= own + 1

Balanced(n) ==
    /\ \A c \in Members : Level(c)
    /\ \A i \in 0..(n - 1) :
          (\A c \in Members : info[c].id # i) => Served(counter, i, n) <= 0

SharesInv ==
    /\ TurnsTypeOK
    /\ \A c \in Consumers \ Members : taken[c] = 0
    /\ counter = 0 => \A c \in Consumers : taken[c] = 0
    /\ Members = {} => counter = 0
    /\ Agreeing => \A m \in Members : Balanced(info[m].total)

\* A position is a slot of a group that is not empty.
LEMMA InfoType ==
  ASSUME NEW i \in ConsumerInfo
  PROVE  i.total \in Nat \ {0} /\ i.id \in 0..(i.total - 1)
  BY DEF ConsumerInfo

\* No member has taken anything and no slot has been served.
LEMMA SharesInit == Init => SharesInv
<1> SUFFICES ASSUME Init PROVE SharesInv
  OBVIOUS
<1>1. TurnsTypeOK /\ counter = 0 /\ \A c \in Consumers : taken[c] = 0
  BY DEF Init, TurnsTypeOK
<1>2. ASSUME NEW m \in Members PROVE Balanced(info[m].total)
  <2>1. \A c \in Members : info[c] \in ConsumerInfo /\ taken[c] = 0
    BY <1>1 DEF TurnsTypeOK, Members
  <2>2. ASSUME NEW c \in Members PROVE Level(c)
    <3>1. info[c].total \in Nat \ {0} /\ info[c].id \in 0..(info[c].total - 1)
      BY <2>1, InfoType
    <3>2. Served(counter, info[c].id, info[c].total) \in {-1, 0}
      BY <1>1, <3>1, NothingServed
    <3> QED BY <2>1, <3>2 DEF Level
  <2>3. \A i \in 0..(info[m].total - 1) : Served(counter, i, info[m].total) <= 0
    BY <1>1, <2>1, InfoType, NothingServed
  <2> QED BY <2>2, <2>3 DEF Balanced
<1> QED BY <1>1, <1>2 DEF SharesInv, Members

\* A consumer that joins has taken nothing, and its slot was not served.
LEMMA JoinStep ==
  ASSUME SharesInv, NEW c \in Consumers, Join(c)
  PROVE  SharesInv'
<1>1. /\ c \notin Members /\ info'[c] \in ConsumerInfo
      /\ info' = [info EXCEPT ![c] = info'[c]]
      /\ counter' = counter /\ taken' = taken
  BY DEF Join, Members
<1>2. TurnsTypeOK /\ TurnsTypeOK'
  BY <1>1 DEF SharesInv, TurnsTypeOK
<1>3. /\ \A d \in Members : d \in Members' /\ info'[d] = info[d]
      /\ \A d \in Members' : d \in Members \/ d = c
      /\ \A d \in Members' : d \in Consumers /\ info'[d] \in ConsumerInfo
  BY <1>1, <1>2 DEF Members, TurnsTypeOK
<1>4. taken[c] = 0
  BY <1>1 DEF SharesInv
<1>5. ASSUME Agreeing', NEW m \in Members' PROVE Balanced(info[m].total)'
  <2> DEFINE n == info'[m].total
  <2>1. n \in Nat \ {0} /\ \A d \in Members' : info'[d].total = n
    BY <1>3, <1>5, InfoType DEF Agreeing
  <2>2. \A d \in Members' : info'[d].id \in 0..(n - 1)
    BY <1>3, <2>1, InfoType
  <2> HIDE DEF n
  <2>3. counter \in Nat /\ taken \in [Consumers -> Nat]
    BY <1>2 DEF TurnsTypeOK
  <2>4. /\ \A d \in Members : Level(d)
        /\ \A i \in 0..(n - 1) :
              (\A d \in Members : info[d].id # i) => Served(counter, i, n) <= 0
    <3>1. CASE counter = 0
      <4>1. \A d \in Members : info[d].total = n /\ info[d].id \in 0..(n - 1)
                               /\ taken[d] = 0
        BY <1>3, <2>1, <2>2, <3>1 DEF SharesInv
      <4> QED BY <2>1, <3>1, <4>1, NothingServed DEF Level
    <3>2. CASE counter # 0
      <4>1. PICK d \in Members : TRUE
        BY <3>2 DEF SharesInv
      <4>2. Agreeing /\ info[d].total = n
        BY <1>3, <1>5, <2>1, <4>1 DEF Agreeing
      <4> QED BY <4>1, <4>2 DEF SharesInv, Balanced
    <3> QED BY <3>1, <3>2
  <2>5. \A d \in Members' : Level(d)'
    <3>1. ASSUME NEW d \in Members PROVE Level(d)'
      BY <1>1, <1>3, <2>4 DEF Level
    <3>2. Level(c)' \/ c \notin Members'
      <4>1. SUFFICES ASSUME c \in Members' PROVE Level(c)'
        OBVIOUS
      <4>2. \A d \in Members : info[d].id # info'[c].id
        BY <1>1, <1>3, <1>5, <4>1 DEF Agreeing
      <4>3. Served(counter, info'[c].id, n) <= 0
        BY <2>2, <2>4, <4>1, <4>2
      <4>4. /\ Served(counter, info'[c].id, n) >= -1
            /\ Served(counter, info'[c].id, n) \in Int
        BY <2>1, <2>2, <2>3, <4>1, ServedType
      <4> QED BY <1>1, <1>4, <2>1, <4>1, <4>3, <4>4 DEF Level
    <3> QED BY <1>3, <3>1, <3>2
  <2>6. \A i \in 0..(n - 1) :
           (\A d \in Members' : info'[d].id # i) => Served(counter', i, n) <= 0
    BY <1>1, <1>3, <2>4
  <2> QED BY <2>5, <2>6 DEF Balanced, n
<1>6. \A d \in Consumers \ Members' : taken'[d] = 0
  BY <1>1, <1>3 DEF SharesInv
<1>7. counter' = 0 => \A d \in Consumers : taken'[d] = 0
  BY <1>1 DEF SharesInv
<1>8. Members' = {} => counter' = 0
  BY <1>1, <1>3 DEF SharesInv
<1> QED BY <1>2, <1>5, <1>6, <1>7, <1>8 DEF SharesInv

\* The consumer that takes a job owns the turn, or it is the first job.
LEMMA TurnStep ==
  ASSUME SharesInv, NEW c \in Consumers, TakeTurn(c)
  PROVE  SharesInv'
<1>1. /\ c \in Members /\ Designated(c) /\ counter' = counter + 1
      /\ taken' = [taken EXCEPT ![c] = @ + 1] /\ info' = info
  BY DEF TakeTurn, Designated, Members
<1>2. Members' = Members /\ TurnsTypeOK /\ TurnsTypeOK'
  BY <1>1 DEF SharesInv, TurnsTypeOK, Members
<1>3. /\ counter \in Nat /\ taken \in [Consumers -> Nat]
      /\ \A d \in Members : d \in Consumers /\ info[d] \in ConsumerInfo
  BY <1>2 DEF TurnsTypeOK, Members
<1>4. ASSUME Agreeing', NEW m \in Members' PROVE Balanced(info[m].total)'
  <2> DEFINE n == info[m].total
  <2>1. /\ Agreeing /\ Balanced(n) /\ n \in Nat \ {0}
        /\ \A d \in Members : info[d].total = n
    BY <1>1, <1>2, <1>3, <1>4, InfoType DEF SharesInv, Agreeing
  <2>2. \A d \in Members : info[d].id \in 0..(n - 1)
    BY <1>3, <2>1, InfoType
  <2> HIDE DEF n
  <2>3. \A d \in Members : Level(d)'
    <3> SUFFICES ASSUME NEW d \in Members PROVE Level(d)'
      OBVIOUS
    <3> DEFINE i == info[d].id
    <3>1. i \in 0..(n - 1) /\ Level(d) /\ info'[d].total = n /\ info'[d].id = i
      BY <1>1, <2>1, <2>2 DEF Balanced
    <3>2. Served(counter, i, n) <= taken[d] /\ taken[d] <= Served(counter, i, n) + 1
      BY <2>1, <3>1 DEF Level
    <3>3. Served(counter + 1, i, n) =
            IF i = counter % n THEN Served(counter, i, n) + 1 ELSE Served(counter, i, n)
      BY <1>3, <2>1, <3>1, ServedStep
    <3>4. Served(counter, i, n) \in Int
      BY <1>3, <2>1, <3>1, ServedType
    <3>5. taken[d] \in Nat /\ taken'[d] = IF d = c THEN taken[d] + 1 ELSE taken[d]
      BY <1>1, <1>3
    <3> HIDE DEF i
    <3>6. /\ Served(counter + 1, i, n) <= taken'[d]
          /\ taken'[d] <= Served(counter + 1, i, n) + 1
      <4>1. CASE counter = 0
        <5>1. taken[d] = 0 /\ Served(counter, i, n) = IF i = 0 THEN -1 ELSE 0
          BY <1>3, <2>1, <3>1, <4>1, NothingServed DEF SharesInv
        <5>2. counter % n = 0
          BY <2>1, <4>1
        <5> QED BY <3>3, <3>5, <5>1, <5>2
      <4>2. CASE counter # 0
        <5>1. d = c <=> i = counter % n
          BY <1>1, <2>1, <4>2 DEF Designated, Agreeing, i
        <5> QED BY <3>2, <3>3, <3>4, <3>5, <5>1
      <4> QED BY <4>1, <4>2
    <3> QED BY <1>1, <3>1, <3>6 DEF Level
  <2>4. ASSUME NEW i \in 0..(n - 1), \A d \in Members : info[d].id # i
        PROVE  Served(counter + 1, i, n) <= 0
    <3>1. Served(counter, i, n) <= 0 /\ Served(counter, i, n) \in Int
      BY <1>3, <2>1, <2>4, ServedType DEF Balanced
    <3>2. Served(counter + 1, i, n) =
            IF i = counter % n THEN Served(counter, i, n) + 1 ELSE Served(counter, i, n)
      BY <1>3, <2>1, ServedStep
    <3>3. CASE counter = 0
      <4>1. Served(counter, i, n) = (IF i = 0 THEN -1 ELSE 0) /\ counter % n = 0
        BY <2>1, <3>3, NothingServed
      <4> QED BY <3>2, <4>1
    <3>4. CASE counter # 0
      <4>1. i # counter % n
        BY <1>1, <2>1, <2>4, <3>4 DEF Designated
      <4> QED BY <3>1, <3>2, <4>1
    <3> QED BY <3>3, <3>4
  <2> QED BY <1>1, <1>2, <2>3, <2>4 DEF Balanced, n
<1>5. \A d \in Consumers \ Members' : taken'[d] = 0
  BY <1>1, <1>2, <1>3 DEF SharesInv
<1>6. counter' # 0 /\ Members' # {}
  BY <1>1, <1>2, <1>3
<1> QED BY <1>2, <1>4, <1>5, <1>6 DEF SharesInv

\* Every step of Turns is one of the two, or a stutter.
LEMMA SharesStep == SharesInv /\ [Next]_turnVars => SharesInv'
<1> SUFFICES ASSUME SharesInv, [Next]_turnVars PROVE SharesInv'
  OBVIOUS
<1>1. CASE Next
  BY <1>1, JoinStep, TurnStep DEF Next
<1>2. CASE UNCHANGED turnVars
  <2>1. info' = info /\ counter' = counter /\ taken' = taken
    BY <1>2 DEF turnVars
  <2> QED BY <2>1 DEF SharesInv, TurnsTypeOK, Members, Agreeing, Balanced, Level
<1> QED BY <1>1, <1>2

\* Members that have what their slots were served are within two.
LEMMA SharesEven == SharesInv => FairShares
<1> SUFFICES ASSUME SharesInv, Agreeing, NEW c \in Members, NEW d \in Members
             PROVE  taken[c] <= taken[d] + 2
  BY DEF FairShares
<1> DEFINE n == info[c].total
<1>1. /\ info[c] \in ConsumerInfo /\ info[d] \in ConsumerInfo /\ counter \in Nat
      /\ taken[c] \in Nat /\ taken[d] \in Nat
  BY DEF SharesInv, TurnsTypeOK, Members
<1>2. info[d].total = n /\ n \in Nat \ {0}
  BY <1>1, InfoType DEF Agreeing
<1>3. info[c].id \in 0..(n - 1) /\ info[d].id \in 0..(n - 1)
  BY <1>1, <1>2, InfoType
<1>4. Level(c) /\ Level(d)
  BY DEF SharesInv, Balanced
<1> HIDE DEF n
<1>5. /\ Served(counter, info[c].id, n) \in Int
      /\ Served(counter, info[d].id, n) \in Int
      /\ Served(counter, info[c].id, n) <= Served(counter, info[d].id, n) + 1
  BY <1>1, <1>2, <1>3, ServedType, ServedAlike
<1>6. /\ taken[c] <= Served(counter, info[c].id, n) + 1
      /\ Served(counter, info[d].id, n) <= taken[d]
  BY <1>2, <1>4 DEF Level, n
<1> QED BY <1>1, <1>5, <1>6

\* The members of an agreeing group have taken equally many jobs, give or take
\* two, for any size of the group and however late its members join.
THEOREM EvenShares == Spec => []FairShares
  BY SharesInit, SharesStep, SharesEven, PTL DEF Spec

=============================================================================
