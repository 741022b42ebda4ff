------------------------- MODULE MultiConsumerProofs -------------------------
(* Theorems about ConsumerRegistry and MultiConsumer, for any processes, any *)
(* timing, and tasks that wait for Redis as long as they must.              *)
EXTENDS MultiConsumer, FiniteSetTheorems, TLAPS

-----------------------------------------------------------------------------
(* The inductive invariants of the registry.                               *)

\* The ticks until the last read of p.
Rest(p) == sleep[p] + (Reads - attempt[p]) * Gap

\* What a read finds when the keys are those of S.
Place(p, S) == [id |-> Cardinality({q \in S : q < p}), total |-> Cardinality(S)]

\* The key of p has at least n ticks left.
Lasts(p, n) == ttl[p] \in Nat \ {0} /\ ttl[p] >= n

\* What the lateness of p leaves of its TTL at its next heartbeat, in ticks from
\* now: the TTL less what it is late by, less the part of the sleep that is over.
Left(p) ==
    CASE pc[p] = "read" -> Ttl - late[p] + Rest(p)
      [] pc[p] = "connect" -> Ttl - late[p]
      [] OTHER -> Ttl - late[p] - Heartbeat + sleep[p]

\* As long as something is left, the key lives that long.
TimelyOf(p) ==
    /\ pc[p] = "read" => attempt[p] \in 1..Reads
    /\ pc[p] = "beat" => sleep[p] = 0
    /\ pc[p] \in {"read", "connect", "serve", "beat"} /\ late[p] < Ttl /\ Left(p) >= 1 =>
          Lasts(p, Left(p))

Timely == \A p \in Processes : TimelyOf(p)

\* The processes whose position is final: those of F, which may have died since.
Finished(F) ==
    /\ Serving \subseteq F /\ F \subseteq Processes
    /\ \A p \in F : pc[p] \in {"connect", "serve", "beat", "mute", "dead"}

\* While no key goes or comes back, the keys are those of the members.
KeysAreMembers == ~shrunk => Keys = members

\* A member has its last read a Window after the group began, or later.
ReadsSpanWindow(F) ==
    \A p \in members :
        /\ pc[p] = "read" => age + Rest(p) >= Window
        /\ p \in F => age = Window

\* A process that has read the keys.
HasRead(p, F) == p \in F \/ (pc[p] = "read" /\ attempt[p] > 1)

\* Every member that has read found the keys of a set, and these sets grew.
GrowingSnapshots(F) ==
    ~shrunk =>
        \E snap \in [Processes -> SUBSET members] :
            /\ \A p, q \in Processes : snap[p] \subseteq snap[q] \/ snap[q] \subseteq snap[p]
            /\ \A p \in members :
                  HasRead(p, F) => p \in snap[p] /\ info[p] = Place(p, snap[p])

\* Members that started together found all members.
AllFound(F) ==
    ~shrunk /\ spread < Window => \A p \in F \cap members : info[p] = Place(p, members)

GroupInv(F) ==
    /\ Finished(F) /\ KeysAreMembers /\ ReadsSpanWindow(F)
    /\ GrowingSnapshots(F) /\ AllFound(F)

-----------------------------------------------------------------------------
(* Positions.                                                              *)

\* The sets of processes are finite.
LEMMA ProcessSets ==
  ASSUME NEW S \in SUBSET Processes
  PROVE  IsFiniteSet(S) /\ Cardinality(S) \in Nat
  BY ProcessesAssumption, FS_Subset, FS_CardinalityType

\* A process has a place among the processes it belongs to.
LEMMA PlaceInRange ==
  ASSUME NEW S \in SUBSET Processes, NEW p \in S
  PROVE  /\ Place(p, S) \in [id : Nat, total : Nat \ {0}]
         /\ Place(p, S).id < Place(p, S).total
<1> DEFINE B == {q \in S : q < p}
<1>1. B \subseteq S /\ p \notin B /\ B \in SUBSET Processes
  <2>1. p \in Nat /\ ~(p < p)
    BY ProcessesAssumption
  <2> QED BY <2>1
<1>2. IsFiniteSet(S) /\ Cardinality(S) \in Nat /\ Cardinality(B) \in Nat
  BY <1>1, ProcessSets
<1> HIDE DEF B
<1>3. Cardinality(B) < Cardinality(S)
  <2>1. Cardinality(B) <= Cardinality(S) /\ (Cardinality(B) = Cardinality(S) => B = S)
    BY <1>1, <1>2, FS_Subset
  <2> QED BY <1>1, <1>2, <2>1
<1>4. Place(p, S) = [id |-> Cardinality(B), total |-> Cardinality(S)]
  BY DEF Place, B
<1> QED BY <1>2, <1>3, <1>4

\* Two processes have different places among the same processes.
LEMMA PlacesDiffer ==
  ASSUME NEW S \in SUBSET Processes, NEW p \in S, NEW q \in S, p # q
  PROVE  Place(p, S).id # Place(q, S).id
<1>1. ASSUME NEW x \in S, NEW y \in S, x < y PROVE Place(x, S).id # Place(y, S).id
  <2> DEFINE A == {z \in S : z < x}
             B == {z \in S : z < y}
  <2>1. A \subseteq B /\ x \in B /\ x \notin A
    <3>1. x \in Nat /\ y \in Nat /\ \A z \in S : z \in Nat
      BY ProcessesAssumption
    <3>2. ~(x < x) /\ \A z \in S : z < x => z < y
      BY <1>1, <3>1
    <3> QED BY <1>1, <3>2
  <2>2. B \in SUBSET Processes /\ Place(x, S).id = Cardinality(A)
        /\ Place(y, S).id = Cardinality(B)
    BY DEF Place
  <2> HIDE DEF A, B
  <2>3. IsFiniteSet(B)
    BY <2>2, ProcessSets
  <2>4. Cardinality(A) = Cardinality(B) => A = B
    BY <2>1, <2>3, FS_Subset
  <2> QED BY <2>1, <2>2, <2>4
<1>2. p < q \/ q < p
  BY ProcessesAssumption
<1> QED BY <1>1, <1>2

\* Sets of processes that have grown and have not more elements are equal.
LEMMA GrownNoLarger ==
  ASSUME NEW S \in SUBSET Processes, NEW R \in SUBSET S,
         Cardinality(S) <= Cardinality(R)
  PROVE  S = R
<1>1. Cardinality(R) <= Cardinality(S) /\ (Cardinality(R) = Cardinality(S) => R = S)
  BY ProcessSets, FS_Subset
<1>2. Cardinality(R) \in Nat /\ Cardinality(S) \in Nat
  BY ProcessSets
<1> QED BY <1>1, <1>2

\* What get_consumer_position returns is a slot of a total.
LEMMA PositionInRange ==
  ASSUME NEW p \in Processes
  PROVE  /\ Position(p) \in [id : Nat, total : Nat \ {0}]
         /\ Position(p).id < Position(p).total
         /\ p \in Keys => Position(p) = Place(p, Keys)
<1>1. Keys \in SUBSET Processes
  BY DEF Keys
<1>2. CASE p \in Keys
  BY <1>1, <1>2, PlaceInRange DEF Position, Place
<1>3. CASE p \notin Keys
  BY <1>3 DEF Position
<1> QED BY <1>2, <1>3

-----------------------------------------------------------------------------
(* Types.                                                                  *)

TtlValues == 1..Ttl \cup {NoKey, Forever}

\* The keys keep their type, whichever command runs.
LEMMA KeyTypes ==
  ASSUME ttl \in [Processes -> TtlValues], NEW p \in Processes
  PROVE  /\ AfterHset(p) \in [Processes -> TtlValues]
         /\ AfterExpire(p) \in [Processes -> TtlValues]
         /\ OneTickLess(p) \in TtlValues
  BY TimingAssumption, KeyAssumption
     DEF AfterHset, AfterExpire, OneTickLess, TtlValues

\* The ticks of a registration.
LEMMA WindowInNat == Window \in Nat
  <1>1. (Reads - 1) * Gap \in Nat
    BY TimingAssumption
  <1> QED BY <1>1, TimingAssumption DEF Window

\* Being late has an end: Ttl stands for all that is longer.
LEMMA DelayedRange ==
  ASSUME TypeOK, NEW p \in Processes
  PROVE  \A n \in Nat :
            /\ Delayed(p, n) \in 0..Ttl
            /\ Delayed(p, n) < Ttl => Delayed(p, n) = late[p] + n
<1>1. late[p] \in 0..Ttl /\ Ttl \in Nat \ {0} /\ 1 \in Nat /\ Heartbeat \in Nat
  BY TimingAssumption DEF TypeOK
<1> QED BY <1>1 DEF Delayed

\* At first no process has registered.
LEMMA RegistryInit == Init => TypeOK
<1> SUFFICES ASSUME Init PROVE TypeOK
  OBVIOUS
<1>1. \A p \in Processes : info[p] = [id |-> 0, total |-> 1]
  BY DEF Init
<1>2. info \in [Processes -> [id : Nat, total : Nat \ {0}]]
  BY DEF Init
<1>3. \A p \in Processes : info[p].id < info[p].total
  BY <1>1
<1>4. shrunk \in BOOLEAN
  BY DEF Init
<1> QED BY <1>2, <1>3, <1>4, WindowInNat, TimingAssumption DEF Init, TypeOK

GroupTypes ==
    /\ members \subseteq Processes
    /\ age \in 0..Window /\ spread \in 0..Window /\ shrunk \in BOOLEAN

\* A process begins a group, joins it or belongs to it already.
LEMMA JoinCases ==
  ASSUME NEW p \in Processes, JoinGroup(p)
  PROVE  \/ /\ Keys = {} /\ members' = {p} /\ age' = 0 /\ spread' = 0
         \/ /\ Keys # {} /\ p \notin Keys /\ members' = members \cup {p}
            /\ spread' = age /\ age' = age
         \/ /\ Keys # {} /\ p \in Keys /\ members' = members /\ age' = age
            /\ spread' = spread
  BY DEF JoinGroup, group

\* A new member hides no key that went: shrunk is left alone or, when there are
\* no keys, starts afresh.
LEMMA JoinerKeeps ==
  ASSUME NEW p \in Processes, JoinGroup(p)
  PROVE  /\ shrunk' = FALSE \/ shrunk' = shrunk
         /\ Keys # {} /\ ~shrunk' => ~shrunk
<1>1. shrunk' = FALSE \/ shrunk' = shrunk
  BY DEF JoinGroup, group
<1>2. Keys # {} => shrunk' = shrunk
  BY DEF JoinGroup, group
<1> QED BY <1>1, <1>2

\* A process joins the group, a key goes or comes back, or nothing of this.
LEMMA GroupTypesStep ==
  ASSUME GroupTypes, NEW p \in Processes,
         JoinGroup(p) \/ (Disturb /\ UNCHANGED age) \/ UNCHANGED group
  PROVE  GroupTypes'
<1>1. CASE JoinGroup(p)
  <2>1. members' \subseteq Processes
    BY <1>1, JoinCases DEF GroupTypes
  <2>2. age' \in 0..Window /\ spread' \in 0..Window
    <3>1. \/ age' = 0 /\ spread' = 0
          \/ age' = age /\ (spread' = age \/ spread' = spread)
      BY <1>1, JoinCases
    <3> QED BY <3>1, WindowInNat DEF GroupTypes
  <2>3. shrunk' \in BOOLEAN
    <3>1. shrunk' = FALSE \/ shrunk' = shrunk
      BY <1>1, JoinerKeeps
    <3> QED BY <3>1 DEF GroupTypes
  <2> QED BY <2>1, <2>2, <2>3 DEF GroupTypes
<1>2. CASE Disturb /\ UNCHANGED age
  BY <1>2 DEF GroupTypes, Disturb
<1>3. CASE UNCHANGED group
  BY <1>3 DEF GroupTypes, group
<1> QED BY <1>1, <1>2, <1>3

\* Every step of a process and of time keeps the types.
LEMMA RegistryTypes == TypeOK /\ [Next]_vars => TypeOK'
<1> SUFFICES ASSUME TypeOK, [Next]_vars PROVE TypeOK'
  OBVIOUS
<1> DEFINE Pcs == {"off", "hset", "expire", "read", "connect",
                   "serve", "beat", "mute", "single", "dead"}
<1>1. GroupTypes /\ ttl \in [Processes -> TtlValues]
  BY DEF TypeOK, GroupTypes, TtlValues
<1>2. ASSUME NEW p \in Processes,
             \/ Start(p) \/ Hset(p) \/ Expire(p) \/ RegisterError(p)
             \/ Read(p) \/ ReadError(p) \/ Connect(p) \/ ConnectError(p)
             \/ BeatHset(p) \/ BeatExpire(p) \/ BeatError(p) \/ Crash(p)
      PROVE  TypeOK'
  <2>1. GroupTypes'
    BY <1>1, <1>2, GroupTypesStep
       DEF Start, Hset, Expire, RegisterError, Read, ReadError, Connect, ConnectError,
           BeatHset, BeatExpire, BeatError, Crash, history, group
  <2>2. ttl' \in [Processes -> TtlValues]
    BY <1>1, <1>2, KeyTypes
       DEF Start, Hset, Expire, RegisterError, Read, ReadError, Connect, ConnectError,
           BeatHset, BeatExpire, BeatError, Crash
  <2>3. pc' \in [Processes -> Pcs]
    BY <1>2
       DEF TypeOK, Start, Hset, Expire, RegisterError, Read, ReadError, Connect,
           ConnectError, BeatHset, BeatExpire, BeatError, Crash
  <2>4. sleep' \in [Processes -> Nat]
    BY <1>2, TimingAssumption
       DEF TypeOK, Start, Hset, Expire, RegisterError, Read, ReadError, Connect,
           ConnectError, BeatHset, BeatExpire, BeatError, Crash
  <2>5. tries' \in [Processes -> Nat] /\ attempt' \in [Processes -> Nat]
    BY <1>2
       DEF TypeOK, Start, Hset, Expire, RegisterError, Read, ReadError, Connect,
           ConnectError, BeatHset, BeatExpire, BeatError, Crash
  <2>6. /\ info' \in [Processes -> [id : Nat, total : Nat \ {0}]]
        /\ \A q \in Processes : info'[q].id < info'[q].total
    <3>1. CASE Read(p)
      <4>1. PICK i \in {Position(p), info[p]} : info' = [info EXCEPT ![p] = i]
        BY <3>1 DEF Read
      <4>2. i \in [id : Nat, total : Nat \ {0}] /\ i.id < i.total
        BY PositionInRange DEF TypeOK
      <4> QED BY <4>1, <4>2 DEF TypeOK
    <3>2. CASE info' = info
      BY <3>2 DEF TypeOK
    <3> QED
      BY <1>2, <3>1, <3>2
         DEF Start, Hset, Expire, RegisterError, ReadError, Connect, ConnectError,
             BeatHset, BeatExpire, BeatError, Crash
  <2>7. faults' \in Nat /\ crashes' \in Nat /\ waits' \in Nat
    BY <1>2
       DEF TypeOK, Start, Hset, Expire, RegisterError, Read, ReadError, Connect,
           ConnectError, BeatHset, BeatExpire, BeatError, Crash, history
  <2>8. late' \in [Processes -> 0..Ttl]
    <3>1. Delayed(p, Heartbeat) \in 0..Ttl /\ Window \in Nat /\ Ttl \in Nat
      BY DelayedRange, WindowInNat, TimingAssumption
    <3>2. late' = late \/ \E n \in 0..Ttl : late' = [late EXCEPT ![p] = n]
      BY <1>2, <3>1
         DEF Start, Hset, Expire, RegisterError, Read, ReadError, Connect, ConnectError,
             BeatHset, BeatExpire, BeatError, Crash, history
    <3> QED BY <3>2 DEF TypeOK
  <2> QED
    BY <2>1, <2>2, <2>3, <2>4, <2>5, <2>6, <2>7, <2>8 DEF TypeOK, GroupTypes, TtlValues
<1>3. CASE Tick
  <2>1. sleep' \in [Processes -> Nat]
    BY <1>3 DEF Tick, TypeOK
  <2>2. ttl' \in [Processes -> TtlValues]
    BY <1>1, <1>3, KeyTypes DEF Tick
  <2>3. GroupTypes'
    BY <1>1, <1>3, WindowInNat DEF Tick, Disturb, GroupTypes
  <2>4. late' \in [Processes -> 0..Ttl] /\ waits' \in Nat
    BY <1>3, DelayedRange DEF Tick, TypeOK
  <2> QED BY <1>3, <2>1, <2>2, <2>3, <2>4 DEF Tick, TypeOK, GroupTypes, TtlValues
<1>4. CASE UNCHANGED vars
  BY <1>4 DEF vars, history, group, TypeOK
<1> QED BY <1>2, <1>3, <1>4 DEF Next

\* Whoever acts, and whatever it does, the registry keeps its types.
THEOREM RegistryTypeCorrect == Spec => []TypeOK
  BY RegistryInit, RegistryTypes, PTL DEF Spec

-----------------------------------------------------------------------------
(* The keys of the living.                                                 *)

\* One step of p.
StepOf(p) ==
    \/ Start(p) \/ Hset(p) \/ Expire(p) \/ RegisterError(p)
    \/ Read(p) \/ ReadError(p) \/ Connect(p) \/ ConnectError(p)
    \/ BeatHset(p) \/ BeatExpire(p) \/ BeatError(p) \/ Crash(p)

\* A process writes its own key and nothing of the others.
LEMMA OthersRest ==
  ASSUME TypeOK, NEW p \in Processes, StepOf(p), NEW q \in Processes, q # p
  PROVE  /\ pc'[q] = pc[q] /\ sleep'[q] = sleep[q] /\ ttl'[q] = ttl[q]
         /\ attempt'[q] = attempt[q] /\ info'[q] = info[q] /\ late'[q] = late[q]
<1>1. AfterHset(p)[q] = ttl[q] /\ AfterExpire(p)[q] = ttl[q]
  BY DEF TypeOK, AfterHset, AfterExpire
<1> QED
  BY <1>1 DEF StepOf, TypeOK, Start, Hset, Expire, RegisterError, Read, ReadError, Connect,
              ConnectError, BeatHset, BeatExpire, BeatError, Crash, history

\* What the commands do to the key of p.
LEMMA OwnKey ==
  ASSUME TypeOK, NEW p \in Processes
  PROVE  /\ AfterHset(p)[p] = (IF ttl[p] = NoKey THEN Forever ELSE ttl[p])
         /\ AfterExpire(p)[p] = (IF ttl[p] = NoKey THEN NoKey ELSE Ttl)
         /\ AfterHset(p)[p] # NoKey
  BY KeyAssumption DEF TypeOK, AfterHset, AfterExpire

\* The ticks to the last read, from one read to the next.
LEMMA RestStep ==
  ASSUME NEW n \in 1..Reads
  PROVE  /\ (Reads - n) * Gap \in Nat
         /\ n < Reads => (Reads - n) * Gap = (Reads - (n + 1)) * Gap + Gap
         /\ n = Reads => (Reads - n) * Gap = 0
<1>1. Reads - n \in Nat /\ Gap \in Nat /\ Reads \in Nat
  BY TimingAssumption
<1> DEFINE d == Reads - n
<1>2. d \in Nat /\ Reads - (n + 1) = d - 1 /\ (n < Reads => d # 0) /\ (n = Reads => d = 0)
  BY <1>1
<1> HIDE DEF d
<1>3. d * Gap \in Nat /\ d * Gap = (d - 1) * Gap + Gap /\ 0 * Gap = 0
  BY <1>1, <1>2
<1> QED BY <1>2, <1>3 DEF d

\* Nothing is asked of a process that neither reads nor beats.
LEMMA TimelyIdle ==
  ASSUME NEW p \in Processes, pc'[p] \notin {"read", "connect", "serve", "beat"}
  PROVE  TimelyOf(p)'
  BY DEF TimelyOf

\* A process that registers.
LEMMA TimelyRegistration ==
  ASSUME TypeOK, NEW p \in Processes, TimelyOf(p),
         Start(p) \/ Hset(p) \/ Expire(p) \/ RegisterError(p) \/ Crash(p)
  PROVE  TimelyOf(p)'
<1>1. CASE Start(p) \/ Hset(p) \/ RegisterError(p) \/ Crash(p)
  <2>1. pc'[p] \notin {"read", "connect", "serve", "beat"}
    BY <1>1 DEF TypeOK, Start, Hset, RegisterError, Crash
  <2> QED BY <2>1, TimelyIdle
<1>2. CASE Expire(p)
  <2>1. /\ pc'[p] = "read" /\ sleep'[p] = Settle /\ attempt'[p] = 1
        /\ late'[p] < Ttl => ttl[p] # NoKey /\ late'[p] = Window
    BY <1>2, TimingAssumption DEF TypeOK, Expire, Keys
  <2>2. Rest(p)' = Window
    BY <2>1 DEF Rest, Window
  <2>3. 1 \in 1..Reads /\ Ttl \in Nat \ {0} /\ Window \in Nat
    BY TimingAssumption, WindowInNat
  <2>4. ASSUME late'[p] < Ttl PROVE Lasts(p, Left(p))'
    <3>1. ttl'[p] = Ttl
      BY <1>2, <2>1, <2>4, OwnKey DEF Expire
    <3>2. Left(p)' = Ttl
      BY <2>1, <2>2, <2>3, <2>4 DEF Left
    <3> QED BY <2>3, <3>1, <3>2 DEF Lasts
  <2> QED BY <2>1, <2>3, <2>4 DEF TimelyOf
<1> QED BY <1>1, <1>2

\* A process that reads, and one whose heartbeat begins.
LEMMA TimelyRead ==
  ASSUME TypeOK, NEW p \in Processes, TimelyOf(p),
         Read(p) \/ ReadError(p) \/ Connect(p) \/ ConnectError(p)
  PROVE  TimelyOf(p)'
<1>1. CASE ReadError(p) \/ ConnectError(p)
  <2>1. pc'[p] \notin {"read", "connect", "serve", "beat"}
    BY <1>1 DEF TypeOK, ReadError, ConnectError
  <2> QED BY <2>1, TimelyIdle
<1>2. CASE Connect(p)
  <2>1. /\ pc[p] = "connect" /\ pc'[p] = "serve" /\ sleep'[p] = Heartbeat
        /\ ttl'[p] = ttl[p] /\ late'[p] = late[p] /\ late[p] \in Nat
    BY <1>2 DEF TypeOK, Connect, history
  <2>2. Left(p) = Ttl - late[p] /\ Left(p)' = Ttl - late[p] - Heartbeat + Heartbeat
    BY <2>1 DEF Left
  <2>3. Left(p)' = Left(p)
    BY <2>1, <2>2, TimingAssumption
  <2> QED BY <2>1, <2>3 DEF TimelyOf, Lasts
<1>3. CASE Read(p)
  <2>1. /\ pc[p] = "read" /\ sleep[p] = 0 /\ ttl'[p] = ttl[p] /\ late'[p] = late[p]
        /\ attempt[p] \in 1..Reads /\ late[p] \in Nat /\ Ttl \in Nat
    BY <1>3, TimingAssumption DEF TypeOK, TimelyOf, Read, history
  <2>2. Rest(p) = (Reads - attempt[p]) * Gap
    BY <2>1, RestStep DEF Rest
  <2>3. CASE attempt[p] < Reads
    <3>1. /\ attempt'[p] = attempt[p] + 1 /\ sleep'[p] = Gap /\ pc'[p] = "read"
      BY <1>3, <2>1, <2>3 DEF TypeOK, Read
    <3>2. Rest(p)' = Rest(p) /\ attempt'[p] \in 1..Reads
      <4>1. attempt[p] + 1 \in 1..Reads /\ Gap \in Nat
        BY <2>1, <2>3, TimingAssumption
      <4>2. (Reads - (attempt[p] + 1)) * Gap \in Nat
        BY <4>1, RestStep
      <4> QED BY <2>1, <2>2, <2>3, <3>1, <4>1, <4>2, RestStep DEF Rest
    <3>3. Left(p)' = Left(p)
      BY <2>1, <3>1, <3>2 DEF Left
    <3> QED BY <2>1, <3>1, <3>2, <3>3 DEF TimelyOf, Lasts
  <2>4. CASE ~(attempt[p] < Reads)
    <3>1. attempt[p] = Reads
      BY <2>1, <2>4, TimingAssumption
    <3>2. pc'[p] = "connect"
      BY <1>3, <2>4 DEF TypeOK, Read
    <3>3. Rest(p) = 0
      BY <2>1, <2>2, <3>1, RestStep
    <3>4. Left(p)' = Left(p)
      BY <2>1, <3>2, <3>3 DEF Left
    <3> QED BY <2>1, <3>2, <3>4 DEF TimelyOf, Lasts
  <2> QED BY <2>3, <2>4
<1> QED BY <1>1, <1>2, <1>3

\* A heartbeat: HSET alone changes nothing that is left, EXPIRE gives the whole TTL
\* to a key that is there, and a failure takes one heartbeat.
LEMMA TimelyBeat ==
  ASSUME TypeOK, NEW p \in Processes, TimelyOf(p),
         BeatHset(p) \/ BeatExpire(p) \/ BeatError(p)
  PROVE  TimelyOf(p)'
<1>1. /\ Ttl \in Nat \ {0} /\ Heartbeat \in Nat \ {0}
      /\ late[p] \in 0..Ttl /\ sleep[p] \in Nat /\ NoKey \notin Nat
  BY TimingAssumption, KeyAssumption DEF TypeOK
<1>2. CASE BeatHset(p)
  <2>1. /\ pc[p] = "serve" /\ sleep[p] = 0 /\ pc'[p] = "beat" /\ sleep'[p] = 0
        /\ late'[p] = late[p] /\ (ttl[p] \in Nat => ttl'[p] = ttl[p])
    BY <1>1, <1>2, OwnKey DEF TypeOK, BeatHset
  <2>2. Left(p)' = Left(p)
    BY <2>1 DEF Left
  <2> QED BY <2>1, <2>2 DEF TimelyOf, Lasts
<1>3. ASSUME pc[p] \in {"serve", "beat"}, sleep[p] = 0, pc'[p] = "serve",
             sleep'[p] = Heartbeat, late'[p] = Delayed(p, Heartbeat),
             ttl[p] \in Nat => ttl'[p] \in {ttl[p], Ttl}
      PROVE  TimelyOf(p)'
  <2> SUFFICES ASSUME late'[p] < Ttl, Left(p)' >= 1 PROVE Lasts(p, Left(p))'
    BY <1>3 DEF TimelyOf
  <2>1. late'[p] = late[p] + Heartbeat
    BY <1>1, <1>3, DelayedRange
  <2>2. Left(p) = Ttl - late[p] - Heartbeat /\ Left(p)' = Ttl - late[p] - Heartbeat
    BY <1>1, <1>3, <2>1 DEF Left
  <2>3. ttl[p] \in Nat \ {0} /\ ttl[p] >= Ttl - late[p] - Heartbeat
    BY <1>1, <1>3, <2>1, <2>2 DEF TimelyOf, Lasts
  <2> QED BY <1>1, <1>3, <2>2, <2>3 DEF Lasts
<1>4. CASE BeatExpire(p)
  <2>1. /\ pc[p] = "beat" /\ sleep[p] = 0 /\ pc'[p] = "serve" /\ sleep'[p] = Heartbeat
        /\ late'[p] = IF ttl[p] # NoKey THEN 0 ELSE Delayed(p, Heartbeat)
        /\ ttl'[p] = IF ttl[p] # NoKey THEN Ttl ELSE NoKey
    BY <1>4, OwnKey DEF TypeOK, TimelyOf, BeatExpire, Keys
  <2>2. CASE ttl[p] # NoKey
    <3>1. ttl'[p] = Ttl /\ Left(p)' = Ttl
      BY <1>1, <2>1, <2>2 DEF Left
    <3> QED BY <1>1, <2>1, <3>1 DEF TimelyOf, Lasts
  <2>3. CASE ttl[p] = NoKey
    BY <1>1, <1>3, <2>1, <2>3
  <2> QED BY <2>2, <2>3
<1>5. CASE BeatError(p)
  <2>1. /\ pc[p] \in {"serve", "beat"} /\ sleep[p] = 0 /\ pc'[p] = "serve"
        /\ sleep'[p] = Heartbeat /\ late'[p] = Delayed(p, Heartbeat)
    BY <1>5 DEF TypeOK, TimelyOf, BeatError
  <2>2. ttl[p] \in Nat => ttl'[p] \in {ttl[p], Ttl}
    BY <1>1, <1>5, OwnKey DEF BeatError
  <2> QED BY <1>3, <2>1, <2>2
<1> QED BY <1>2, <1>4, <1>5

\* A tick takes one from the sleep of p or adds one to what it is late by, and takes
\* one from its key.
LEMMA TickOf ==
  ASSUME TypeOK, Tick, NEW p \in Processes
  PROVE  /\ pc'[p] = pc[p] /\ attempt'[p] = attempt[p] /\ info'[p] = info[p]
         /\ sleep'[p] = IF sleep[p] > 0 THEN sleep[p] - 1 ELSE 0
         /\ ttl[p] \in Nat => ttl'[p] = IF ttl[p] = 1 THEN NoKey ELSE ttl[p] - 1
         /\ late'[p] = IF Waiting(p) THEN Delayed(p, 1) ELSE late[p]
  BY DEF TypeOK, Tick, OneTickLess

\* A key that lasts longer than a tick lasts one tick less after it.
LEMMA LastsTick ==
  ASSUME TypeOK, Tick, NEW p \in Processes, Lasts(p, Left(p)), Left(p) \in Int,
         Left(p)' = Left(p) - 1, Left(p)' >= 1
  PROVE  Lasts(p, Left(p))'
<1>1. ttl[p] \in Nat /\ ttl[p] >= Left(p) /\ ttl[p] # 1
  BY DEF Lasts
<1>2. ttl'[p] = ttl[p] - 1
  BY <1>1, TickOf
<1> QED BY <1>1, <1>2 DEF Lasts

\* Time passes, and takes as much from what is left as from the key.
LEMMA TimelyTick ==
  ASSUME TypeOK, NEW p \in Processes, TimelyOf(p), Tick
  PROVE  TimelyOf(p)'
<1>1. /\ sleep[p] \in Nat /\ late[p] \in 0..Ttl /\ Ttl \in Nat \ {0} /\ Heartbeat \in Nat
      /\ NoKey \notin Nat
  BY TimingAssumption, KeyAssumption DEF TypeOK
<1>2. CASE pc[p] \notin {"read", "connect", "serve", "beat"}
  <2>1. pc'[p] \notin {"read", "connect", "serve", "beat"}
    BY <1>2, TickOf
  <2> QED BY <2>1, TimelyIdle
<1>3. CASE pc[p] \in {"read", "connect", "serve", "beat"}
  <2>1. /\ pc'[p] = "read" => attempt'[p] \in 1..Reads
        /\ pc'[p] = "beat" => sleep'[p] = 0
    BY TickOf DEF TimelyOf
  <2>2. ASSUME late'[p] < Ttl, Left(p)' >= 1 PROVE Lasts(p, Left(p))'
    <3>1. CASE Waiting(p)
      <4>1. late'[p] = late[p] + 1
        BY <1>1, <2>2, <3>1, TickOf, DelayedRange
      <4>2. CASE pc[p] = "connect"
        <5>1. Left(p) = Ttl - late[p] /\ Left(p)' = Ttl - (late[p] + 1)
          BY <4>1, <4>2, TickOf DEF Left
        <5>2. Left(p) \in Int /\ Left(p)' = Left(p) - 1 /\ late[p] < Ttl
          BY <1>1, <2>2, <4>1, <5>1
        <5>3. Lasts(p, Left(p))
          BY <2>2, <4>2, <5>2 DEF TimelyOf
        <5> QED BY <2>2, <5>2, <5>3, LastsTick
      <4>3. CASE pc[p] = "read"
        <5>1. sleep[p] = 0 /\ sleep'[p] = 0 /\ attempt'[p] = attempt[p] /\ pc'[p] = "read"
          BY <3>1, <4>3, TickOf DEF Waiting
        <5>2. Rest(p)' = Rest(p) /\ Rest(p) \in Nat
          BY <4>3, <5>1, RestStep DEF Rest, TimelyOf
        <5>3. Left(p) = Ttl - late[p] + Rest(p) /\ Left(p)' = Ttl - (late[p] + 1) + Rest(p)
          BY <4>1, <4>3, <5>1, <5>2 DEF Left
        <5>4. Left(p) \in Int /\ Left(p)' = Left(p) - 1 /\ late[p] < Ttl
          BY <1>1, <2>2, <4>1, <5>2, <5>3
        <5>5. Lasts(p, Left(p))
          BY <2>2, <4>3, <5>4 DEF TimelyOf
        <5> QED BY <2>2, <5>4, <5>5, LastsTick
      <4>4. CASE pc[p] \in {"serve", "beat"}
        <5>1. sleep[p] = 0 /\ sleep'[p] = 0 /\ pc'[p] = pc[p]
          BY <3>1, <4>4, TickOf DEF Waiting, TimelyOf
        <5>2. Left(p) = Ttl - late[p] - Heartbeat + 0
              /\ Left(p)' = Ttl - (late[p] + 1) - Heartbeat + 0
          BY <4>1, <4>4, <5>1 DEF Left
        <5>3. Left(p) \in Int /\ Left(p)' = Left(p) - 1 /\ late[p] < Ttl
          BY <1>1, <2>2, <4>1, <5>2
        <5>4. Lasts(p, Left(p))
          BY <2>2, <4>4, <5>3 DEF TimelyOf
        <5> QED BY <2>2, <5>3, <5>4, LastsTick
      <4> QED BY <1>3, <4>2, <4>3, <4>4
    <3>2. CASE ~Waiting(p)
      <4>1. /\ pc[p] \in {"read", "serve"} /\ pc'[p] = pc[p] /\ late'[p] = late[p]
            /\ sleep[p] > 0 /\ sleep'[p] = sleep[p] - 1 /\ attempt'[p] = attempt[p]
        BY <1>1, <1>3, <3>2, TickOf DEF Waiting
      <4>2. CASE pc[p] = "read"
        <5> DEFINE g == (Reads - attempt[p]) * Gap
        <5>1. g \in Nat
          BY <4>2, RestStep DEF TimelyOf
        <5>2. Left(p) = Ttl - late[p] + (sleep[p] + g)
              /\ Left(p)' = Ttl - late[p] + (sleep[p] - 1 + g)
          BY <4>1, <4>2 DEF Left, Rest
        <5> HIDE DEF g
        <5>3. Left(p) \in Int /\ Left(p)' = Left(p) - 1
          BY <1>1, <5>1, <5>2
        <5>4. Lasts(p, Left(p))
          BY <2>2, <4>1, <4>2, <5>3 DEF TimelyOf
        <5> QED BY <2>2, <5>3, <5>4, LastsTick
      <4>3. CASE pc[p] = "serve"
        <5>1. Left(p) = Ttl - late[p] - Heartbeat + sleep[p]
              /\ Left(p)' = Ttl - late[p] - Heartbeat + (sleep[p] - 1)
          BY <4>1, <4>3 DEF Left
        <5>2. Left(p) \in Int /\ Left(p)' = Left(p) - 1
          BY <1>1, <5>1
        <5>3. Lasts(p, Left(p))
          BY <2>2, <4>1, <4>3, <5>2 DEF TimelyOf
        <5> QED BY <2>2, <5>2, <5>3, LastsTick
      <4> QED BY <4>1, <4>2, <4>3
    <3> QED BY <3>1, <3>2
  <2> QED BY <2>1, <2>2 DEF TimelyOf
<1> QED BY <1>2, <1>3

\* Every step keeps the keys of the living alive.
LEMMA TimelyStep == TypeOK /\ Timely /\ [Next]_vars => Timely'
<1> SUFFICES ASSUME TypeOK, Timely, [Next]_vars, NEW q \in Processes
             PROVE  TimelyOf(q)'
  BY DEF Timely
<1>1. TimelyOf(q)
  BY DEF Timely
<1>2. ASSUME NEW p \in Processes, StepOf(p) PROVE TimelyOf(q)'
  <2>1. CASE q = p
    BY <1>1, <1>2, <2>1, TimelyRegistration, TimelyRead, TimelyBeat DEF StepOf
  <2>2. CASE q # p
    BY <1>1, <1>2, <2>2, OthersRest DEF TimelyOf, Lasts, Left, Rest
  <2> QED BY <2>1, <2>2
<1>3. CASE Tick
  BY <1>1, <1>3, TimelyTick
<1>4. CASE UNCHANGED vars
  BY <1>1, <1>4 DEF TimelyOf, Lasts, Left, Rest, vars, history
<1> QED BY <1>2, <1>3, <1>4 DEF Next, StepOf

\* No process has a key yet.
LEMMA TimelyInit == Init => Timely
  BY DEF Init, Timely, TimelyOf

\* A process keeps its key until its heartbeat is late by the TTL less one heartbeat,
\* whatever makes it late: its registration, heartbeats that fail, or any time in
\* which its task waits for Redis (heartbeat_task of consumer_registry.rs).
THEOREM LiveKeysAreKept == Spec => []LiveKeyKept
<1>1. TypeOK /\ Timely => LiveKeyKept
  <2> SUFFICES ASSUME TypeOK, Timely, NEW p \in Beating, late[p] < Ttl - Heartbeat
               PROVE  p \in Keys
    BY DEF LiveKeyKept
  <2>1. /\ p \in Processes /\ pc[p] \in {"connect", "serve", "beat"} /\ late[p] \in Nat
        /\ sleep[p] \in Nat /\ Ttl \in Nat /\ Heartbeat \in Nat
    BY TimingAssumption DEF Beating, TypeOK
  <2>2. late[p] < Ttl /\ Left(p) >= 1
    BY <2>1 DEF Left
  <2>3. ttl[p] \in Nat
    BY <2>1, <2>2 DEF Timely, TimelyOf, Lasts
  <2> QED BY <2>1, <2>3, KeyAssumption DEF Keys
<1>2. Init => TypeOK /\ Timely
  BY RegistryInit, TimelyInit
<1>3. (TypeOK /\ Timely) /\ [Next]_vars => (TypeOK /\ Timely)'
  BY RegistryTypes, TimelyStep
<1> QED BY <1>1, <1>2, <1>3, PTL DEF Spec

-----------------------------------------------------------------------------
(* The group and its positions.                                            *)

\* HSET creates the key of p and EXPIRE creates none.
LEMMA KeysAfter ==
  ASSUME TypeOK, NEW p \in Processes
  PROVE  /\ ttl' = AfterHset(p) => Keys' = Keys \cup {p}
         /\ ttl' = AfterExpire(p) => Keys' = Keys
<1>1. ASSUME ttl' = AfterHset(p) PROVE Keys' = Keys \cup {p}
  <2>1. \A q \in Processes : ttl'[q] # NoKey <=> ttl[q] # NoKey \/ q = p
    BY <1>1, KeyAssumption DEF AfterHset, TypeOK
  <2> QED BY <2>1 DEF Keys
<1>2. ASSUME ttl' = AfterExpire(p) PROVE Keys' = Keys
  <2>1. \A q \in Processes : ttl'[q] # NoKey <=> ttl[q] # NoKey
    BY <1>2, KeyAssumption, TimingAssumption DEF AfterExpire, TypeOK
  <2> QED BY <2>1 DEF Keys
<1> QED BY <1>1, <1>2

\* A step adds a process to the group, makes a key go or come back, or does nothing
\* of this.
LEMMA GroupMoves ==
  ASSUME TypeOK, [Next]_vars
  PROVE  \/ \E p \in Processes : Hset(p)
         \/ Disturb /\ (age' = age \/ Tick)
         \/ UNCHANGED group /\ Keys' = Keys
<1>1. ASSUME NEW p \in Processes, StepOf(p)
      PROVE  Hset(p) \/ (Disturb /\ age' = age) \/ (UNCHANGED group /\ Keys' = Keys)
  <2>1. CASE Hset(p)
    BY <2>1
  <2>2. CASE BeatHset(p)
    BY <2>2 DEF BeatHset
  <2>3. CASE Expire(p) \/ BeatExpire(p) \/ RegisterError(p) \/ BeatError(p)
    <3>1. (ttl' = ttl \/ ttl' = AfterExpire(p)) /\ UNCHANGED group
      BY <2>3 DEF Expire, BeatExpire, RegisterError, BeatError, history
    <3> QED BY <3>1, KeysAfter DEF Keys
  <2>4. CASE Start(p) \/ Read(p) \/ ReadError(p) \/ Connect(p) \/ ConnectError(p) \/ Crash(p)
    <3>1. ttl' = ttl /\ UNCHANGED group
      BY <2>4 DEF Start, Read, ReadError, Connect, ConnectError, Crash, history
    <3> QED BY <3>1 DEF Keys
  <2> QED BY <1>1, <2>1, <2>2, <2>3, <2>4 DEF StepOf
<1>2. CASE Tick
  BY <1>2 DEF Tick
<1>3. CASE UNCHANGED vars
  <2>1. ttl' = ttl /\ UNCHANGED group
    BY <1>3 DEF vars, history
  <2> QED BY <2>1 DEF Keys
<1> QED BY <1>1, <1>2, <1>3 DEF Next, StepOf

\* Members register, and the key of a member stays as long as no key goes.
LEMMA KeysAreMembersStep ==
  TypeOK /\ KeysAreMembers /\ [Next]_vars => KeysAreMembers'
<1> SUFFICES ASSUME TypeOK, KeysAreMembers, [Next]_vars, ~shrunk' PROVE Keys' = members'
  BY DEF KeysAreMembers
<1>1. ASSUME NEW p \in Processes, Hset(p) PROVE Keys' = members'
  <2>1. Keys' = Keys \cup {p} /\ JoinGroup(p)
    BY <1>1, KeysAfter DEF Hset
  <2>2. CASE Keys = {}
    BY <2>1, <2>2, JoinCases
  <2>3. CASE Keys # {}
    <3>1. ~shrunk
      BY <2>1, <2>3, JoinerKeeps
    <3>2. Keys = members
      BY <3>1 DEF KeysAreMembers
    <3> QED BY <2>1, <2>3, <3>2, JoinCases
  <2> QED BY <2>2, <2>3
<1>2. CASE Disturb
  <2>1. ~shrunk /\ Keys' = Keys /\ members' = members
    BY <1>2 DEF Disturb
  <2> QED BY <2>1 DEF KeysAreMembers
<1>3. CASE UNCHANGED group /\ Keys' = Keys
  <2>1. shrunk' = shrunk /\ members' = members
    BY <1>3 DEF group
  <2>2. ~shrunk
    BY <2>1
  <2> QED BY <1>3, <2>1, <2>2 DEF KeysAreMembers
<1> QED BY <1>1, <1>2, <1>3, GroupMoves

\* A position is final: only the process itself, while it reads, has changed it.
LEMMA FinalStep ==
  ASSUME TypeOK, [Next]_vars, NEW q \in Processes
  PROVE  /\ pc[q] \in {"connect", "serve", "beat", "mute", "dead"} =>
               /\ pc'[q] \in {"connect", "serve", "beat", "mute", "dead"}
               /\ info'[q] = info[q]
         /\ q \in Serving' => q \in Serving \/ (Read(q) /\ attempt[q] >= Reads)
<1>1. ASSUME NEW p \in Processes, StepOf(p), p # q
      PROVE  pc'[q] = pc[q] /\ info'[q] = info[q]
  BY <1>1, OthersRest
<1>2. ASSUME StepOf(q)
      PROVE  /\ pc[q] \in {"connect", "serve", "beat", "mute", "dead"} =>
                   /\ pc'[q] \in {"connect", "serve", "beat", "mute", "dead"}
                   /\ info'[q] = info[q]
             /\ pc'[q] \in {"connect", "serve", "beat", "mute"} =>
                   \/ pc[q] \in {"connect", "serve", "beat", "mute"}
                   \/ Read(q) /\ attempt[q] >= Reads
  <2>1. CASE Read(q)
    <3>1. attempt[q] \in Nat /\ Reads \in Nat
      BY TimingAssumption DEF TypeOK
    <3> QED BY <2>1, <3>1 DEF Read, TypeOK
  <2>2. CASE ~Read(q)
    BY <1>2, <2>2
       DEF StepOf, TypeOK, Start, Hset, Expire, RegisterError, ReadError, Connect,
           ConnectError, BeatHset, BeatExpire, BeatError, Crash
  <2> QED BY <2>1, <2>2
<1>3. Serving = {p \in Processes : pc[p] \in {"connect", "serve", "beat", "mute"}}
  BY DEF Serving, Beating
<1>4. Serving' = {p \in Processes : pc'[p] \in {"connect", "serve", "beat", "mute"}}
  BY DEF Serving, Beating
<1>5. CASE Tick \/ UNCHANGED vars
  <2>1. pc' = pc /\ info' = info
    BY <1>5 DEF Tick, vars
  <2> QED BY <1>3, <1>4, <2>1
<1> QED BY <1>1, <1>2, <1>3, <1>4, <1>5 DEF Next, StepOf

\* The finished stay finished when those that serve now are added.
LEMMA FinishedStep ==
  ASSUME TypeOK, NEW F, Finished(F), [Next]_vars,
         NEW G, Serving' \subseteq G, G \subseteq F \cup Serving'
  PROVE  Finished(G)'
<1>1. Serving' = {p \in Processes : pc'[p] \in {"connect", "serve", "beat", "mute"}}
  BY DEF Serving, Beating
<1>2. ASSUME NEW q \in G PROVE pc'[q] \in {"connect", "serve", "beat", "mute", "dead"}
  BY <1>1, FinalStep DEF Finished
<1>3. G \subseteq Processes
  BY <1>1 DEF Finished
<1> QED BY <1>2, <1>3 DEF Finished

\* How a process comes to be reading, and how long it still will.
LEMMA ReadingStep ==
  ASSUME TypeOK, Timely, [Next]_vars, NEW q \in Processes, pc'[q] = "read"
  PROVE  \/ attempt'[q] = 1 /\ Rest(q)' = Window
         \/ pc[q] = "read" /\ Rest(q)' = Rest(q) /\ Read(q)
         \/ /\ pc[q] = "read" /\ attempt'[q] = attempt[q] /\ info'[q] = info[q]
            /\ Rest(q)' = Rest(q) \/ (Tick /\ Rest(q)' = Rest(q) - 1)
<1>1. ASSUME NEW p \in Processes, StepOf(p), p # q
      PROVE  /\ pc[q] = "read" /\ attempt'[q] = attempt[q] /\ info'[q] = info[q]
             /\ Rest(q)' = Rest(q)
  BY <1>1, OthersRest DEF Rest
<1>2. CASE Expire(q)
  <2>1. attempt'[q] = 1 /\ sleep'[q] = Settle
    BY <1>2 DEF Expire, TypeOK
  <2> QED BY <2>1 DEF Rest, Window
<1>3. CASE Read(q)
  <2>1. /\ attempt[q] < Reads /\ attempt'[q] = attempt[q] + 1 /\ sleep'[q] = Gap
        /\ sleep[q] = 0 /\ pc[q] = "read" /\ attempt[q] \in 1..Reads
    BY <1>3 DEF Read, TypeOK, Timely, TimelyOf
  <2>2. attempt[q] + 1 \in 1..Reads /\ Gap \in Nat
    BY <2>1, TimingAssumption
  <2>3. (Reads - (attempt[q] + 1)) * Gap \in Nat
    BY <2>2, RestStep
  <2>4. Rest(q)' = Rest(q)
    BY <2>1, <2>2, <2>3, RestStep DEF Rest
  <2> QED BY <1>3, <2>1, <2>4
<1>4. ASSUME StepOf(q) PROVE Expire(q) \/ Read(q)
  BY <1>4
     DEF StepOf, TypeOK, Start, Hset, RegisterError, ReadError, Connect,
         ConnectError, BeatHset, BeatExpire, BeatError, Crash
<1>5. CASE Tick
  <2>1. /\ pc[q] = "read" /\ sleep'[q] = (IF sleep[q] > 0 THEN sleep[q] - 1 ELSE 0)
        /\ attempt'[q] = attempt[q] /\ info'[q] = info[q] /\ sleep[q] \in Nat
    BY <1>5, TickOf DEF TypeOK
  <2>2. (Reads - attempt[q]) * Gap \in Nat
    BY <2>1, RestStep DEF Timely, TimelyOf
  <2>3. CASE sleep[q] = 0
    BY <2>1, <2>3 DEF Rest
  <2>4. ASSUME sleep[q] > 0 PROVE Rest(q)' = Rest(q) - 1
    <3> DEFINE g == (Reads - attempt[q]) * Gap
    <3>1. Rest(q) = sleep[q] + g /\ Rest(q)' = sleep[q] - 1 + g
      BY <2>1, <2>4 DEF Rest
    <3> HIDE DEF g
    <3>2. g \in Nat
      BY <2>2 DEF g
    <3> QED BY <2>1, <3>1, <3>2
  <2> QED BY <1>5, <2>1, <2>3, <2>4
<1>6. CASE UNCHANGED vars
  BY <1>6 DEF vars, Rest
<1> QED BY <1>1, <1>2, <1>3, <1>4, <1>5, <1>6 DEF Next, StepOf

\* A process that joins has not read yet.
LEMMA JoinerIsNew ==
  ASSUME TypeOK, NEW p \in Processes, Hset(p)
  PROVE  StepOf(p) /\ pc'[p] = "expire"
  BY DEF TypeOK, Hset, StepOf

\* Without a new member the group stays as it is, but for a key that goes.
LEMMA NoJoin ==
  ASSUME TypeOK, [Next]_vars, ~\E p \in Processes : Hset(p)
  PROVE  /\ members' = members /\ spread' = spread /\ (~shrunk' => ~shrunk)
         /\ age' = age \/ Tick
<1>1. CASE Disturb /\ (age' = age \/ Tick)
  <2>1. ~shrunk' => ~shrunk
    BY <1>1 DEF Disturb
  <2> QED BY <1>1, <2>1 DEF Disturb
<1>2. CASE UNCHANGED group
  <2>1. shrunk' = shrunk
    BY <1>2 DEF group
  <2> QED BY <1>2, <2>1 DEF group
<1> QED BY <1>1, <1>2, GroupMoves

\* The clock of the group stops at Window.
LEMMA AgeStep ==
  ASSUME TypeOK, Tick
  PROVE  (age < Window /\ members # {} => age' = age + 1) /\ (age = Window => age' = age)
  BY WindowInNat DEF Tick, TypeOK

\* The last read of every member stays a Window or more after the beginning.
LEMMA ReadsSpanWindowStep ==
  ASSUME TypeOK, Timely, TypeOK', Timely', [Next]_vars,
         NEW F, Finished(F), ReadsSpanWindow(F),
         NEW G, Serving' \subseteq G, G \subseteq F \cup Serving'
  PROVE  ReadsSpanWindow(G)'
<1> SUFFICES ASSUME NEW q \in members'
             PROVE  /\ pc'[q] = "read" => age' + Rest(q)' >= Window
                    /\ q \in G => age' = Window
  BY DEF ReadsSpanWindow
<1>1. /\ q \in Processes /\ age \in Nat /\ age' \in Nat /\ age <= Window /\ age' <= Window
      /\ Window \in Nat
  BY WindowInNat DEF TypeOK
<1>2. Finished(G)'
  BY FinishedStep
<1>3. ASSUME NEW p \in Processes, Hset(p)
      PROVE  /\ pc'[q] = "read" => age' + Rest(q)' >= Window
             /\ q \in G => age' = Window
  <2>1. StepOf(p) /\ pc'[p] = "expire"
    BY <1>3, JoinerIsNew
  <2>2. CASE q = p
    BY <1>2, <2>1, <2>2 DEF Finished
  <2>3. CASE q # p
    <3>1. q \in members /\ age' = age
      BY <1>3, <2>3, JoinCases DEF Hset
    <3>2. pc'[q] = pc[q] /\ Rest(q)' = Rest(q)
      BY <1>1, <2>1, <2>3, OthersRest DEF Rest
    <3>3. q \in G => q \in F
      BY <1>1, <3>2 DEF Finished, Serving, Beating
    <3> QED BY <3>1, <3>2, <3>3 DEF ReadsSpanWindow
  <2> QED BY <2>2, <2>3
<1>4. CASE ~\E p \in Processes : Hset(p)
  <2>1. q \in members /\ (age' = age \/ Tick)
    BY <1>4, NoJoin
  <2>2. /\ age = Window => age' = Window
        /\ Tick => age' = age + 1 \/ (age = Window /\ age' = Window)
        /\ age' >= age
    BY <1>1, <2>1, AgeStep
  <2>3. ASSUME pc'[q] = "read" PROVE age' + Rest(q)' >= Window
    <3>1. Rest(q)' \in Nat
      <4>1. attempt'[q] \in 1..Reads /\ sleep'[q] \in Nat
        BY <1>1, <2>3 DEF TypeOK, Timely, TimelyOf
      <4>2. (Reads - attempt'[q]) * Gap \in Nat
        BY <4>1, RestStep
      <4> QED BY <4>1, <4>2 DEF Rest
    <3>2. PICK s \in Nat : s = Rest(q)'
      BY <3>1
    <3>3. CASE Rest(q)' = Window
      <4>1. s = Window
        BY <3>2, <3>3
      <4>2. \A a, b \in Nat : a + b >= b
        OBVIOUS
      <4>3. age' + s >= s
        BY <1>1, <4>2
      <4> QED BY <3>2, <4>1, <4>3
    <3>4. ASSUME pc[q] = "read"
          PROVE  \E r \in Nat : r = Rest(q) /\ age + r >= Window
      <4>1. attempt[q] \in 1..Reads /\ sleep[q] \in Nat
        BY <1>1, <3>4 DEF TypeOK, Timely, TimelyOf
      <4>2. (Reads - attempt[q]) * Gap \in Nat
        BY <4>1, RestStep
      <4>3. Rest(q) \in Nat /\ age + Rest(q) >= Window
        BY <2>1, <3>4, <4>1, <4>2 DEF Rest, ReadsSpanWindow
      <4> QED BY <4>3
    <3>5. CASE pc[q] = "read" /\ Rest(q)' = Rest(q)
      <4>1. PICK r \in Nat : r = Rest(q) /\ age + r >= Window
        BY <3>4, <3>5
      <4>2. age' + s >= Window
        BY <1>1, <2>2, <3>2, <3>5, <4>1
      <4> QED BY <3>2, <4>2
    <3>6. CASE pc[q] = "read" /\ Tick /\ Rest(q)' = Rest(q) - 1
      <4>1. PICK r \in Nat : r = Rest(q) /\ age + r >= Window
        BY <3>4, <3>6
      <4>2. age' = age + 1 \/ age' = Window
        BY <2>2, <3>6
      <4>3. s = r - 1
        BY <3>2, <3>6, <4>1
      <4>4. age' + s >= Window
        BY <1>1, <4>1, <4>2, <4>3
      <4> QED BY <3>2, <4>4
    <3> QED BY <1>1, <2>3, <3>3, <3>5, <3>6, ReadingStep
  <2>4. ASSUME q \in G PROVE age' = Window
    <3>1. CASE q \in F
      BY <2>1, <2>2, <3>1 DEF ReadsSpanWindow
    <3>2. CASE q \notin F
      <4>1. Read(q) /\ attempt[q] >= Reads
        BY <1>1, <2>4, <3>2, FinalStep DEF Finished
      <4>2. /\ pc[q] = "read" /\ sleep[q] = 0 /\ age' = age /\ attempt[q] \in 1..Reads
        BY <1>1, <4>1 DEF Read, history, group, Timely, TimelyOf
      <4>3. attempt[q] = Reads
        BY <4>1, <4>2, TimingAssumption
      <4>4. Rest(q) = 0
        BY <4>2, <4>3, RestStep DEF Rest
      <4>5. age + 0 >= Window
        BY <2>1, <4>2, <4>4 DEF ReadsSpanWindow
      <4> QED BY <1>1, <4>2, <4>5
    <3> QED BY <3>1, <3>2
  <2> QED BY <2>3, <2>4
<1> QED BY <1>3, <1>4

\* Whoever has read and does not read now had read before, and found the same.
LEMMA HasReadStep ==
  ASSUME TypeOK, Timely, [Next]_vars, NEW F, Finished(F),
         NEW G, Serving' \subseteq G, G \subseteq F \cup Serving',
         NEW q \in Processes, HasRead(q, G)'
  PROVE  (HasRead(q, F) /\ info'[q] = info[q]) \/ Read(q)
<1>1. CASE q \in G
  <2>1. CASE q \in F
    BY <2>1, FinalStep DEF Finished, HasRead
  <2>2. CASE q \notin F
    BY <1>1, <2>2, FinalStep DEF Finished
  <2> QED BY <2>1, <2>2
<1>2. CASE pc'[q] = "read" /\ attempt'[q] > 1
  <2>1. \/ Read(q)
        \/ pc[q] = "read" /\ attempt'[q] = attempt[q] /\ info'[q] = info[q]
    BY <1>2, ReadingStep
  <2> QED BY <1>2, <2>1 DEF HasRead
<1> QED BY <1>1, <1>2 DEF HasRead

\* The same while a process joins.
LEMMA HasReadJoin ==
  ASSUME TypeOK, [Next]_vars, NEW F, Finished(F),
         NEW G, Serving' \subseteq G, G \subseteq F \cup Serving',
         NEW p \in Processes, Hset(p), NEW q \in Processes, HasRead(q, G)'
  PROVE  q # p /\ HasRead(q, F) /\ info'[q] = info[q] /\ (q \in G => q \in F)
<1>1. StepOf(p) /\ pc'[p] = "expire"
  BY JoinerIsNew
<1>2. Finished(G)'
  BY FinishedStep
<1>3. q # p
  BY <1>1, <1>2 DEF Finished, HasRead
<1>4. /\ pc'[q] = pc[q] /\ attempt'[q] = attempt[q] /\ info'[q] = info[q]
  BY <1>1, <1>3, OthersRest
<1>5. q \in G => q \in F
  BY <1>4 DEF Finished, Serving, Beating
<1> QED BY <1>3, <1>4, <1>5 DEF HasRead

\* What a read of a member leaves it with, as long as no key goes.
LEMMA MemberReads ==
  ASSUME TypeOK, Timely, KeysAreMembers, ~shrunk, NEW p \in Processes, Read(p)
  PROVE  /\ \/ p \in members => info'[p] = Place(p, members)
            \/ info' = info /\ pc[p] = "read" /\ attempt[p] > 1
         /\ p \in members => info'[p] = Place(p, members)
                               \/ Cardinality(members) <= info[p].total
         /\ pc[p] = "read" /\ ttl' = ttl
<1>1. /\ pc[p] = "read" /\ attempt[p] \in 1..Reads /\ ttl' = ttl
      /\ info' = [info EXCEPT ![p] =
           IF Position(p).total > info[p].total \/ attempt[p] = 1
           THEN Position(p) ELSE info[p]]
  BY DEF Read, Timely, TimelyOf
<1>2. p \in members => Position(p) = Place(p, members)
  BY PositionInRange DEF KeysAreMembers
<1>3. CASE Position(p).total > info[p].total \/ attempt[p] = 1
  <2>1. info'[p] = Position(p)
    BY <1>1, <1>3 DEF TypeOK
  <2> QED BY <1>1, <1>2, <2>1
<1>4. CASE ~(Position(p).total > info[p].total \/ attempt[p] = 1)
  <2>1. info' = info /\ attempt[p] > 1
    BY <1>1, <1>4 DEF TypeOK
  <2>2. Position(p).total <= info[p].total
    BY <1>4, PositionInRange DEF TypeOK
  <2>3. p \in members => Position(p).total = Cardinality(members)
    BY <1>2 DEF Place
  <2> QED BY <1>1, <2>1, <2>2, <2>3
<1> QED BY <1>3, <1>4

\* A read finds a set that contains all the sets found before it.
LEMMA SnapshotsStep ==
  ASSUME TypeOK, Timely, [Next]_vars, NEW F, Finished(F), KeysAreMembers,
         GrowingSnapshots(F),
         NEW G, Serving' \subseteq G, G \subseteq F \cup Serving'
  PROVE  GrowingSnapshots(G)'
<1> DEFINE Grow(s) == \A p, q \in Processes : s[p] \subseteq s[q] \/ s[q] \subseteq s[p]
<1> SUFFICES ASSUME ~shrunk'
             PROVE  \E s \in [Processes -> SUBSET members'] :
                       /\ Grow(s)
                       /\ \A q \in members' :
                             HasRead(q, G)' => q \in s[q] /\ info'[q] = Place(q, s[q])
  BY DEF GrowingSnapshots, Place
<1>1. members \subseteq Processes
  BY DEF TypeOK
<1>2. ASSUME ~shrunk
      PROVE  \E s \in [Processes -> SUBSET members] :
                /\ Grow(s)
                /\ \A q \in members :
                      HasRead(q, F) => q \in s[q] /\ info[q] = Place(q, s[q])
  BY <1>2 DEF GrowingSnapshots
<1> HIDE DEF Grow
<1>3. ASSUME NEW p \in Processes, Hset(p)
      PROVE  \E s \in [Processes -> SUBSET members'] :
                /\ Grow(s)
                /\ \A q \in members' :
                      HasRead(q, G)' => q \in s[q] /\ info'[q] = Place(q, s[q])
  <2>1. JoinGroup(p)
    BY <1>3 DEF Hset
  <2>2. CASE Keys = {}
    <3> DEFINE s == [q \in Processes |-> {}]
    <3>1. s \in [Processes -> SUBSET members'] /\ Grow(s)
      BY DEF Grow
    <3>2. members' = {p}
      BY <2>1, <2>2, JoinCases
    <3>3. ~HasRead(p, G)'
      BY <1>3, HasReadJoin
    <3> HIDE DEF s
    <3> QED BY <3>1, <3>2, <3>3
  <2>3. CASE Keys # {}
    <3>1. ~shrunk /\ members \subseteq members' /\ members' \subseteq members \cup {p}
      BY <2>1, <2>3, JoinCases, JoinerKeeps
    <3>2. PICK s \in [Processes -> SUBSET members] :
             /\ Grow(s)
             /\ \A q \in members :
                   HasRead(q, F) => q \in s[q] /\ info[q] = Place(q, s[q])
      BY <1>2, <3>1
    <3>3. s \in [Processes -> SUBSET members']
      BY <3>1
    <3>4. ASSUME NEW q \in members', HasRead(q, G)'
          PROVE  q \in s[q] /\ info'[q] = Place(q, s[q])
      <4>1. q \in Processes
        BY <1>1, <3>1
      <4>2. q # p /\ HasRead(q, F) /\ info'[q] = info[q]
        BY <1>3, <3>4, <4>1, HasReadJoin
      <4> QED BY <3>1, <3>2, <4>2
    <3> QED BY <3>2, <3>3, <3>4
  <2> QED BY <2>2, <2>3
<1>4. CASE ~\E p \in Processes : Hset(p)
  <2>1. members' = members /\ ~shrunk
    BY <1>4, NoJoin
  <2>2. PICK s \in [Processes -> SUBSET members] :
           /\ Grow(s)
           /\ \A q \in members :
                 HasRead(q, F) => q \in s[q] /\ info[q] = Place(q, s[q])
    BY <1>2, <2>1
  <2>3. CASE \E p \in members : Read(p) /\ info'[p] = Place(p, members)
    <3>1. PICK p \in members : Read(p) /\ info'[p] = Place(p, members)
      BY <2>3
    <3> DEFINE t == [s EXCEPT ![p] = members]
    <3>2. t \in [Processes -> SUBSET members] /\ t[p] = members
          /\ \A q \in Processes : q # p => t[q] = s[q]
      BY <1>1
    <3>3. Grow(t)
      BY <1>1, <2>2, <3>2 DEF Grow
    <3>4. ASSUME NEW q \in members, HasRead(q, G)'
          PROVE  q \in t[q] /\ info'[q] = Place(q, t[q])
      <4>1. CASE q = p
        BY <3>1, <3>2, <4>1
      <4>2. CASE q # p
        <5>1. HasRead(q, F) /\ info'[q] = info[q]
          <6>1. pc'[q] = pc[q] /\ attempt'[q] = attempt[q] /\ info'[q] = info[q]
            BY <1>1, <3>1, <4>2, OthersRest DEF StepOf
          <6>2. q \in G => q \in F
            BY <1>1, <6>1 DEF Finished, Serving, Beating
          <6> QED BY <3>4, <6>1, <6>2 DEF HasRead
        <5> QED BY <1>1, <2>2, <3>2, <4>2, <5>1
      <4> QED BY <4>1, <4>2
    <3> HIDE DEF t
    <3> QED BY <2>1, <3>2, <3>3, <3>4
  <2>4. CASE ~\E p \in members : Read(p) /\ info'[p] = Place(p, members)
    <3>1. ASSUME NEW q \in members, HasRead(q, G)'
          PROVE  HasRead(q, F) /\ info'[q] = info[q]
      <4>1. CASE Read(q)
        BY <1>1, <2>1, <2>4, <4>1, MemberReads DEF HasRead
      <4>2. CASE ~Read(q)
        BY <1>1, <3>1, <4>2, HasReadStep
      <4> QED BY <4>1, <4>2
    <3> QED BY <2>1, <2>2, <3>1
  <2> QED BY <2>3, <2>4
<1> QED BY <1>3, <1>4

\* The last read of a member of a startup comes after its last registration.
LEMMA AllFoundStep ==
  ASSUME TypeOK, Timely, [Next]_vars, NEW F, Finished(F), KeysAreMembers,
         ReadsSpanWindow(F), GrowingSnapshots(F), AllFound(F),
         NEW G, Serving' \subseteq G, G \subseteq F \cup Serving'
  PROVE  AllFound(G)'
<1> SUFFICES ASSUME ~shrunk', spread' < Window, NEW q \in G \cap members'
             PROVE  info'[q] = Place(q, members')
  BY DEF AllFound, Place
<1>1. /\ members \subseteq Processes /\ q \in Processes /\ HasRead(q, G)'
      /\ \A r \in members : r \in F => age = Window
      /\ Window \in Nat
  BY FinishedStep, WindowInNat DEF Finished, TypeOK, HasRead, ReadsSpanWindow
<1>2. ASSUME NEW p \in Processes, Hset(p) PROVE info'[q] = Place(q, members')
  <2>1. q # p /\ q \in F /\ info'[q] = info[q] /\ JoinGroup(p)
    BY <1>1, <1>2, HasReadJoin DEF Hset
  <2>2. CASE members' = {p}
    BY <2>1, <2>2
  <2>3. CASE Keys # {} /\ members' = members \cup {p} /\ spread' = age
    BY <1>1, <2>1, <2>3
  <2>4. CASE Keys # {} /\ members' = members /\ spread' = spread
    <3>1. ~shrunk
      BY <2>1, <2>4, JoinerKeeps
    <3> QED BY <2>1, <2>4, <3>1 DEF AllFound
  <2> QED BY <2>1, <2>2, <2>3, <2>4, JoinCases
<1>3. CASE ~\E p \in Processes : Hset(p)
  <2>1. members' = members /\ ~shrunk /\ spread' = spread
    BY <1>3, NoJoin
  <2>2. CASE q \in F
    <3>1. info'[q] = info[q]
      BY <1>1, <2>2, FinalStep DEF Finished
    <3> QED BY <2>1, <2>2, <3>1 DEF AllFound
  <2>3. CASE q \notin F
    <3>1. Read(q)
      BY <1>1, <2>3, FinalStep DEF Finished
    <3>2. CASE info'[q] = Place(q, members)
      BY <2>1, <3>2
    <3>3. CASE info'[q] # Place(q, members)
      <4>1. /\ Cardinality(members) <= info[q].total /\ info' = info
            /\ pc[q] = "read" /\ attempt[q] > 1
        BY <1>1, <2>1, <3>1, <3>3, MemberReads
      <4>2. PICK S \in SUBSET members : info[q] = Place(q, S)
        BY <1>1, <2>1, <4>1 DEF GrowingSnapshots, HasRead
      <4>3. Cardinality(members) <= Cardinality(S)
        BY <4>1, <4>2 DEF Place
      <4>4. members = S
        BY <1>1, <4>3, GrownNoLarger
      <4> QED BY <2>1, <4>1, <4>2, <4>4
    <3> QED BY <3>2, <3>3
  <2> QED BY <2>2, <2>3
<1> QED BY <1>2, <1>3

\* The invariant, for a set of finished processes that may keep the dead.
LEMMA GroupStep ==
  ASSUME TypeOK, Timely, [Next]_vars, NEW F, GroupInv(F),
         NEW G, Serving' \subseteq G, G \subseteq F \cup Serving'
  PROVE  GroupInv(G)'
<1>1. TypeOK' /\ Timely'
  BY RegistryTypes, TimelyStep
<1> QED
  BY <1>1, FinishedStep, KeysAreMembersStep, ReadsSpanWindowStep, SnapshotsStep,
     AllFoundStep DEF GroupInv

\* There is no group yet.
LEMMA GroupBegins ==
  ASSUME Init, NEW F, F = {}
  PROVE  GroupInv(F)
<1>1. members = {} /\ Serving = {} /\ Keys = {}
  BY DEF Init, Serving, Beating, Keys
<1>2. GrowingSnapshots(F)
  <2> DEFINE s == [p \in Processes |-> {}]
  <2>1. s \in [Processes -> SUBSET members] /\ \A p, q \in Processes : s[p] \subseteq s[q]
    OBVIOUS
  <2> HIDE DEF s
  <2> QED BY <1>1, <2>1 DEF GrowingSnapshots
<1>3. Finished(F)
  BY <1>1 DEF Finished
<1>4. KeysAreMembers /\ ReadsSpanWindow(F) /\ AllFound(F)
  BY <1>1 DEF KeysAreMembers, ReadsSpanWindow, AllFound
<1> QED
  BY <1>2, <1>3, <1>4 DEF GroupInv

\* Without their own set the finished processes are those that serve.
LEMMA ServingGroup == GroupInv(Serving) <=> \E F : F = Serving /\ GroupInv(F)
  BY DEF GroupInv, Finished, ReadsSpanWindow, GrowingSnapshots, AllFound, HasRead

\* The invariant holds of those that serve, whoever moves.
LEMMA ServingGroupStep ==
  TypeOK /\ Timely /\ GroupInv(Serving) /\ [Next]_vars => GroupInv(Serving)'
<1> SUFFICES ASSUME TypeOK, Timely, GroupInv(Serving), [Next]_vars
             PROVE  GroupInv(Serving)'
  OBVIOUS
<1>1. PICK F : F = Serving /\ GroupInv(F)
  BY ServingGroup
<1>2. PICK G : G = Serving'
  OBVIOUS
<1>3. GroupInv(G)'
  BY <1>1, <1>2, GroupStep
<1> QED
  BY <1>2, <1>3 DEF GroupInv, Finished, ReadsSpanWindow, GrowingSnapshots, AllFound, HasRead

-----------------------------------------------------------------------------
(* The theorems about ConsumerRegistry.                                    *)

RegistryInv == TypeOK /\ Timely /\ GroupInv(Serving)

\* The registry starts in its invariant.
LEMMA RegistryInvBegins == Init => RegistryInv
<1> SUFFICES ASSUME Init PROVE RegistryInv
  OBVIOUS
<1>1. \E F : F = Serving /\ GroupInv(F)
  <2>1. Serving = {}
    BY DEF Init, Serving, Beating
  <2>2. PICK F : F = {}
    OBVIOUS
  <2>3. GroupInv(F)
    BY <2>2, GroupBegins
  <2> QED BY <2>1, <2>2, <2>3
<1> QED BY <1>1, RegistryInit, TimelyInit, ServingGroup DEF RegistryInv

\* Every step of the registry keeps its invariant.
LEMMA RegistryInvStep == RegistryInv /\ [Next]_vars => RegistryInv'
  BY RegistryTypes, TimelyStep, ServingGroupStep DEF RegistryInv

\* Processes that register within the time one registration takes end up with the
\* same total and different slots, for any number of processes and of reads,
\* whatever fails between them (register_and_start_heartbeat).
THEOREM StartupsAgree == Spec => []StartedTogetherAgree
<1>1. RegistryInv => StartedTogetherAgree
  <2> SUFFICES ASSUME RegistryInv, spread < Window, ~shrunk,
                      NEW p \in Serving \cap members, NEW q \in Serving \cap members
               PROVE  /\ info[p].total = Cardinality(members)
                      /\ p # q => info[p].id # info[q].id
    BY DEF StartedTogetherAgree
  <2>1. /\ info[p] = Place(p, members) /\ info[q] = Place(q, members)
        /\ members \in SUBSET Processes
    BY DEF RegistryInv, GroupInv, AllFound, TypeOK
  <2>2. info[p].total = Cardinality(members)
    BY <2>1 DEF Place
  <2> QED BY <2>1, <2>2, PlacesDiffer
<1> QED BY <1>1, RegistryInvBegins, RegistryInvStep, PTL DEF Spec

\* Two members that count the same total have different slots, however far apart
\* they registered: the keys they saw have only grown.
THEOREM SlotsOfATotalDiffer == Spec => []EqualTotalsDistinctIds
<1>1. RegistryInv => EqualTotalsDistinctIds
  <2> SUFFICES ASSUME RegistryInv, ~shrunk,
                      NEW p \in Serving \cap members, NEW q \in Serving \cap members,
                      p # q, info[p].total = info[q].total
               PROVE  info[p].id # info[q].id
    BY DEF EqualTotalsDistinctIds
  <2>1. members \in SUBSET Processes /\ p \in Processes /\ q \in Processes
    BY DEF RegistryInv, TypeOK
  <2>2. PICK s \in [Processes -> SUBSET members] :
           /\ s[p] \subseteq s[q] \/ s[q] \subseteq s[p]
           /\ p \in s[p] /\ info[p] = Place(p, s[p])
           /\ q \in s[q] /\ info[q] = Place(q, s[q])
    BY <2>1 DEF RegistryInv, GroupInv, GrowingSnapshots, HasRead
  <2>3. s[p] \in SUBSET Processes /\ s[q] \in SUBSET Processes
    BY <2>1
  <2>4. Cardinality(s[p]) = Cardinality(s[q])
    BY <2>2 DEF Place
  <2>5. Cardinality(s[p]) \in Nat /\ Cardinality(s[q]) \in Nat
    BY <2>3, ProcessSets
  <2>6. s[p] = s[q]
    <3>1. Cardinality(s[p]) <= Cardinality(s[q]) /\ Cardinality(s[q]) <= Cardinality(s[p])
      BY <2>4, <2>5
    <3> QED BY <2>2, <2>3, <3>1, GrownNoLarger
  <2> QED BY <2>2, <2>3, <2>6, PlacesDiffer
<1> QED BY <1>1, RegistryInvBegins, RegistryInvStep, PTL DEF Spec

-----------------------------------------------------------------------------
(* MultiConsumer: the turns of the group.                                  *)

\* The processes that have ever served are finished.
SharedInv ==
    /\ TypeOK /\ Timely /\ GroupInv(frozen)
    /\ counter \in Nat /\ taken \in [Processes -> Nat]

\* Without their own set the finished processes are those whose position is frozen.
LEMMA FrozenGroup == GroupInv(frozen) <=> \E F : F = frozen /\ GroupInv(F)
  BY DEF GroupInv, Finished, ReadsSpanWindow, GrowingSnapshots, AllFound, HasRead

\* The group starts in its invariant.
LEMMA SharedInvBegins == GroupInit => SharedInv
<1> SUFFICES ASSUME GroupInit PROVE SharedInv
  OBVIOUS
<1>1. Init /\ frozen = {} /\ counter = 0 /\ taken = [p \in Processes |-> 0]
  BY DEF GroupInit
<1>2. PICK F : F = {}
  OBVIOUS
<1>3. GroupInv(F) /\ F = frozen
  BY <1>1, <1>2, GroupBegins
<1>4. GroupInv(frozen)
  BY <1>3, FrozenGroup
<1> QED BY <1>1, <1>4, RegistryInit, TimelyInit DEF SharedInv

\* The registry moves or stands still, and who has served stays among the frozen.
LEMMA FrozenStep ==
  ASSUME SharedInv, [GroupNext]_allVars
  PROVE  /\ [Next]_vars /\ Serving' \subseteq frozen'
         /\ frozen' \subseteq frozen \cup Serving' /\ frozen \subseteq frozen'
<1>1. Serving \subseteq frozen
  BY DEF SharedInv, GroupInv, Finished
<1>2. CASE Register
  BY <1>2 DEF Register
<1>3. CASE UNCHANGED <<vars, frozen>>
  <2>1. pc' = pc /\ frozen' = frozen
    BY <1>3 DEF vars
  <2> QED BY <1>1, <1>3, <2>1 DEF Serving, Beating
<1> QED BY <1>2, <1>3 DEF GroupNext, TakeInTurn, TakeFreely, allVars

\* Every step of the group, of its workers or of time keeps its invariant.
LEMMA SharedInvStep == SharedInv /\ [GroupNext]_allVars => SharedInv'
<1> SUFFICES ASSUME SharedInv, [GroupNext]_allVars PROVE SharedInv'
  OBVIOUS
<1>1. [Next]_vars /\ TypeOK /\ Timely
  BY FrozenStep DEF SharedInv
<1>2. TypeOK' /\ Timely'
  BY <1>1, RegistryTypes, TimelyStep
<1>3. GroupInv(frozen)'
  <2>1. PICK F : F = frozen /\ GroupInv(F)
    BY FrozenGroup DEF SharedInv
  <2>2. PICK G : G = frozen'
    OBVIOUS
  <2>3. GroupInv(G)'
    BY <1>1, <2>1, <2>2, FrozenStep, GroupStep
  <2> QED
    BY <2>2, <2>3 DEF GroupInv, Finished, ReadsSpanWindow, GrowingSnapshots, AllFound, HasRead
<1>4. counter' \in Nat /\ taken' \in [Processes -> Nat]
  BY DEF SharedInv, GroupNext, Register, TakeInTurn, TakeFreely, queue, allVars
<1> QED BY <1>2, <1>3, <1>4 DEF SharedInv

\* The position with which a process takes part in the turns.
Seat == [p \in Processes |-> IF p \in frozen THEN info[p] ELSE NoInfo]

TP == INSTANCE TurnsProofs WITH Consumers <- Processes, info <- Seat

\* The group starts where the turns start.
LEMMA TurnsBegin == GroupInit => T!Init
  BY DEF GroupInit, T!Init

\* A position that a worker has used is final, and one process at a time gets one.
LEMMA SeatStep ==
  ASSUME SharedInv, Register
  PROVE  \/ Seat' = Seat
         \/ \E p \in Processes :
               /\ Seat[p] = NoInfo /\ Seat'[p] \in T!ConsumerInfo
               /\ Seat' = [Seat EXCEPT ![p] = Seat'[p]]
<1>1. /\ TypeOK /\ Timely /\ [Next]_vars /\ frozen' = frozen \cup Serving'
      /\ Serving \subseteq frozen /\ frozen \subseteq Processes
      /\ \A q \in frozen : pc[q] \in {"connect", "serve", "beat", "mute", "dead"}
  BY DEF SharedInv, GroupInv, Finished, Register
<1>2. \A q \in frozen : info'[q] = info[q]
  BY <1>1, FinalStep
<1>3. Serving' \subseteq Processes
  BY DEF Serving, Beating
<1>4. CASE frozen' = frozen
  BY <1>2, <1>4 DEF Seat
<1>5. CASE frozen' # frozen
  <2>1. PICK p \in Serving' : p \notin frozen
    BY <1>1, <1>5
  <2>2. p \in Processes /\ Read(p)
    BY <1>1, <1>3, <2>1, FinalStep
  <2>3. ASSUME NEW q \in frozen', q # p PROVE q \in frozen
    <3>1. q \in Processes
      BY <1>1, <1>3
    <3>2. pc'[q] = pc[q]
      BY <1>1, <2>2, <2>3, <3>1, OthersRest DEF StepOf
    <3> QED BY <1>1, <2>3, <3>1, <3>2 DEF Serving, Beating
  <2>4. /\ Seat[p] = NoInfo /\ Seat'[p] = info'[p] /\ Seat' \in [Processes -> {Seat'[q] : q \in Processes}]
        /\ \A q \in Processes : q # p => Seat'[q] = Seat[q]
    BY <1>1, <1>2, <2>1, <2>2, <2>3 DEF Seat
  <2>5. Seat'[p] \in T!ConsumerInfo
    <3>1. TypeOK'
      BY <1>1, RegistryTypes
    <3> QED BY <2>2, <2>4, <3>1 DEF TypeOK, T!ConsumerInfo
  <2>6. Seat' = [Seat EXCEPT ![p] = Seat'[p]]
    <3>1. Seat' = [q \in Processes |-> Seat'[q]] /\ DOMAIN Seat = Processes
      BY DEF Seat
    <3> QED BY <2>2, <2>4, <3>1
  <2> QED BY <2>2, <2>4, <2>5, <2>6
<1> QED BY <1>4, <1>5

\* Registrations join, and only whoever has the turn moves the counter.
LEMMA TurnsMove == SharedInv /\ [GroupNext]_allVars => [T!Next]_(T!turnVars)
<1> SUFFICES ASSUME SharedInv, [GroupNext]_allVars PROVE [T!Next]_(T!turnVars)
  OBVIOUS
<1>1. CASE Register
  <2>1. UNCHANGED <<counter, taken>>
    BY <1>1 DEF Register, queue
  <2>2. CASE Seat' = Seat
    BY <2>1, <2>2 DEF T!turnVars, Seat
  <2>3. ASSUME NEW p \in Processes, Seat[p] = NoInfo, Seat'[p] \in T!ConsumerInfo,
               Seat' = [Seat EXCEPT ![p] = Seat'[p]]
        PROVE  T!Next
    <3>1. T!Join(p)
      BY <2>1, <2>3 DEF T!Join, Seat
    <3> QED BY <3>1 DEF T!Next
  <2> QED BY <1>1, <2>2, <2>3, SeatStep
<1>2. ASSUME NEW p \in Processes, TakeInTurn(p) PROVE T!Next
  <2>1. /\ p \in frozen /\ info[p] \in [id : Nat, total : Nat \ {0}]
        /\ info' = info /\ frozen' = frozen
    BY <1>2 DEF SharedInv, GroupInv, Finished, TypeOK, TakeInTurn, vars
  <2>2. Seat[p] = info[p] /\ info[p] # NoInfo /\ Seat' = Seat
    BY <2>1, NoInfoAssumption DEF Seat
  <2>3. T!TakeTurn(p)
    BY <1>2, <2>2 DEF T!TakeTurn, T!Designated, TakeInTurn, Designated, Seat
  <2> QED BY <2>3 DEF T!Next
<1>3. ASSUME UNCHANGED <<vars, frozen, counter, taken>> PROVE UNCHANGED T!turnVars
  BY <1>3 DEF vars, T!turnVars
<1> QED
  BY <1>1, <1>2, <1>3 DEF GroupNext, TakeFreely, allVars, queue

\* The group obeys the turns while processes join it, for any number of them.
THEOREM GroupTakesTurns == GroupSpec => ImplementsTurns
<1>1. GroupSpec => T!Init /\ [][T!Next]_(T!turnVars)
  BY SharedInvBegins, SharedInvStep, TurnsBegin, TurnsMove, PTL DEF GroupSpec
<1> QED BY <1>1 DEF ImplementsTurns, T!Spec

\* Members that started together share the jobs, give or take two: the registry
\* makes them agree, and the dequeue script serves the slots of a group that
\* agrees in turn (consumer_registry.rs and queue.rs).
THEOREM StartupsShareFairly == GroupSpec => []StartedTogetherShareFairly
<1>1. T!Init => TP!SharesInv
  <2>1. T!Init => TP!Init
    BY DEF T!Init, TP!Init, T!ConsumerInfo, TP!ConsumerInfo, Seat
  <2> QED BY <2>1, TP!SharesInit
<1>2. TP!SharesInv /\ [T!Next]_(T!turnVars) => TP!SharesInv'
  <2>1. T!Next => TP!Next
    BY DEF T!Next, TP!Next, T!TakeTurn, TP!TakeTurn, T!Designated, TP!Designated,
           T!Join, TP!Join, T!ConsumerInfo, TP!ConsumerInfo, Seat
  <2>2. UNCHANGED T!turnVars => UNCHANGED TP!turnVars
    BY DEF T!turnVars, TP!turnVars, Seat
  <2> QED BY <2>1, <2>2, TP!SharesStep
<1>3. SharedInv /\ TP!SharesInv => StartedTogetherShareFairly
  <2> SUFFICES ASSUME SharedInv, TP!SharesInv, spread < Window, ~shrunk,
                      frozen \subseteq members, NEW p \in frozen, NEW q \in frozen
               PROVE  taken[p] <= taken[q] + 2
    BY DEF StartedTogetherShareFairly
  <2>1. TP!FairShares
    BY TP!SharesEven
  <2>2. /\ frozen \subseteq Processes /\ members \in SUBSET Processes
        /\ \A r \in frozen : info[r] = Place(r, members)
    BY DEF SharedInv, GroupInv, Finished, AllFound, TypeOK
  <2>3. TP!Members \subseteq frozen /\ \A r \in frozen : Seat[r] = info[r]
    BY <2>2 DEF TP!Members, Seat
  <2>4. ASSUME NEW c \in frozen, NEW d \in frozen
        PROVE  /\ Seat[c].total = Seat[d].total
               /\ c # d => Seat[c].id # Seat[d].id
    <3>1. Seat[c] = Place(c, members) /\ Seat[d] = Place(d, members)
      BY <2>2, <2>3
    <3>2. Place(c, members).total = Place(d, members).total
      BY DEF Place
    <3> QED BY <2>2, <3>1, <3>2, PlacesDiffer
  <2>5. TP!Agreeing
    BY <2>3, <2>4 DEF TP!Agreeing
  <2>6. p \in TP!Members /\ q \in TP!Members
    BY <2>2, <2>3, NoInfoAssumption DEF TP!Members, SharedInv, TypeOK
  <2> QED BY <2>1, <2>5, <2>6 DEF TP!FairShares
<1>4. GroupSpec => T!Init /\ [][T!Next]_(T!turnVars)
  BY GroupTakesTurns DEF ImplementsTurns, T!Spec
<1> QED
  BY <1>1, <1>2, <1>3, <1>4, SharedInvBegins, SharedInvStep, PTL DEF GroupSpec

=============================================================================
