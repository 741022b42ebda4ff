--------------------------- MODULE DeliveryProofs ---------------------------
(* A theorem about Delivery, for any jobs and workers.                     *)
EXTENDS Delivery, FiniteSetTheorems, TLAPS

\* The workers that have been handed job j and have not run it yet.
Handed(j) == {w \in Workers \ running : held[w] = j /\ j # None}

\* Each attempt is still to store a copy, or is behind one copy that is stored,
\* one that was handed out, one that has been run, or nothing.
Accounted(j) ==
    /\ IsFiniteSet(Handed(j))
    /\ pending[j] + stored[j] + Cardinality(Handed(j)) + runs[j] <= attempts[j]

DeliveryTypeOK ==
    /\ attempts \in [Jobs -> Nat] /\ pending \in [Jobs -> Nat]
    /\ stored \in [Jobs -> Nat] /\ runs \in [Jobs -> Nat]
    /\ held \in [Workers -> Jobs \cup {None}]
    /\ running \subseteq {w \in Workers : held[w] # None}

DeliveryInv == DeliveryTypeOK /\ \A j \in Jobs : Accounted(j)

\* At first nothing has been attempted.
LEMMA DeliveryInit == Init => DeliveryInv
<1> SUFFICES ASSUME Init PROVE DeliveryInv
  OBVIOUS
<1>1. DeliveryTypeOK
  BY DEF Init, DeliveryTypeOK
<1>2. ASSUME NEW j \in Jobs PROVE Accounted(j)
  <2>1. Handed(j) = {}
    BY DEF Init, Handed
  <2>2. IsFiniteSet(Handed(j)) /\ Cardinality(Handed(j)) = 0
    BY <2>1, FS_EmptySet
  <2> QED BY <2>2 DEF Init, Accounted
<1> QED BY <1>1, <1>2 DEF DeliveryInv

\* A step that hands out nothing and takes fewer than it stores.
LEMMA NoHand ==
  ASSUME DeliveryInv, DeliveryTypeOK',
         \A j \in Jobs :
            /\ Handed(j)' \subseteq Handed(j)
            /\ pending'[j] + stored'[j] + runs'[j] - attempts'[j]
                 <= pending[j] + stored[j] + runs[j] - attempts[j]
  PROVE  DeliveryInv'
<1> SUFFICES ASSUME NEW j \in Jobs PROVE Accounted(j)'
  BY DEF DeliveryInv
<1>1. /\ IsFiniteSet(Handed(j)) /\ Cardinality(Handed(j)) \in Nat
      /\ pending[j] + stored[j] + Cardinality(Handed(j)) + runs[j] <= attempts[j]
  BY FS_CardinalityType DEF DeliveryInv, Accounted
<1>2. /\ IsFiniteSet(Handed(j)') /\ Cardinality(Handed(j)') \in Nat
      /\ Cardinality(Handed(j)') <= Cardinality(Handed(j))
  BY <1>1, FS_Subset, FS_CardinalityType
<1>3. /\ attempts[j] \in Nat /\ pending[j] \in Nat /\ stored[j] \in Nat /\ runs[j] \in Nat
      /\ attempts'[j] \in Nat /\ pending'[j] \in Nat /\ stored'[j] \in Nat
      /\ runs'[j] \in Nat
  BY DEF DeliveryInv, DeliveryTypeOK
<1> QED BY <1>1, <1>2, <1>3 DEF Accounted

\* A copy goes from the queue into the hands of a worker.
LEMMA HandStep ==
  ASSUME DeliveryInv, NEW w \in Workers, NEW k \in Jobs, Hand(w, k)
  PROVE  DeliveryInv'
<1>1. /\ held[w] = None /\ w \notin running /\ stored[k] > 0
      /\ stored' = [stored EXCEPT ![k] = @ - 1] /\ held' = [held EXCEPT ![w] = k]
      /\ attempts' = attempts /\ pending' = pending /\ runs' = runs
      /\ running' = running
  BY DEF Hand, Remove, DeliveryInv, DeliveryTypeOK
<1>2. DeliveryTypeOK'
  BY <1>1 DEF DeliveryInv, DeliveryTypeOK
<1>3. ASSUME NEW j \in Jobs PROVE Accounted(j)'
  <2>1. /\ attempts[j] \in Nat /\ pending[j] \in Nat /\ stored[j] \in Nat
        /\ runs[j] \in Nat
    BY DEF DeliveryInv, DeliveryTypeOK
  <2>2. /\ IsFiniteSet(Handed(j)) /\ Cardinality(Handed(j)) \in Nat
        /\ pending[j] + stored[j] + Cardinality(Handed(j)) + runs[j] <= attempts[j]
    BY FS_CardinalityType DEF DeliveryInv, Accounted
  <2>3. CASE j = k /\ k # None
    <3>1. Handed(j)' = Handed(j) \cup {w} /\ w \notin Handed(j)
      BY <1>1, <2>3 DEF Handed, DeliveryInv, DeliveryTypeOK
    <3>2. IsFiniteSet(Handed(j)') /\ Cardinality(Handed(j)') = Cardinality(Handed(j)) + 1
      BY <2>2, <3>1, FS_AddElement
    <3>3. stored'[j] = stored[j] - 1
      BY <1>1, <2>3 DEF DeliveryInv, DeliveryTypeOK
    <3> QED BY <1>1, <2>1, <2>2, <3>2, <3>3 DEF Accounted
  <2>4. CASE ~(j = k /\ k # None)
    <3>1. Handed(j)' = Handed(j)
      BY <1>1, <2>4 DEF Handed, DeliveryInv, DeliveryTypeOK
    <3>2. stored'[j] <= stored[j] /\ stored'[j] \in Nat
      BY <1>1, <1>2, <2>1 DEF DeliveryInv, DeliveryTypeOK
    <3> QED BY <1>1, <2>1, <2>2, <3>1, <3>2 DEF Accounted
  <2> QED BY <2>3, <2>4
<1> QED BY <1>2, <1>3 DEF DeliveryInv

\* A worker runs what it was handed.
LEMMA RunStep ==
  ASSUME DeliveryInv, NEW w \in Workers, Run(w)
  PROVE  DeliveryInv'
<1> DEFINE k == held[w]
<1>1. /\ k \in Jobs /\ k # None /\ w \notin running /\ running' = running \cup {w}
      /\ runs' = [runs EXCEPT ![k] = @ + 1] /\ held' = held
      /\ attempts' = attempts /\ pending' = pending /\ stored' = stored
  BY DEF Run, copies, DeliveryInv, DeliveryTypeOK
<1>2. DeliveryTypeOK'
  BY <1>1 DEF DeliveryInv, DeliveryTypeOK
<1>3. ASSUME NEW j \in Jobs PROVE Accounted(j)'
  <2>1. /\ attempts[j] \in Nat /\ pending[j] \in Nat /\ stored[j] \in Nat
        /\ runs[j] \in Nat
    BY DEF DeliveryInv, DeliveryTypeOK
  <2>2. /\ IsFiniteSet(Handed(j)) /\ Cardinality(Handed(j)) \in Nat
        /\ pending[j] + stored[j] + Cardinality(Handed(j)) + runs[j] <= attempts[j]
    BY FS_CardinalityType DEF DeliveryInv, Accounted
  <2>3. CASE j = k
    <3>1. Handed(j)' = Handed(j) \ {w} /\ w \in Handed(j)
      BY <1>1, <2>3 DEF Handed
    <3>2. IsFiniteSet(Handed(j)') /\ Cardinality(Handed(j)') = Cardinality(Handed(j)) - 1
      BY <2>2, <3>1, FS_RemoveElement
    <3>3. runs'[j] = runs[j] + 1
      BY <1>1, <2>3 DEF DeliveryInv, DeliveryTypeOK
    <3> QED BY <1>1, <2>1, <2>2, <3>2, <3>3 DEF Accounted
  <2>4. CASE j # k
    <3>1. Handed(j)' = Handed(j) /\ runs'[j] = runs[j]
      BY <1>1, <2>4 DEF Handed, DeliveryInv, DeliveryTypeOK
    <3> QED BY <1>1, <2>1, <2>2, <3>1 DEF Accounted
  <2> QED BY <2>3, <2>4
<1> QED BY <1>2, <1>3 DEF DeliveryInv

\* No step brings a copy into being that no attempt accounts for.
LEMMA DeliveryStep == DeliveryInv /\ [Next]_deliveryVars => DeliveryInv'
<1> SUFFICES ASSUME DeliveryInv, [Next]_deliveryVars PROVE DeliveryInv'
  OBVIOUS
<1>0. DeliveryTypeOK
  BY DEF DeliveryInv
<1>1. ASSUME NEW j \in Jobs, Attempt(j) PROVE DeliveryInv'
  <2>1. DeliveryTypeOK' /\ \A k \in Jobs : Handed(k)' = Handed(k)
    BY <1>0, <1>1 DEF Attempt, hands, DeliveryTypeOK, Handed
  <2>2. \A k \in Jobs :
           pending'[k] + stored'[k] + runs'[k] - attempts'[k]
             <= pending[k] + stored[k] + runs[k] - attempts[k]
    BY <1>0, <1>1 DEF Attempt, hands, DeliveryTypeOK
  <2> QED BY <2>1, <2>2, NoHand
<1>2. ASSUME NEW j \in Jobs, Put(j) PROVE DeliveryInv'
  <2>1. DeliveryTypeOK' /\ \A k \in Jobs : Handed(k)' = Handed(k)
    BY <1>0, <1>2 DEF Put, hands, DeliveryTypeOK, Handed
  <2>2. \A k \in Jobs :
           pending'[k] + stored'[k] + runs'[k] - attempts'[k]
             <= pending[k] + stored[k] + runs[k] - attempts[k]
    BY <1>0, <1>2 DEF Put, hands, DeliveryTypeOK
  <2> QED BY <2>1, <2>2, NoHand
<1>3. ASSUME NEW w \in Workers, Finish(w) PROVE DeliveryInv'
  <2>1. DeliveryTypeOK' /\ \A k \in Jobs : Handed(k)' \subseteq Handed(k)
    BY <1>0, <1>3 DEF Finish, copies, DeliveryTypeOK, Handed
  <2>2. \A k \in Jobs :
           pending'[k] + stored'[k] + runs'[k] - attempts'[k]
             <= pending[k] + stored[k] + runs[k] - attempts[k]
    BY <1>0, <1>3 DEF Finish, copies, DeliveryTypeOK
  <2> QED BY <2>1, <2>2, NoHand
<1>4. ASSUME NEW gone \in SUBSET Workers, NEW n, GiveUp(gone, n) PROVE DeliveryInv'
  <2>1. DeliveryTypeOK' /\ \A k \in Jobs : Handed(k)' \subseteq Handed(k)
    BY <1>0, <1>4 DEF GiveUp, copies, DeliveryTypeOK, Handed
  <2>2. \A k \in Jobs :
           pending'[k] + stored'[k] + runs'[k] - attempts'[k]
             <= pending[k] + stored[k] + runs[k] - attempts[k]
    BY <1>0, <1>4 DEF GiveUp, copies, DeliveryTypeOK
  <2> QED BY <2>1, <2>2, NoHand
<1>5. CASE Stray
  <2>1. DeliveryTypeOK' /\ \A k \in Jobs : Handed(k)' = Handed(k)
    BY <1>0, <1>5 DEF Stray, Remove, hands, DeliveryTypeOK, Handed
  <2>2. \A k \in Jobs :
           pending'[k] + stored'[k] + runs'[k] - attempts'[k]
             <= pending[k] + stored[k] + runs[k] - attempts[k]
    BY <1>0, <1>5 DEF Stray, Remove, hands, DeliveryTypeOK
  <2> QED BY <2>1, <2>2, NoHand
<1>6. CASE UNCHANGED deliveryVars
  <2>1. DeliveryTypeOK' /\ \A k \in Jobs : Handed(k)' = Handed(k)
    BY <1>0, <1>6 DEF deliveryVars, copies, hands, DeliveryTypeOK, Handed
  <2>2. \A k \in Jobs :
           pending'[k] + stored'[k] + runs'[k] - attempts'[k]
             <= pending[k] + stored[k] + runs[k] - attempts[k]
    BY <1>0, <1>6 DEF deliveryVars, copies, hands, DeliveryTypeOK
  <2> QED BY <2>1, <2>2, NoHand
<1> QED BY <1>1, <1>2, <1>3, <1>4, <1>5, <1>6, HandStep, RunStep DEF Next

\* What has been run is part of what is accounted for.
LEMMA DeliveryOnce == DeliveryInv => OncePerAttempt
<1> SUFFICES ASSUME DeliveryInv, NEW j \in Jobs PROVE runs[j] <= attempts[j]
  BY DEF OncePerAttempt
<1>1. Cardinality(Handed(j)) \in Nat
  BY FS_CardinalityType DEF DeliveryInv, Accounted
<1> QED BY <1>1 DEF DeliveryInv, DeliveryTypeOK, Accounted

\* No job is run more often than its send() was attempted, however its copies
\* are stored, handed out, given up and lost.
THEOREM RunOncePerAttempt == Spec => []OncePerAttempt
  BY DeliveryInit, DeliveryStep, DeliveryOnce, PTL DEF Spec

=============================================================================
