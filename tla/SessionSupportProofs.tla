-------------------------- MODULE SessionSupportProofs --------------------------
(***************************************************************************)
(* Proofs about what every session leans on.                               *)
(*                                                                         *)
(* TileReadAdmission, for any sessions, costs and number of permits: the   *)
(* permits are accounted for, a waiter is passed over a bounded number of  *)
(* times and no permit is idle while somebody waits.                       *)
(*                                                                         *)
(* SessionResources, for any sessions, slots and room: the two budgets are *)
(* never exceeded nor given back twice, nothing is taken that onClosed     *)
(* would not find between two handlers, and an ended session leaves at     *)
(* most one envelope behind.  The invariant says what each place of a      *)
(* handler has in hand: the slot between tryAcquire and the assignment of  *)
(* the lease, the envelope between tryReserve and liveTransientBuffers,    *)
(* and the envelope that is live and not yet queued.                       *)
(*                                                                         *)
(* WebSocketWriteQueue, for any bound of the queue, any number of frames   *)
(* and any number of threads that enqueue and cancel: the wire carries the *)
(* frames in their order, and a frame that waits has a driver.             *)
(***************************************************************************)
EXTENDS TileReadAdmission, SessionResources, WebSocketWriteQueue,
        FiniteSetTheorems, SequenceTheorems, TLAPS

-------------------------------------------------------------------------------
\* Queues without duplicates

Distinct(s) == \A i, j \in 1..Len(s) : s[i] = s[j] => i = j

\* The elements of a sequence are those at its positions.
LEMMA ToSetElements ==
    ASSUME NEW S, NEW s \in Seq(S)
    PROVE  \A x : x \in ToSet(s) <=> \E i \in 1..Len(s) : x = s[i]
BY DOMAIN s = 1..Len(s) DEF ToSet

\* An element that is not queued joins at the tail.
LEMMA AppendQueue ==
    ASSUME NEW S, NEW s \in Seq(S), NEW e \in S
    PROVE  /\ Append(s, e) \in Seq(S)
           /\ Len(Append(s, e)) = Len(s) + 1
           /\ Append(s, e) # <<>>
           /\ ToSet(Append(s, e)) = ToSet(s) \cup {e}
           /\ Distinct(s) /\ e \notin ToSet(s) => Distinct(Append(s, e))
<1> DEFINE t == Append(s, e)
<1>1. /\ t \in Seq(S) /\ Len(t) = Len(s) + 1 /\ t # <<>>
      /\ \A i \in 1..Len(s) : t[i] = s[i]
      /\ t[Len(s) + 1] = e
    OBVIOUS
<1> HIDE DEF t
<1>2. \A x : x \in ToSet(s) <=> \E i \in 1..Len(s) : x = s[i]
    BY ToSetElements
<1>3. \A x : x \in ToSet(t) <=> \E i \in 1..(Len(s) + 1) : x = t[i]
    BY ToSetElements, <1>1
<1>4. ASSUME NEW x
      PROVE  x \in ToSet(t) <=> x \in ToSet(s) \/ x = e
  <2>1. ASSUME x \in ToSet(t)
        PROVE  x \in ToSet(s) \/ x = e
    <3>1. PICK i \in 1..(Len(s) + 1) : x = t[i]
        BY <2>1, <1>3
    <3>2. i \in 1..Len(s) \/ i = Len(s) + 1
        OBVIOUS
    <3>3. QED
        BY <3>1, <3>2, <1>1, <1>2
  <2>2. ASSUME x \in ToSet(s)
        PROVE  x \in ToSet(t)
    <3>1. PICK i \in 1..Len(s) : x = s[i]
        BY <2>2, <1>2
    <3>2. i \in 1..(Len(s) + 1) /\ x = t[i]
        BY <3>1, <1>1
    <3>3. QED
        BY <3>2, <1>3
  <2>3. ASSUME x = e
        PROVE  x \in ToSet(t)
      BY <2>3, <1>1, <1>3, Len(s) + 1 \in 1..(Len(s) + 1)
  <2>4. QED
      BY <2>1, <2>2, <2>3
<1>5. ToSet(t) = ToSet(s) \cup {e}
    BY <1>4
<1>6. Distinct(s) /\ e \notin ToSet(s) => Distinct(t)
    BY <1>1, <1>2 DEF Distinct
<1>7. QED
    BY <1>1, <1>5, <1>6 DEF t

\* The head leaves and nobody else does.
LEMMA TailQueue ==
    ASSUME NEW S, NEW s \in Seq(S), s # <<>>
    PROVE  /\ Head(s) \in S
           /\ Head(s) \in ToSet(s)
           /\ Tail(s) \in Seq(S)
           /\ Len(Tail(s)) = Len(s) - 1
           /\ Distinct(s) => /\ ToSet(Tail(s)) = ToSet(s) \ {Head(s)}
                             /\ Distinct(Tail(s))
<1>1. Len(s) \in Nat \ {0} /\ Head(s) = s[1] /\ Head(s) \in S
    OBVIOUS
<1>2. /\ Tail(s) \in Seq(S)
      /\ Len(Tail(s)) = Len(s) - 1
      /\ \A i \in 1..(Len(s) - 1) : Tail(s)[i] = s[i + 1]
    OBVIOUS
<1>3. /\ \A x : x \in ToSet(s) <=> \E i \in 1..Len(s) : x = s[i]
      /\ \A x : x \in ToSet(Tail(s)) <=> \E i \in 1..(Len(s) - 1) : x = Tail(s)[i]
      /\ Head(s) \in ToSet(s)
  <2>1. \A x : x \in ToSet(s) <=> \E i \in 1..Len(s) : x = s[i]
      BY ToSetElements
  <2>2. \A x : x \in ToSet(Tail(s)) <=> \E i \in 1..Len(Tail(s)) : x = Tail(s)[i]
    <3>1. Tail(s) \in Seq(S)
        BY <1>2
    <3>2. QED
        BY <3>1, ToSetElements
  <2>3. Head(s) \in ToSet(s)
      BY <1>1, <2>1, 1 \in 1..Len(s)
  <2>4. QED
      BY <2>1, <2>2, <2>3, <1>2
<1>4. ASSUME Distinct(s)
      PROVE  ToSet(Tail(s)) = ToSet(s) \ {Head(s)}
  <2>1. ASSUME NEW x \in ToSet(Tail(s))
        PROVE  x \in ToSet(s) \ {Head(s)}
    <3>1. PICK i \in 1..(Len(s) - 1) : x = s[i + 1]
        BY <2>1, <1>2, <1>3
    <3>2. i + 1 \in 1..Len(s) /\ 1 \in 1..Len(s) /\ i + 1 # 1
        BY <1>1
    <3>3. QED
        BY <3>1, <3>2, <1>1, <1>3, <1>4 DEF Distinct
  <2>2. ASSUME NEW x \in ToSet(s), x # Head(s)
        PROVE  x \in ToSet(Tail(s))
    <3>1. PICK i \in 1..Len(s) : x = s[i]
        BY <2>2, <1>3
    <3>2. i # 1 /\ i - 1 \in 1..(Len(s) - 1)
        BY <3>1, <2>2, <1>1
    <3>3. x = Tail(s)[i - 1]
        BY <3>1, <3>2, <1>2
    <3>4. QED
        BY <3>2, <3>3, <1>3
  <2>3. QED
      BY <2>1, <2>2
<1>5. Distinct(s) => Distinct(Tail(s))
    BY <1>2 DEF Distinct
<1>6. QED
    BY <1>1, <1>2, <1>3, <1>4, <1>5

\* The element at position i goes and the others keep their order.
LEMMA RemoveAtElements ==
    ASSUME NEW S, NEW s \in Seq(S), NEW i \in 1..Len(s)
    PROVE  /\ RemoveAt(s, i) \in Seq(S)
           /\ Len(RemoveAt(s, i)) = Len(s) - 1
           /\ \A j \in 1..(Len(s) - 1) :
                RemoveAt(s, i)[j] = IF j < i THEN s[j] ELSE s[j + 1]
<1> DEFINE front == SubSeq(s, 1, i - 1)
           back  == SubSeq(s, i + 1, Len(s))
<1>1. front \in Seq(S) /\ Len(front) = i - 1 /\ \A j \in 1..(i - 1) : front[j] = s[j]
    OBVIOUS
<1>2. back \in Seq(S) /\ Len(back) = Len(s) - i /\ \A j \in 1..(Len(s) - i) : back[j] = s[i + j]
    OBVIOUS
<1>3. RemoveAt(s, i) = front \o back
    BY DEF RemoveAt
<1> HIDE DEF front, back
<1>4. /\ front \o back \in Seq(S)
      /\ Len(front \o back) = Len(s) - 1
      /\ \A j \in 1..(Len(s) - 1) :
            (front \o back)[j] = IF j < i THEN front[j] ELSE back[j - i + 1]
  <2>1. Len(front) + Len(back) = Len(s) - 1
      BY <1>1, <1>2
  <2>2. /\ front \o back \in Seq(S)
        /\ Len(front \o back) = Len(front) + Len(back)
        /\ \A j \in 1..(Len(front) + Len(back)) :
              (front \o back)[j] = IF j <= Len(front) THEN front[j] ELSE back[j - Len(front)]
      BY <1>1, <1>2, ConcatProperties
  <2>3. ASSUME NEW j \in 1..(Len(s) - 1)
        PROVE  /\ j <= Len(front) <=> j < i
               /\ j - Len(front) = j - i + 1
      BY <1>1
  <2>4. QED
      BY <2>1, <2>2, <2>3
<1>5. ASSUME NEW j \in 1..(Len(s) - 1)
      PROVE  (front \o back)[j] = IF j < i THEN s[j] ELSE s[j + 1]
  <2>1. CASE j < i
      BY <2>1, <1>1, <1>4
  <2>2. CASE ~(j < i)
    <3>1. j - i + 1 \in 1..(Len(s) - i) /\ i + (j - i + 1) = j + 1
        BY <2>2
    <3>2. QED
        BY <2>2, <3>1, <1>2, <1>4
  <2>3. QED
      BY <2>1, <2>2
<1>6. QED
    BY <1>3, <1>4, <1>5

\* Cancelling a waiter takes it, and it alone, out of the queue.
LEMMA RemoveAtQueue ==
    ASSUME NEW S, NEW s \in Seq(S), NEW i \in 1..Len(s), Distinct(s)
    PROVE  /\ ToSet(RemoveAt(s, i)) = ToSet(s) \ {s[i]}
           /\ Distinct(RemoveAt(s, i))
<1> DEFINE r == RemoveAt(s, i)
<1>1. /\ r \in Seq(S)
      /\ Len(r) = Len(s) - 1
      /\ \A j \in 1..(Len(s) - 1) : r[j] = IF j < i THEN s[j] ELSE s[j + 1]
    BY RemoveAtElements
<1> HIDE DEF r
<1>0. /\ \A x : x \in ToSet(s) <=> \E j \in 1..Len(s) : x = s[j]
      /\ \A x : x \in ToSet(r) <=> \E j \in 1..(Len(s) - 1) : x = r[j]
    BY <1>1, ToSetElements
<1>2. ASSUME NEW x \in ToSet(r)
      PROVE  x \in ToSet(s) \ {s[i]}
  <2>1. PICK j \in 1..(Len(s) - 1) : x = IF j < i THEN s[j] ELSE s[j + 1]
      BY <1>0, <1>1
  <2>2. PICK k \in 1..Len(s) : k # i /\ x = s[k]
    <3>1. CASE j < i
        BY <3>1, <2>1
    <3>2. CASE ~(j < i)
        BY <3>2, <2>1, j + 1 \in 1..Len(s), j + 1 # i
    <3>3. QED
        BY <3>1, <3>2
  <2>3. QED
      BY <2>2, <1>0 DEF Distinct
<1>3. ASSUME NEW x \in ToSet(s), x # s[i]
      PROVE  x \in ToSet(r)
  <2>1. PICK j \in 1..Len(s) : x = s[j]
      BY <1>0, <1>3
  <2>2. CASE j < i
      BY <2>1, <2>2, <1>0, <1>1, j \in 1..(Len(s) - 1)
  <2>3. CASE j > i
    <3>1. j - 1 \in 1..(Len(s) - 1) /\ r[j - 1] = s[j]
        BY <2>3, <1>1
    <3>2. QED
        BY <2>1, <3>1, <1>0
  <2>4. QED
      BY <2>1, <2>2, <2>3, <1>3
<1>4. Distinct(r)
    BY <1>1 DEF Distinct
<1>5. QED
    BY <1>2, <1>3, <1>4 DEF r

-------------------------------------------------------------------------------
\* Costs and deficits

\* MAX_COST_MULTIPLIER quanta make a positive cap, not below one quantum.
LEMMA MaxCostPositive == MaxCost \in Nat \ {0} /\ Quantum \in Nat \ {0} /\ Quantum <= MaxCost
BY ConstantsAssumption DEF MaxCost, MAX_COST_MULTIPLIER

\* One more quantum, up to the cap.
LEMMA ReplenishedValue ==
    ASSUME TypeOK, NEW o \in Owners
    PROVE  /\ Replenished(o) \in Int
           /\ Replenished(o) <= MaxCost
           /\ Replenished(o) = deficitBytes[o] + Quantum \/ Replenished(o) = MaxCost
           /\ deficitBytes[o] <= MaxCost => Replenished(o) >= deficitBytes[o]
BY MaxCostPositive DEF TypeOK, Replenished, AtMost

\* A visit leaves the deficit of the waiter within its bounds.
LEMMA ReplenishedInBounds ==
    ASSUME TypeOK, FlowsBounded, NEW o \in Owners
    PROVE  /\ Replenished(o) \in Int
           /\ -MaxCost <= Replenished(o)
           /\ Replenished(o) <= MaxCost
BY MaxCostPositive, ReplenishedValue DEF TypeOK, FlowsBounded

\* A visit, whether it grants or passes over, keeps the flows in bounds.
LEMMA VisitEffect ==
    ASSUME TypeOK, FlowsBounded, NEW w \in Owners,
           deficitBytes' = [deficitBytes EXCEPT ![w] = Replenished(w)],
           lastCostBytes' = lastCostBytes
    PROVE  /\ deficitBytes' \in [Owners -> Int]
           /\ lastCostBytes' \in [Owners -> Nat]
           /\ FlowsBounded'
<1> DEFINE r == Replenished(w)
<1>1. r \in Int /\ -MaxCost <= r /\ r <= MaxCost
    BY ReplenishedInBounds
<1>2. deficitBytes' = [deficitBytes EXCEPT ![w] = r]
    OBVIOUS
<1> HIDE DEF r
<1>3. QED
    BY <1>1, <1>2, MaxCostPositive DEF TypeOK, FlowsBounded

\* An uncontended turn leaves the deficit of its owner within its bounds.
LEMMA GrantAccountingValue ==
    ASSUME TypeOK, NEW o \in Owners
    PROVE  /\ GrantAccounting(o) \in Int
           /\ deficitBytes[o] <= MaxCost =>
                /\ GrantAccounting(o) <= MaxCost
                /\ GrantAccounting(o) >= deficitBytes[o]
BY MaxCostPositive DEF TypeOK, GrantAccounting, AtMost

\* A charge touches only the flow of the owner whose turn ends and leaves it
\* within its bounds.
LEMMA ChargeEffect ==
    ASSUME TypeOK, FlowsBounded, NEW o \in Owners, NEW bytes \in Nat, Charge(o, bytes)
    PROVE  /\ deficitBytes' \in [Owners -> Int]
           /\ lastCostBytes' \in [Owners -> Nat]
           /\ FlowsBounded'
           /\ \A p \in Owners \ {o} : /\ deficitBytes'[p] = deficitBytes[p]
                                      /\ lastCostBytes'[p] = lastCostBytes[p]
<1>1. CASE bytes > 0
  <2> DEFINE cost == AtMost(MaxCost, bytes)
             debt == AtLeast(-MaxCost, deficitBytes[o] - cost)
  <2>1. cost \in Nat /\ 1 <= cost /\ cost <= MaxCost
      BY <1>1, MaxCostPositive DEF AtMost
  <2>2. debt \in Int /\ -MaxCost <= debt /\ debt <= MaxCost
      BY <2>1, MaxCostPositive DEF AtLeast, TypeOK, FlowsBounded
  <2>3. /\ lastCostBytes' = [lastCostBytes EXCEPT ![o] = cost]
        /\ deficitBytes' = [deficitBytes EXCEPT ![o] = debt]
      BY <1>1 DEF Charge
  <2> HIDE DEF cost, debt
  <2>4. QED
      BY <2>1, <2>2, <2>3, MaxCostPositive DEF TypeOK, FlowsBounded
<1>2. CASE ~(bytes > 0)
    BY <1>2, MaxCostPositive DEF Charge, flows, TypeOK, FlowsBounded
<1>3. QED
    BY <1>1, <1>2

-------------------------------------------------------------------------------
\* Types and flows: the part of the invariant that speaks of values alone

TypeAndFlows == TypeOK /\ FlowsBounded

\* Every step keeps the types, and the deficits and costs in bounds; the two
\* go together, since a deficit is an integer only while both hold.
LEMMA TypeAndFlowsStep == TypeAndFlows /\ [Next]_vars => TypeAndFlows'
<1> SUFFICES ASSUME TypeAndFlows, [Next]_vars
             PROVE  TypeAndFlows'
    OBVIOUS
<1> USE MaxCostPositive DEF TypeAndFlows
<1>1. ASSUME NEW o \in Owners, AcquireGranted(o)
      PROVE  TypeAndFlows'
    BY <1>1, GrantAccountingValue, SMTT(30), ZenonT(60) DEF AcquireGranted, TypeOK, FlowsBounded
<1>2. ASSUME NEW o \in Owners, AcquireQueued(o)
      PROVE  TypeAndFlows'
    BY <1>2 DEF AcquireQueued, Enqueued, flows, TypeOK, FlowsBounded
<1>3. ASSUME NEW o \in Owners, NEW bytes \in Nat, Release(o, bytes)
      PROVE  TypeAndFlows'
    BY <1>3, ChargeEffect DEF Release, TypeOK
<1>4. ASSUME NEW o \in Owners, Deliver(o)
      PROVE  TypeAndFlows'
    BY <1>4 DEF Deliver, flows, TypeOK, FlowsBounded
<1>5. ASSUME NEW o \in Owners, Cancel(o)
      PROVE  TypeAndFlows'
  <2>1. waiters' \in Seq(Owners)
      BY <1>5, RemoveAtElements DEF Cancel, TypeOK
  <2>2. QED
      BY <1>5, <2>1 DEF Cancel, flows, TypeOK, FlowsBounded
<1>6. CASE VisitGrant
  <2>1. PICK w \in Owners : /\ deficitBytes' = [deficitBytes EXCEPT ![w] = Replenished(w)]
                            /\ leases' = leases \cup {w}
                            /\ delivering' = delivering \cup {w}
                            /\ skips' = [skips EXCEPT ![w] = 0]
      BY <1>6, TailQueue DEF VisitGrant, TypeOK
  <2>2. waiters' \in Seq(Owners)
      BY <1>6, TailQueue DEF VisitGrant, TypeOK
  <2>3. QED
    <3>1. lastCostBytes' = lastCostBytes
        BY <1>6 DEF VisitGrant
    <3>2. /\ deficitBytes' \in [Owners -> Int]
          /\ lastCostBytes' \in [Owners -> Nat]
          /\ FlowsBounded'
        BY <2>1, <3>1, VisitEffect
    <3>3. QED
        BY <1>6, <2>1, <2>2, <3>2, SMTT(30), ZenonT(60) DEF VisitGrant, TypeOK
<1>7. CASE VisitRotate
  <2>1. PICK w \in Owners : /\ deficitBytes' = [deficitBytes EXCEPT ![w] = Replenished(w)]
                            /\ skips' = [skips EXCEPT ![w] = @ + 1]
      BY <1>7, TailQueue DEF VisitRotate, TypeOK
  <2>2. waiters' \in Seq(Owners)
    <3>1. Head(waiters) \in Owners /\ Tail(waiters) \in Seq(Owners)
        BY <1>7, TailQueue DEF VisitRotate, TypeOK
    <3>2. QED
        BY <1>7, <3>1 DEF VisitRotate
  <2>3. QED
    <3>1. lastCostBytes' = lastCostBytes
        BY <1>7 DEF VisitRotate
    <3>2. /\ deficitBytes' \in [Owners -> Int]
          /\ lastCostBytes' \in [Owners -> Nat]
          /\ FlowsBounded'
        BY <2>1, <3>1, VisitEffect
    <3>3. skips' \in [Owners -> Nat]
        BY <2>1 DEF TypeOK
    <3>4. UNCHANGED <<outstandingOwners, inFlight, leases, delivering, monitor>>
        BY <1>7 DEF VisitRotate
    <3>5. QED
        BY <2>2, <3>2, <3>3, <3>4 DEF TypeOK
<1>8. CASE ReturnPermit
    BY <1>8 DEF ReturnPermit, flows, TypeOK, FlowsBounded
<1>9. CASE UNCHANGED vars
    BY <1>9 DEF vars, TypeOK, FlowsBounded
<1>10. QED
    BY <1>1, <1>2, <1>3, <1>4, <1>5, <1>6, <1>7, <1>8, <1>9, ConstantsAssumption
    DEF Next, Complete, DeliverThrows

\* A new scheduler has its type and its flows are in bounds.
LEMMA TypeAndFlowsInit == Init => TypeAndFlows
<1>1. Init => TypeOK
  <2> SUFFICES ASSUME Init PROVE TypeOK
      OBVIOUS
  <2>1. waiters \in Seq(Owners)
      BY DEF Init
  <2>2. QED
      BY <2>1, MaxCostPositive DEF Init, TypeOK
<1>2. QED
    BY <1>1, MaxCostPositive DEF Init, TypeAndFlows, FlowsBounded

\* The state of the scheduler always has its type.
THEOREM TypeCorrect == Spec => []TypeOK
<1>1. TypeAndFlows => TypeOK
    BY DEF TypeAndFlows
<1>2. QED
    BY <1>1, TypeAndFlowsInit, TypeAndFlowsStep, PTL DEF Spec

\* Deficits and costs stay within four quanta.
THEOREM FlowsAlwaysBounded == Spec => []FlowsBounded
<1>1. TypeAndFlows => FlowsBounded
    BY DEF TypeAndFlows
<1>2. QED
    BY <1>1, TypeAndFlowsInit, TypeAndFlowsStep, PTL DEF Spec

-------------------------------------------------------------------------------
\* Owners, queue and permits

\* The three properties are inductive together: who holds a permit decides
\* whether a waiter may exist, and a granted waiter is a new holder only
\* because it was not one before.
QueueInv ==
    /\ TypeOK
    /\ IsFiniteSet(leases)
    /\ delivering \subseteq leases
    /\ OneTurnPerOwner
    /\ PermitsAccounted
    /\ WorkConserving

\* What a step does to the queue, stated with Distinct.
LEMMA OneTurnDistinct ==
    OneTurnPerOwner <=> /\ outstandingOwners = leases \cup ToSet(waiters)
                        /\ leases \cap ToSet(waiters) = {}
                        /\ Distinct(waiters)
BY DEF OneTurnPerOwner, Distinct

\* The empty queue has no elements and no duplicates.
LEMMA EmptyQueue == ToSet(<<>>) = {} /\ Distinct(<<>>)
BY DEF ToSet, Distinct

\* A new scheduler accounts for its permits and its queue is empty.
LEMMA QueueInit == Init => QueueInv
<1> SUFFICES ASSUME Init PROVE QueueInv
    OBVIOUS
<1>1. TypeOK
    BY TypeAndFlowsInit DEF TypeAndFlows
<1>2. IsFiniteSet(leases) /\ Cardinality(leases) = 0
    BY FS_EmptySet DEF Init
<1>3. OneTurnPerOwner
    BY EmptyQueue, OneTurnDistinct DEF Init
<1>4. PermitsAccounted
    BY <1>2, ConstantsAssumption DEF Init, PermitsAccounted, PermitInHand
<1>5. WorkConserving
    BY ConstantsAssumption DEF Init, WorkConserving
<1>6. QED
    BY <1>1, <1>2, <1>3, <1>4, <1>5 DEF QueueInv, Init

\* Granting an uncontended turn keeps the permits and the queue in order.
LEMMA AcquireGrantedQueue ==
    ASSUME QueueInv, TypeOK', NEW o \in Owners, AcquireGranted(o)
    PROVE  QueueInv'
<1> USE DEF QueueInv
<1>1. o \notin leases /\ o \notin outstandingOwners
    BY DEF AcquireGranted, MayAsk, OneTurnPerOwner
<1>2. IsFiniteSet(leases') /\ Cardinality(leases') = Cardinality(leases) + 1
    BY <1>1, FS_AddElement DEF AcquireGranted
<1>3. OneTurnPerOwner'
    BY <1>1 DEF AcquireGranted, FreePermit, OneTurnPerOwner, ToSet
<1>4. PermitsAccounted'
  <2>1. inFlight' = inFlight + 1 /\ inFlight < MaxInFlight /\ monitor' = monitor
      BY DEF AcquireGranted, FreePermit
  <2>2. Cardinality(leases) \in Nat
      BY FS_CardinalityType
  <2>3. QED
      BY <1>2, <2>1, <2>2, ConstantsAssumption DEF PermitsAccounted, PermitInHand, TypeOK
<1>5. WorkConserving'
    BY DEF AcquireGranted, FreePermit, WorkConserving
<1>6. QED
    BY <1>2, <1>3, <1>4, <1>5 DEF AcquireGranted

\* Queueing an owner when no permit is left keeps the permits and the queue in order.
LEMMA AcquireQueuedQueue ==
    ASSUME QueueInv, TypeOK', NEW o \in Owners, AcquireQueued(o)
    PROVE  QueueInv'
<1> USE DEF QueueInv
<1>1. /\ Len(waiters') = Len(waiters) + 1
      /\ ToSet(waiters') = ToSet(waiters) \cup {o}
      /\ Distinct(waiters) /\ o \notin ToSet(waiters) => Distinct(waiters')
    BY AppendQueue DEF AcquireQueued, Enqueued, TypeOK
<1>2. o \notin leases /\ o \notin ToSet(waiters)
    BY DEF AcquireQueued, MayAsk, OneTurnPerOwner
<1>3. OneTurnPerOwner'
    BY <1>1, <1>2, OneTurnDistinct DEF AcquireQueued, OneTurnPerOwner, Distinct
<1>4. PermitsAccounted'
    BY DEF AcquireQueued, PermitsAccounted, PermitInHand
<1>5. inFlight = MaxInFlight
    BY ConstantsAssumption DEF AcquireQueued, FreePermit, WorkConserving, PermitsAccounted, TypeOK
<1>6. WorkConserving'
    BY <1>1, <1>5, ConstantsAssumption DEF AcquireQueued, WorkConserving, TypeOK
<1>7. QED
    BY <1>3, <1>4, <1>6 DEF AcquireQueued

\* Ending a turn keeps them in order: the permit is in the hand of the releasing
\* thread.
LEMMA ReleaseQueue ==
    ASSUME QueueInv, TypeOK', NEW o \in Owners, NEW bytes \in Nat, Release(o, bytes)
    PROVE  QueueInv'
<1> USE DEF QueueInv
<1>1. IsFiniteSet(leases') /\ Cardinality(leases') = Cardinality(leases) - 1
    BY FS_RemoveElement DEF Release
<1>2. OneTurnPerOwner'
    BY DEF Release, OneTurnPerOwner
<1>3. PermitsAccounted'
    BY <1>1, FS_CardinalityType DEF Release, PermitsAccounted, PermitInHand
<1>4. WorkConserving'
    BY DEF Release, WorkConserving
<1>5. QED
    BY <1>1, <1>2, <1>3, <1>4 DEF Release

\* A callback that returns keeps them in order.
LEMMA DeliverQueue ==
    ASSUME QueueInv, TypeOK', NEW o \in Owners, Deliver(o)
    PROVE  QueueInv'
BY DEF QueueInv, Deliver, OneTurnPerOwner, PermitsAccounted, PermitInHand, WorkConserving

\* Cancelling a waiter keeps them in order: it leaves the queue and the set of owners.
LEMMA CancelQueue ==
    ASSUME QueueInv, TypeOK', NEW o \in Owners, Cancel(o)
    PROVE  QueueInv'
<1> USE DEF QueueInv
<1>1. PICK i \in 1..Len(waiters) : waiters[i] = o /\ waiters' = RemoveAt(waiters, i)
    BY DEF Cancel
<1>2. /\ Len(waiters') = Len(waiters) - 1
      /\ ToSet(waiters') = ToSet(waiters) \ {o}
      /\ Distinct(waiters')
    BY <1>1, RemoveAtElements, RemoveAtQueue, OneTurnDistinct DEF TypeOK
<1>3. o \in ToSet(waiters) /\ waiters # <<>>
  <2>1. waiters \in Seq(Owners)
      BY DEF TypeOK
  <2>2. o \in ToSet(waiters)
      BY <1>1, <2>1, ToSetElements
  <2>3. waiters # <<>>
      BY <1>1, <2>1
  <2>4. QED
      BY <2>2, <2>3
<1>4. OneTurnPerOwner'
    BY <1>2, <1>3, OneTurnDistinct DEF Cancel, OneTurnPerOwner, Distinct
<1>5. PermitsAccounted'
    BY DEF Cancel, PermitsAccounted, PermitInHand
<1>6. WorkConserving'
    BY <1>2, <1>3, ConstantsAssumption DEF Cancel, WorkConserving, TypeOK
<1>7. QED
    BY <1>4, <1>5, <1>6 DEF Cancel

\* Granting the visited waiter keeps them in order: the permit in hand becomes its
\* lease.
LEMMA VisitGrantQueue ==
    ASSUME QueueInv, TypeOK', VisitGrant
    PROVE  QueueInv'
<1> USE DEF QueueInv
<1>0. waiters \in Seq(Owners) /\ waiters # <<>> /\ waiters' = Tail(waiters) /\ Distinct(waiters)
    BY OneTurnDistinct DEF VisitGrant, TypeOK
<1>1. PICK w \in Owners : /\ w = Head(waiters)
                          /\ leases' = leases \cup {w}
                          /\ delivering' = delivering \cup {w}
    BY <1>0, TailQueue DEF VisitGrant
<1>2. /\ w \in ToSet(waiters)
      /\ Len(waiters') = Len(waiters) - 1
      /\ ToSet(waiters') = ToSet(waiters) \ {w}
      /\ Distinct(waiters')
    BY <1>0, <1>1, TailQueue
<1>3. w \notin leases
    BY <1>2 DEF OneTurnPerOwner
<1>4. IsFiniteSet(leases') /\ Cardinality(leases') = Cardinality(leases) + 1
    BY <1>1, <1>3, FS_AddElement
<1>5. OneTurnPerOwner'
    BY <1>1, <1>2, OneTurnDistinct DEF VisitGrant, OneTurnPerOwner, Distinct
<1>6. PermitsAccounted'
  <2>1. inFlight' = inFlight /\ monitor = "selecting" /\ monitor' = "free"
      BY DEF VisitGrant
  <2>2. Cardinality(leases) \in Nat
      BY FS_CardinalityType
  <2>3. QED
      BY <1>4, <2>1, <2>2 DEF PermitsAccounted, PermitInHand, TypeOK
<1>7. WorkConserving'
    BY <1>2, ConstantsAssumption DEF VisitGrant, WorkConserving, TypeOK
<1>8. QED
    BY <1>1, <1>4, <1>5, <1>6, <1>7

\* Passing over the visited waiter keeps them in order: it goes from the head to the
\* tail.
LEMMA VisitRotateQueue ==
    ASSUME QueueInv, TypeOK', VisitRotate
    PROVE  QueueInv'
<1> USE DEF QueueInv
<1> DEFINE w == Head(waiters)
           rest == Tail(waiters)
<1>1. /\ w \in Owners /\ w \in ToSet(waiters)
      /\ rest \in Seq(Owners) /\ Len(rest) = Len(waiters) - 1
      /\ ToSet(rest) = ToSet(waiters) \ {w}
      /\ Distinct(rest)
    BY TailQueue, OneTurnDistinct DEF VisitRotate, TypeOK
<1>2. waiters' = Append(rest, w)
    BY DEF VisitRotate
<1> HIDE DEF w, rest
<1>3. /\ Len(waiters') = Len(waiters)
      /\ ToSet(waiters') = ToSet(waiters)
      /\ Distinct(waiters')
      /\ waiters' # <<>>
  <2>1. w \notin ToSet(rest)
      BY <1>1
  <2>2. /\ Len(Append(rest, w)) = Len(rest) + 1
        /\ Append(rest, w) # <<>>
        /\ ToSet(Append(rest, w)) = ToSet(rest) \cup {w}
        /\ Distinct(Append(rest, w))
      BY <1>1, <2>1, AppendQueue
  <2>3. Len(waiters) \in Nat
      BY DEF TypeOK
  <2>4. QED
      BY <1>1, <1>2, <2>2, <2>3
<1>4. OneTurnPerOwner'
    BY <1>3, OneTurnDistinct DEF VisitRotate, OneTurnPerOwner, Distinct
<1>5. PermitsAccounted' /\ WorkConserving'
    BY <1>3 DEF VisitRotate, PermitsAccounted, PermitInHand, WorkConserving
<1>6. QED
    BY <1>4, <1>5 DEF VisitRotate

\* Returning the permit keeps them in order, since nobody waits.
LEMMA ReturnPermitQueue ==
    ASSUME QueueInv, TypeOK', ReturnPermit
    PROVE  QueueInv'
<1> USE DEF QueueInv
<1>1. OneTurnPerOwner'
    BY DEF ReturnPermit, OneTurnPerOwner
<1>2. PermitsAccounted'
    BY FS_CardinalityType, ConstantsAssumption
    DEF ReturnPermit, PermitsAccounted, PermitInHand, TypeOK
<1>3. WorkConserving'
    BY DEF ReturnPermit, NobodyWaits, WorkConserving
<1>4. QED
    BY <1>1, <1>2, <1>3 DEF ReturnPermit

\* Every step keeps the permits and the queue in order.
LEMMA QueueStep == TypeAndFlows /\ QueueInv /\ [Next]_vars => QueueInv'
<1> SUFFICES ASSUME TypeAndFlows, QueueInv, [Next]_vars
             PROVE  QueueInv'
    OBVIOUS
<1>1. TypeOK'
    BY TypeAndFlowsStep DEF TypeAndFlows
<1>2. CASE UNCHANGED vars
    BY <1>2 DEF vars, QueueInv, TypeOK, OneTurnPerOwner, PermitsAccounted, PermitInHand,
                WorkConserving
<1>3. QED
    BY <1>1, <1>2, AcquireGrantedQueue, AcquireQueuedQueue, ReleaseQueue, DeliverQueue,
       CancelQueue, VisitGrantQueue, VisitRotateQueue, ReturnPermitQueue, ConstantsAssumption
    DEF Next, Complete, DeliverThrows

\* The inductive invariant of permits and queue holds for ever.
LEMMA QueueAlways == Spec => [](TypeAndFlows /\ QueueInv)
BY TypeAndFlowsInit, TypeAndFlowsStep, QueueInit, QueueStep, PTL DEF Spec

\* No permit is lost or counted twice, and at most maxInFlight are out.
THEOREM PermitsAlwaysAccounted == Spec => []PermitsAccounted
<1>1. QueueInv => PermitsAccounted
    BY DEF QueueInv
<1>2. QED
    BY <1>1, QueueAlways, PTL

\* Nobody has two turns, and the duplicate filter knows exactly who has one.
THEOREM OneTurnAlways == Spec => []OneTurnPerOwner
<1>1. QueueInv => OneTurnPerOwner
    BY DEF QueueInv
<1>2. QED
    BY <1>1, QueueAlways, PTL

\* A permit is never idle while somebody waits.
THEOREM AlwaysWorkConserving == Spec => []WorkConserving
<1>1. QueueInv => WorkConserving
    BY DEF QueueInv
<1>2. QED
    BY <1>1, QueueAlways, PTL

-------------------------------------------------------------------------------
\* No waiter is passed over more than seven times

\* Each time a queued owner is passed over it is one quantum better off than
\* the debt limit, and still not able to pay.
SkipsPaid ==
    \A o \in Owners :
        /\ o \notin ToSet(waiters) => skips[o] = 0
        /\ -MaxCost + skips[o] * Quantum <= deficitBytes[o]
        /\ skips[o] > 0 => deficitBytes[o] < lastCostBytes[o]

SkipsInv == TypeAndFlows /\ QueueInv /\ SkipsPaid

\* What a waiter was paid bounds how often it was passed over.
LEMMA SkipsBounded == SkipsInv => PassedOverAtMostSevenTimes
<1> SUFFICES ASSUME SkipsInv, NEW o \in Owners
             PROVE  skips[o] <= 7
    BY DEF PassedOverAtMostSevenTimes, MAX_COST_MULTIPLIER
<1> DEFINE n == skips[o]
           q == Quantum
<1>1. n \in Nat /\ q \in Nat \ {0}
    BY MaxCostPositive DEF SkipsInv, QueueInv, TypeOK
<1>2. CASE n > 0
  <2>1. /\ -MaxCost + n * q <= deficitBytes[o]
        /\ deficitBytes[o] < lastCostBytes[o]
        /\ lastCostBytes[o] <= MaxCost
        /\ deficitBytes[o] \in Int /\ lastCostBytes[o] \in Int
      BY <1>2 DEF SkipsInv, SkipsPaid, TypeAndFlows, TypeOK, FlowsBounded
  <2>2. MaxCost = 4 * q
      BY DEF MaxCost, MAX_COST_MULTIPLIER
  <2> HIDE DEF n, q
  <2>3. n * q < 8 * q
      BY <2>1, <2>2, <1>1
  <2>4. n < 8
    <3>1. SUFFICES ASSUME n >= 8 PROVE FALSE
        BY <1>1
    <3>2. PICK k \in Nat : n = 8 + k
        BY <1>1, <3>1, n - 8 \in Nat
    <3>3. n * q = 8 * q + k * q /\ k * q >= 0
        BY <1>1, <3>2
    <3>4. QED
        BY <2>3, <3>3, <1>1
  <2>5. QED
      BY <2>4, <1>1 DEF n
<1>3. CASE ~(n > 0)
    BY <1>3, <1>1
<1>4. QED
    BY <1>2, <1>3

\* Nobody waits in a new scheduler.
LEMMA SkipsInit == Init => SkipsPaid
BY MaxCostPositive, EmptyQueue DEF Init, SkipsPaid

\* Every step keeps the payments of each waiter in step with its visits.
LEMMA SkipsStep == SkipsInv /\ [Next]_vars => SkipsPaid'
<1> SUFFICES ASSUME SkipsInv, [Next]_vars
             PROVE  SkipsPaid'
    OBVIOUS
<1> USE DEF SkipsInv
<1>0. /\ TypeOK /\ FlowsBounded /\ QueueInv /\ SkipsPaid
      /\ TypeOK' /\ FlowsBounded' /\ QueueInv'
      /\ waiters \in Seq(Owners) /\ Distinct(waiters)
    BY TypeAndFlowsStep, QueueStep, OneTurnDistinct DEF TypeAndFlows, QueueInv, TypeOK
<1>1. ASSUME NEW o \in Owners, AcquireGranted(o)
      PROVE  SkipsPaid'
  <2>1. /\ waiters = <<>> /\ waiters' = waiters /\ skips' = skips
        /\ deficitBytes' = [deficitBytes EXCEPT ![o] = GrantAccounting(o)]
        /\ lastCostBytes' = lastCostBytes
      BY <1>1 DEF AcquireGranted, FreePermit
  <2>2. GrantAccounting(o) \in Int /\ GrantAccounting(o) >= deficitBytes[o]
      BY <1>0, GrantAccountingValue DEF FlowsBounded
  <2>3. \A p \in Owners : skips[p] = 0 /\ skips'[p] = 0
      BY <2>1, <1>0, EmptyQueue DEF SkipsPaid
  <2>4. \A p \in Owners : -MaxCost <= deficitBytes'[p]
      BY <1>0 DEF FlowsBounded
  <2>5. QED
      BY <2>1, <2>3, <2>4, EmptyQueue, MaxCostPositive DEF SkipsPaid
<1>2. ASSUME NEW o \in Owners, AcquireQueued(o)
      PROVE  SkipsPaid'
  <2>1. ToSet(waiters') = ToSet(waiters) \cup {o}
      BY <1>0, <1>2, AppendQueue DEF AcquireQueued, Enqueued
  <2>2. UNCHANGED <<deficitBytes, lastCostBytes, skips>>
      BY <1>2 DEF AcquireQueued, flows
  <2>3. QED
      BY <1>0, <2>1, <2>2 DEF SkipsPaid
<1>3. ASSUME NEW o \in Owners, NEW bytes \in Nat, Release(o, bytes)
      PROVE  SkipsPaid'
  <2>1. o \notin ToSet(waiters) /\ UNCHANGED <<waiters, skips>>
      BY <1>0, <1>3 DEF Release, QueueInv, OneTurnPerOwner
  <2>2. \A p \in Owners \ {o} : /\ deficitBytes'[p] = deficitBytes[p]
                                /\ lastCostBytes'[p] = lastCostBytes[p]
      BY <1>0, <1>3, ChargeEffect DEF Release
  <2>3. skips[o] = 0 /\ -MaxCost <= deficitBytes'[o]
      BY <1>0, <2>1 DEF SkipsPaid, FlowsBounded
  <2>4. ASSUME NEW p \in Owners
        PROVE  /\ p \notin ToSet(waiters') => skips'[p] = 0
               /\ -MaxCost + skips'[p] * Quantum <= deficitBytes'[p]
               /\ skips'[p] > 0 => deficitBytes'[p] < lastCostBytes'[p]
    <3>1. CASE p = o
        BY <3>1, <2>1, <2>3, MaxCostPositive
    <3>2. CASE p # o
        BY <3>2, <2>1, <2>2, <1>0 DEF SkipsPaid
    <3>3. QED
        BY <3>1, <3>2
  <2>5. QED
      BY <2>4 DEF SkipsPaid
<1>4. ASSUME NEW o \in Owners, Deliver(o)
      PROVE  SkipsPaid'
    BY <1>0, <1>4 DEF Deliver, flows, SkipsPaid
<1>5. ASSUME NEW o \in Owners, Cancel(o)
      PROVE  SkipsPaid'
  <2>1. ToSet(waiters') = ToSet(waiters) \ {o}
      BY <1>0, <1>5, RemoveAtQueue DEF Cancel
  <2>2. /\ UNCHANGED <<deficitBytes, lastCostBytes>>
        /\ skips' = [skips EXCEPT ![o] = 0]
      BY <1>5 DEF Cancel, flows
  <2>3. ASSUME NEW p \in Owners
        PROVE  /\ p \notin ToSet(waiters') => skips'[p] = 0
               /\ -MaxCost + skips'[p] * Quantum <= deficitBytes'[p]
               /\ skips'[p] > 0 => deficitBytes'[p] < lastCostBytes'[p]
    <3>1. CASE p = o
        BY <3>1, <2>2, <1>0, MaxCostPositive DEF TypeOK, FlowsBounded
    <3>2. CASE p # o
      <4>1. skips'[p] = skips[p]
          BY <3>2, <2>2, <1>0 DEF TypeOK
      <4>2. QED
          BY <3>2, <4>1, <2>1, <2>2, <1>0 DEF SkipsPaid
    <3>3. QED
        BY <3>1, <3>2
  <2>4. QED
      BY <2>3 DEF SkipsPaid
<1>6. CASE VisitGrant
  <2>1. PICK w \in Owners : /\ w = Head(waiters)
                            /\ deficitBytes' = [deficitBytes EXCEPT ![w] = Replenished(w)]
                            /\ skips' = [skips EXCEPT ![w] = 0]
      BY <1>0, <1>6, TailQueue DEF VisitGrant
  <2>2. ToSet(waiters') = ToSet(waiters) \ {w} /\ lastCostBytes' = lastCostBytes
      BY <1>0, <1>6, <2>1, TailQueue DEF VisitGrant
  <2>3. ASSUME NEW p \in Owners
        PROVE  /\ p \notin ToSet(waiters') => skips'[p] = 0
               /\ -MaxCost + skips'[p] * Quantum <= deficitBytes'[p]
               /\ skips'[p] > 0 => deficitBytes'[p] < lastCostBytes'[p]
    <3>1. CASE p = w
        BY <3>1, <2>1, <1>0, MaxCostPositive DEF TypeOK, FlowsBounded
    <3>2. CASE p # w
      <4>1. skips'[p] = skips[p] /\ deficitBytes'[p] = deficitBytes[p]
          BY <3>2, <2>1, <1>0 DEF TypeOK
      <4>2. QED
          BY <3>2, <4>1, <2>2, <1>0 DEF SkipsPaid
    <3>3. QED
        BY <3>1, <3>2
  <2>4. QED
      BY <2>3 DEF SkipsPaid
<1>7. CASE VisitRotate
  <2>1. PICK w \in Owners : /\ w = Head(waiters)
                            /\ Replenished(w) < lastCostBytes[w]
                            /\ deficitBytes' = [deficitBytes EXCEPT ![w] = Replenished(w)]
                            /\ skips' = [skips EXCEPT ![w] = @ + 1]
      BY <1>0, <1>7, TailQueue DEF VisitRotate
  <2>2. ToSet(waiters') = ToSet(waiters) /\ lastCostBytes' = lastCostBytes
    <3> DEFINE rest == Tail(waiters)
    <3>1. /\ w \in ToSet(waiters)
          /\ rest \in Seq(Owners)
          /\ ToSet(rest) = ToSet(waiters) \ {w}
        BY <1>0, <1>7, <2>1, TailQueue DEF VisitRotate
    <3>2. waiters' = Append(rest, w) /\ lastCostBytes' = lastCostBytes
        BY <1>7, <2>1 DEF VisitRotate
    <3> HIDE DEF rest
    <3>3. ToSet(Append(rest, w)) = ToSet(rest) \cup {w}
        BY <3>1, AppendQueue
    <3>4. QED
        BY <3>1, <3>2, <3>3
  <2>3. ASSUME NEW p \in Owners
        PROVE  /\ p \notin ToSet(waiters') => skips'[p] = 0
               /\ -MaxCost + skips'[p] * Quantum <= deficitBytes'[p]
               /\ skips'[p] > 0 => deficitBytes'[p] < lastCostBytes'[p]
    <3>1. CASE p = w
      <4>1. /\ skips'[w] = skips[w] + 1 /\ skips[w] \in Nat
            /\ deficitBytes'[w] = Replenished(w)
            /\ deficitBytes[w] \in Int /\ lastCostBytes[w] \in Nat
          BY <2>1, <1>0 DEF TypeOK
      <4>2. Replenished(w) = deficitBytes[w] + Quantum
          BY <4>1, <2>1, <1>0, ReplenishedValue, MaxCostPositive DEF FlowsBounded
      <4>3. (skips[w] + 1) * Quantum = skips[w] * Quantum + Quantum
          BY <4>1, MaxCostPositive
      <4>4. -MaxCost + skips[w] * Quantum <= deficitBytes[w]
          BY <1>0 DEF SkipsPaid
      <4>5. skips[w] * Quantum \in Int
          BY <4>1, MaxCostPositive
      <4>6. -MaxCost + skips'[w] * Quantum <= deficitBytes'[w]
          BY <4>1, <4>2, <4>3, <4>4, <4>5, MaxCostPositive
      <4>7. w \in ToSet(waiters)
          BY <1>0, <1>7, <2>1, TailQueue DEF VisitRotate
      <4>8. QED
          BY <3>1, <4>1, <4>6, <4>7, <2>1, <2>2
    <3>2. CASE p # w
      <4>1. skips'[p] = skips[p] /\ deficitBytes'[p] = deficitBytes[p]
          BY <3>2, <2>1, <1>0 DEF TypeOK
      <4>2. QED
          BY <3>2, <4>1, <2>2, <1>0 DEF SkipsPaid
    <3>3. QED
        BY <3>1, <3>2
  <2>4. QED
      BY <2>3 DEF SkipsPaid
<1>8. CASE ReturnPermit
    BY <1>0, <1>8 DEF ReturnPermit, flows, SkipsPaid
<1>9. CASE UNCHANGED vars
    BY <1>0, <1>9 DEF vars, SkipsPaid
<1>10. QED
    BY <1>1, <1>2, <1>3, <1>4, <1>5, <1>6, <1>7, <1>8, <1>9, ConstantsAssumption
    DEF Next, Complete, DeliverThrows

\* A waiter is passed over at most seven times before its turn.
THEOREM WaitersPassedOverAtMostSevenTimes == Spec => []PassedOverAtMostSevenTimes
<1>1. Init => SkipsInv
    BY TypeAndFlowsInit, QueueInit, SkipsInit DEF SkipsInv
<1>2. SkipsInv /\ [Next]_vars => SkipsInv'
    BY TypeAndFlowsStep, QueueStep, SkipsStep DEF SkipsInv
<1>3. QED
    BY <1>1, <1>2, SkipsBounded, PTL DEF Spec

-------------------------------------------------------------------------------
\* DRR admission implements the abstract pool of permits

\* A new scheduler is a full pool.
LEMMA PoolStart == Init => Pool!PoolInit
BY EmptyQueue DEF Init, Pool!PoolInit, PermitInHand

\* Every step of the scheduler is a step of the pool or invisible to it.
LEMMA PoolStep ==
    TypeAndFlows /\ QueueInv /\ [Next]_vars => [Pool!PoolNext]_(Pool!poolVars)
<1> SUFFICES ASSUME TypeAndFlows, QueueInv, [Next]_vars
             PROVE  [Pool!PoolNext]_(Pool!poolVars)
    OBVIOUS
<1> USE DEF Pool!PermitsOut, Pool!poolVars
<1>0. /\ TypeOK /\ OneTurnPerOwner /\ PermitsAccounted /\ WorkConserving
      /\ waiters \in Seq(Owners) /\ Distinct(waiters)
      /\ outstandingOwners = leases \cup ToSet(waiters)
      /\ leases \cap ToSet(waiters) = {}
      /\ Cardinality(leases) + PermitInHand = inFlight
    BY OneTurnDistinct DEF QueueInv, TypeOK, PermitsAccounted
<1>card. Pool!Cardinality(leases) = Cardinality(leases)
    BY DEF Cardinality, Pool!Cardinality, IsFiniteSet, Pool!IsFiniteSet
<1>1. ASSUME NEW o \in Owners, AcquireGranted(o)
      PROVE  Pool!Take(o)
    BY <1>0, <1>1, <1>card, EmptyQueue
    DEF AcquireGranted, MayAsk, FreePermit, Pool!Take, PermitInHand
<1>2. ASSUME NEW o \in Owners, AcquireQueued(o)
      PROVE  Pool!Wait(o)
  <2>1. ToSet(waiters') = ToSet(waiters) \cup {o}
      BY <1>0, <1>2, AppendQueue DEF AcquireQueued, Enqueued
  <2>2. inFlight = MaxInFlight
      BY <1>0, <1>2, ConstantsAssumption
      DEF AcquireQueued, FreePermit, WorkConserving, PermitsAccounted, TypeOK
  <2>3. QED
      BY <1>0, <1>2, <1>card, <2>1, <2>2 DEF AcquireQueued, MayAsk, Pool!Wait, PermitInHand
<1>3. ASSUME NEW o \in Owners, NEW bytes \in Nat, Release(o, bytes)
      PROVE  Pool!Return(o)
    BY <1>0, <1>3 DEF Release, Pool!Return, PermitInHand
<1>4. ASSUME NEW o \in Owners, Deliver(o)
      PROVE  UNCHANGED Pool!poolVars
    BY <1>4 DEF Deliver, PermitInHand
<1>5. ASSUME NEW o \in Owners, Cancel(o)
      PROVE  Pool!GiveUp(o)
  <2>1. PICK i \in 1..Len(waiters) : waiters[i] = o /\ waiters' = RemoveAt(waiters, i)
      BY <1>5 DEF Cancel
  <2>2. o \in ToSet(waiters) /\ ToSet(waiters') = ToSet(waiters) \ {o}
      BY <1>0, <2>1, RemoveAtQueue, ToSetElements
  <2>3. QED
      BY <1>5, <2>2 DEF Cancel, Pool!GiveUp, PermitInHand
<1>6. CASE VisitGrant
  <2>1. PICK w \in Owners : w = Head(waiters) /\ leases' = leases \cup {w}
      BY <1>0, <1>6, TailQueue DEF VisitGrant
  <2>2. w \in ToSet(waiters) /\ ToSet(waiters') = ToSet(waiters) \ {w}
      BY <1>0, <1>6, <2>1, TailQueue DEF VisitGrant
  <2>3. Pool!HandOver(w)
      BY <1>6, <2>1, <2>2 DEF VisitGrant, Pool!HandOver, PermitInHand
  <2>4. QED
      BY <2>3 DEF Pool!PoolNext
<1>7. CASE VisitRotate
  <2> DEFINE w == Head(waiters)
             rest == Tail(waiters)
  <2>1. /\ w \in Owners /\ w \in ToSet(waiters)
        /\ rest \in Seq(Owners)
        /\ ToSet(rest) = ToSet(waiters) \ {w}
      BY <1>0, <1>7, TailQueue DEF VisitRotate
  <2>2. waiters' = Append(rest, w)
      BY <1>7 DEF VisitRotate
  <2> HIDE DEF w, rest
  <2>3. ToSet(waiters') = ToSet(waiters)
    <3>1. ToSet(Append(rest, w)) = ToSet(rest) \cup {w}
        BY <2>1, AppendQueue
    <3>2. QED
        BY <2>1, <2>2, <3>1
  <2>4. QED
      BY <1>7, <2>3 DEF VisitRotate, PermitInHand
<1>8. CASE ReturnPermit
  <2>1. Pool!Keep
      BY <1>8, EmptyQueue DEF ReturnPermit, NobodyWaits, Pool!Keep, PermitInHand
  <2>2. QED
      BY <2>1 DEF Pool!PoolNext
<1>9. CASE UNCHANGED vars
    BY <1>9 DEF vars, PermitInHand
<1>10. QED
    BY <1>1, <1>2, <1>3, <1>4, <1>5, <1>6, <1>7, <1>8, <1>9, ConstantsAssumption
    DEF Next, Complete, DeliverThrows, Pool!PoolNext

\* Every behaviour of the DRR scheduler is one of the pool of permits.
THEOREM RefinesTurnPool == Spec => ImplementsTurnPool
<1>1. QED
    BY QueueAlways, PoolStart, PoolStep, PTL DEF Spec, ImplementsTurnPool, Pool!PoolSpec

--------------------------------------------------------------------------------
\* The inductive invariant

InHello == {"tryAcquire", "assignLease"}
InSend == {"tryReserve", "addLive", "checkClosed", "send"}

VariableTypes ==
    /\ handler \in [Sessions -> HandlerPlaces]
    /\ transport \in [Sessions -> {"open", "releaseAdmission", "releaseBuffers", "closed"}]
    /\ closed \in [Sessions -> BOOLEAN] /\ admitted \in [Sessions -> BOOLEAN]
    /\ slotTaken \in [Sessions -> BOOLEAN] /\ slotKnown \in [Sessions -> BOOLEAN]
    /\ envelopes \in [Sessions -> Nat]
    /\ live \in [Sessions -> Nat]
    /\ queued \in [Sessions -> Nat]

\* HELLO is handled before it is accepted, tiles are sent after.  Once onClosed
\* began the session is closed, and only onClosed closes it while a handler is
\* half way.
PlaceFits(s) ==
    /\ handler[s] \in InHello => ~admitted[s]
    /\ handler[s] \in InSend => admitted[s]
    /\ transport[s] # "open" => closed[s] /\ queued[s] = 0
    /\ transport[s] = "open" /\ closed[s] => handler[s] = "idle"

\* Only the handler of HELLO, between tryAcquire and the assignment of the
\* lease, has a slot that onClosed would not find.
SlotFound(s) ==
    /\ slotTaken[s] <=> slotKnown[s] \/ handler[s] = "assignLease"
    /\ slotKnown[s] => admitted[s]

\* An envelope that takes room is live, except the one just reserved.
EnvelopesFound(s) ==
    envelopes[s] = live[s] + (IF handler[s] = "addLive" THEN 1 ELSE 0)

\* While the transport is open a live envelope is in the write queue, except
\* the one that is about to be sent.
LiveIsQueued(s) ==
    /\ queued[s] <= live[s]
    /\ transport[s] = "open" =>
          live[s] = queued[s] + (IF handler[s] \in {"checkClosed", "send"} THEN 1 ELSE 0)

\* Only the envelope of the handler in course can be added after onClosed.
FewAfterClose(s) ==
    transport[s] = "closed" =>
        live[s] <= (IF handler[s] \in {"idle", "checkClosed", "send"} THEN 1 ELSE 0)

SessionInv(s) ==
    /\ PlaceFits(s)
    /\ SlotFound(s)
    /\ EnvelopesFound(s)
    /\ LiveIsQueued(s)
    /\ FewAfterClose(s)

SlotHolders == {s \in Sessions : slotTaken[s]}

BudgetsHold ==
    /\ IsFiniteSet(SlotHolders) /\ SlotsTaken <= MaxSessions
    /\ IsFiniteSet(RoomTaken(envelopes)) /\ EnvelopesReserved <= MaxBuffers

Inv ==
    /\ VariableTypes
    /\ \A s \in Sessions : SessionInv(s)
    /\ BudgetsHold

--------------------------------------------------------------------------------
\* Room

\* A set that gains one element.
LEMMA OneElementMore ==
    ASSUME NEW S, IsFiniteSet(S), NEW x
    PROVE  /\ IsFiniteSet(S \cup {x})
           /\ Cardinality(S \cup {x}) <= Cardinality(S) + 1
<1>1. Cardinality(S) \in Nat
  BY FS_CardinalityType
<1>2. CASE x \in S
  <2>1. S \cup {x} = S
    BY <1>2
  <2>2. Cardinality(S) <= Cardinality(S) + 1
    BY <1>1
  <2> QED
    BY <2>1, <2>2, Zenon
<1>3. CASE x \notin S
  BY <1>1, <1>3, FS_AddElement
<1> QED
  BY <1>2, <1>3

\* Giving envelopes back only frees room.
LEMMA RoomShrinks ==
    ASSUME NEW before \in [Sessions -> Nat], NEW after \in [Sessions -> Nat],
           \A s \in Sessions : after[s] <= before[s],
           IsFiniteSet(RoomTaken(before))
    PROVE  /\ IsFiniteSet(RoomTaken(after))
           /\ Cardinality(RoomTaken(after)) <= Cardinality(RoomTaken(before))
<1>1. RoomTaken(after) \subseteq RoomTaken(before)
  BY DEF RoomTaken
<1> QED
  BY <1>1, FS_Subset

\* One envelope more takes room for one.
LEMMA RoomGrows ==
    ASSUME NEW before \in [Sessions -> Nat], NEW s \in Sessions,
           NEW after \in [Sessions -> Nat], after[s] = before[s] + 1,
           \A t \in Sessions \ {s} : after[t] = before[t],
           IsFiniteSet(RoomTaken(before))
    PROVE  /\ IsFiniteSet(RoomTaken(after))
           /\ Cardinality(RoomTaken(after)) <= Cardinality(RoomTaken(before)) + 1
<1> DEFINE one == <<s, before[s] + 1>>
           grown == RoomTaken(before) \cup {one}
<1>1. RoomTaken(after) \subseteq grown
  BY DEF RoomTaken
<1>2. Cardinality(RoomTaken(before)) \in Nat
  BY FS_CardinalityType
<1> HIDE DEF one
<1>3. IsFiniteSet(grown) /\ Cardinality(grown) <= Cardinality(RoomTaken(before)) + 1
  BY OneElementMore
<1> HIDE DEF grown
<1>4. IsFiniteSet(RoomTaken(after)) /\ Cardinality(RoomTaken(after)) <= Cardinality(grown)
  BY <1>1, <1>3, FS_Subset
<1>5. Cardinality(RoomTaken(after)) \in Nat /\ Cardinality(grown) \in Nat
  BY <1>3, <1>4, FS_CardinalityType
<1> QED
  BY <1>2, <1>3, <1>4, <1>5

\* A session has no more envelopes than the budget has given out.
LEMMA RoomOfOneSession ==
    ASSUME NEW counts \in [Sessions -> Nat], NEW s \in Sessions,
           IsFiniteSet(RoomTaken(counts))
    PROVE  counts[s] <= Cardinality(RoomTaken(counts))
<1> DEFINE own == {s} \X (1..counts[s])
<1>1. own \subseteq RoomTaken(counts)
  BY DEF RoomTaken
<1>2. counts[s] \in Nat
  OBVIOUS
<1>3. IsFiniteSet(1..counts[s]) /\ Cardinality(1..counts[s]) = counts[s]
  BY <1>2, FS_Interval
<1>4. Cardinality(own) = counts[s]
  <2> DEFINE ids == 1..counts[s]
  <2>1. IsFiniteSet({s}) /\ Cardinality({s}) = 1
    BY FS_Singleton
  <2>2. IsFiniteSet(ids) /\ Cardinality(ids) = counts[s]
    BY <1>3
  <2> HIDE DEF ids
  <2>3. Cardinality({s} \X ids) = Cardinality({s}) * Cardinality(ids)
    BY <2>1, <2>2, FS_Product
  <2> QED
    BY <1>2, <2>1, <2>2, <2>3 DEF ids
<1> HIDE DEF own
<1>5. Cardinality(own) <= Cardinality(RoomTaken(counts))
  BY <1>1, FS_Subset
<1> QED
  BY <1>4, <1>5

--------------------------------------------------------------------------------
\* Steps

\* What one session does, for the disjuncts of ResourcesNext.
Step(s) ==
    \/ HelloBegins(s) \/ HelloAcquires(s) \/ HelloRefused(s) \/ HelloAssigns(s)
    \/ SendBegins(s) \/ SendReserves(s) \/ SendRefused(s) \/ SendRegisters(s)
    \/ SendAbandons(s) \/ SendContinues(s) \/ SendAccepted(s) \/ SendRejected(s)
    \/ FrameEnds(s)
    \/ TransportCloses(s) \/ ReleaseAdmission(s) \/ ReleaseAllTransientBuffers(s)
    \/ CloseForTimeout(s)

\* A step of a session keeps the types, its own part of the invariant, and the
\* variables of the others.
LEMMA StepOfSession ==
    ASSUME VariableTypes, NEW s \in Sessions, SessionInv(s), Step(s)
    PROVE  /\ VariableTypes'
           /\ SessionInv(s)'
           /\ \A t \in Sessions \ {s} : SessionInv(t) => SessionInv(t)'
<1> USE DEF VariableTypes, SessionInv, PlaceFits, SlotFound, EnvelopesFound, LiveIsQueued,
            FewAfterClose, InHello, InSend, HandlerPlaces, HandlerAt, Goes, slots, buffers
<1>1. CASE HelloBegins(s)
  BY <1>1 DEF HelloBegins
<1>2. CASE HelloAcquires(s)
  BY <1>2 DEF HelloAcquires
<1>3. CASE HelloRefused(s)
  BY <1>3 DEF HelloRefused
<1>4. CASE HelloAssigns(s)
  BY <1>4 DEF HelloAssigns
<1>5. CASE SendBegins(s)
  BY <1>5 DEF SendBegins
<1>6. CASE SendReserves(s)
  BY <1>6 DEF SendReserves
<1>7. CASE SendRefused(s)
  BY <1>7 DEF SendRefused
<1>8. CASE SendRegisters(s)
  BY <1>8 DEF SendRegisters
<1>9. CASE SendAbandons(s)
  BY <1>9 DEF SendAbandons
<1>10. CASE SendContinues(s)
  BY <1>10 DEF SendContinues
<1>11. CASE SendAccepted(s)
  <2>1. VariableTypes'
    BY <1>11 DEF SendAccepted
  <2>2. live[s] = queued[s] + 1 /\ queued'[s] = queued[s] + 1
    BY <1>11 DEF SendAccepted
  <2>3. SessionInv(s)'
    BY <1>11, <2>2 DEF SendAccepted
  <2>4. \A t \in Sessions \ {s} : SessionInv(t) => SessionInv(t)'
    BY <1>11 DEF SendAccepted
  <2> QED
    BY <2>1, <2>3, <2>4
<1>12. CASE SendRejected(s)
  BY <1>12 DEF SendRejected, Releases
<1>13. CASE FrameEnds(s)
  BY <1>13 DEF FrameEnds, Releases
<1>14. CASE TransportCloses(s)
  BY <1>14 DEF TransportCloses
<1>15. CASE ReleaseAdmission(s)
  BY <1>15, SMTT(30), ZenonT(60) DEF ReleaseAdmission, ReleasesSlot
<1>16. CASE ReleaseAllTransientBuffers(s)
  BY <1>16 DEF ReleaseAllTransientBuffers, Releases
<1>17. CASE CloseForTimeout(s)
  BY <1>17 DEF CloseForTimeout, Releases, ReleasesSlot
<1> QED
  BY <1>1, <1>2, <1>3, <1>4, <1>5, <1>6, <1>7, <1>8, <1>9, <1>10, <1>11, <1>12, <1>13, <1>14, <1>15, <1>16, <1>17 DEF Step

\* A session takes a slot only when one is left.
LEMMA SlotsNotExceeded ==
    ASSUME VariableTypes, BudgetsHold, NEW s \in Sessions, Step(s)
    PROVE  IsFiniteSet(SlotHolders)' /\ SlotsTaken' <= MaxSessions
<1>1. SlotsTaken = Cardinality(SlotHolders) /\ SlotsTaken' = Cardinality(SlotHolders')
  BY DEF SlotsTaken, SlotHolders
<1>2. Cardinality(SlotHolders) \in Nat
  BY FS_CardinalityType DEF BudgetsHold
<1>3. CASE HelloAcquires(s)
  <2>1. SlotHolders' \subseteq SlotHolders \cup {s}
    BY <1>3 DEF HelloAcquires, VariableTypes, SlotHolders
  <2>2. /\ IsFiniteSet(SlotHolders \cup {s})
        /\ Cardinality(SlotHolders \cup {s}) <= Cardinality(SlotHolders) + 1
    BY OneElementMore DEF BudgetsHold
  <2>3. /\ IsFiniteSet(SlotHolders')
        /\ Cardinality(SlotHolders') <= Cardinality(SlotHolders \cup {s})
    BY <2>1, <2>2, FS_Subset
  <2>4. Cardinality(SlotHolders') \in Nat /\ Cardinality(SlotHolders \cup {s}) \in Nat
    BY <2>2, <2>3, FS_CardinalityType
  <2>5. SlotsTaken < MaxSessions
    BY <1>3 DEF HelloAcquires
  <2> QED
    BY <1>1, <1>2, <2>2, <2>3, <2>4, <2>5, ResourcesAssumption
<1>4. CASE ~HelloAcquires(s)
  <2>1. SlotHolders' \subseteq SlotHolders
    BY <1>4 DEF Step, VariableTypes, SlotHolders, slots, ReleasesSlot, HelloBegins, HelloRefused,
        HelloAssigns, SendBegins, SendReserves, SendRefused, SendRegisters, SendAbandons,
        SendContinues, SendAccepted, SendRejected, FrameEnds, TransportCloses, ReleaseAdmission,
        ReleaseAllTransientBuffers, CloseForTimeout
  <2>2. /\ IsFiniteSet(SlotHolders')
        /\ Cardinality(SlotHolders') <= Cardinality(SlotHolders)
    BY <2>1, FS_Subset DEF BudgetsHold
  <2>3. Cardinality(SlotHolders') \in Nat
    BY <2>2, FS_CardinalityType
  <2> QED
    BY <1>1, <1>2, <2>2, <2>3, ResourcesAssumption DEF BudgetsHold
<1> QED
  BY <1>3, <1>4

\* A session takes room only when there is some, and otherwise gives room back.
LEMMA RoomNotExceeded ==
    ASSUME VariableTypes, VariableTypes', BudgetsHold, NEW s \in Sessions, SessionInv(s), Step(s)
    PROVE  IsFiniteSet(RoomTaken(envelopes')) /\ EnvelopesReserved' <= MaxBuffers
<1>1. envelopes \in [Sessions -> Nat] /\ envelopes' \in [Sessions -> Nat]
  BY DEF VariableTypes
<1>2. /\ EnvelopesReserved = Cardinality(RoomTaken(envelopes))
      /\ EnvelopesReserved' = Cardinality(RoomTaken(envelopes'))
  BY DEF EnvelopesReserved
<1>3. IsFiniteSet(RoomTaken(envelopes)) /\ EnvelopesReserved <= MaxBuffers
  BY DEF BudgetsHold
<1>4. EnvelopesReserved \in Nat
  BY <1>2, <1>3, FS_CardinalityType
<1>5. CASE SendReserves(s)
  <2>1. EnvelopesReserved < MaxBuffers /\ envelopes' = [envelopes EXCEPT ![s] = @ + 1]
    BY <1>5 DEF SendReserves
  <2>2. /\ IsFiniteSet(RoomTaken(envelopes'))
        /\ Cardinality(RoomTaken(envelopes')) <= Cardinality(RoomTaken(envelopes)) + 1
    <3>1. /\ envelopes'[s] = envelopes[s] + 1
          /\ \A t \in Sessions \ {s} : envelopes'[t] = envelopes[t]
      BY <1>1, <2>1
    <3> QED
      BY <1>1, <1>3, <3>1, RoomGrows
  <2>3. Cardinality(RoomTaken(envelopes')) \in Nat
    BY <2>2, FS_CardinalityType
  <2> QED
    BY <1>2, <1>4, <2>1, <2>2, <2>3, ResourcesAssumption
<1>6. CASE ~SendReserves(s)
  <2>1. \A t \in Sessions : envelopes'[t] <= envelopes[t]
    BY <1>6 DEF Step, VariableTypes, SessionInv, LiveIsQueued, buffers, Releases, HelloBegins,
        HelloAcquires, HelloRefused, HelloAssigns, SendBegins, SendRefused, SendRegisters,
        SendAbandons, SendContinues, SendAccepted, SendRejected, FrameEnds, TransportCloses,
        ReleaseAdmission, ReleaseAllTransientBuffers, CloseForTimeout
  <2>2. /\ IsFiniteSet(RoomTaken(envelopes'))
        /\ Cardinality(RoomTaken(envelopes')) <= Cardinality(RoomTaken(envelopes))
    BY <1>1, <1>3, <2>1, RoomShrinks
  <2>3. Cardinality(RoomTaken(envelopes')) \in Nat
    BY <2>2, FS_CardinalityType
  <2> QED
    BY <1>2, <1>3, <1>4, <2>2, <2>3, ResourcesAssumption
<1> QED
  BY <1>5, <1>6

LEMMA InvInit == ResourcesInit => Inv
<1> SUFFICES ASSUME ResourcesInit PROVE Inv
  OBVIOUS
<1>1. VariableTypes /\ \A s \in Sessions : SessionInv(s)
  BY DEF ResourcesInit, VariableTypes, HandlerPlaces, SessionInv, PlaceFits, SlotFound, EnvelopesFound,
         LiveIsQueued, FewAfterClose, InHello, InSend
<1>2. SlotHolders = {} /\ {s \in Sessions : slotTaken[s]} = {} /\ RoomTaken(envelopes) = {}
  BY DEF ResourcesInit, SlotHolders, RoomTaken
<1>3. BudgetsHold
  BY <1>2, FS_EmptySet, ResourcesAssumption DEF BudgetsHold, SlotsTaken, EnvelopesReserved
<1> QED
  BY <1>1, <1>3 DEF Inv

LEMMA InvStep == Inv /\ [ResourcesNext]_resourceVars => Inv'
<1>1. ASSUME Inv, NEW s \in Sessions, Step(s) PROVE Inv'
  <2>1. VariableTypes /\ SessionInv(s) /\ BudgetsHold
    BY <1>1 DEF Inv
  <2>2. VariableTypes' /\ \A t \in Sessions : SessionInv(t)'
    BY <1>1, <2>1, StepOfSession DEF Inv
  <2>3. BudgetsHold'
    BY <1>1, <2>1, <2>2, SlotsNotExceeded, RoomNotExceeded DEF BudgetsHold
  <2> QED
    BY <2>2, <2>3 DEF Inv
<1>2. ASSUME Inv, UNCHANGED resourceVars PROVE Inv'
  BY <1>2 DEF Inv, resourceVars, VariableTypes, SessionInv, PlaceFits, SlotFound, EnvelopesFound,
              LiveIsQueued, FewAfterClose, BudgetsHold, SlotHolders, SlotsTaken,
              EnvelopesReserved
<1> QED
  BY <1>1, <1>2 DEF ResourcesNext, Step

LEMMA InvAlways == ResourcesSpec => []Inv
BY InvInit, InvStep, PTL DEF ResourcesSpec

--------------------------------------------------------------------------------
\* Theorems

\* The budgets are never exceeded and never given back more than was taken,
\* whatever onClosed releases while a handler is half way.
THEOREM TypeOKAlways == ResourcesSpec => []ResourcesTypeOK
<1>1. Inv => ResourcesTypeOK
  <2> SUFFICES ASSUME Inv PROVE ResourcesTypeOK
    OBVIOUS
  <2>1. VariableTypes /\ BudgetsHold
    BY DEF Inv
  <2>2. ASSUME NEW s \in Sessions
        PROVE  envelopes[s] \in 0..MaxBuffers /\ live[s] \in 0..MaxBuffers /\ queued[s] \in 0..MaxBuffers
    <3>1. envelopes \in [Sessions -> Nat] /\ IsFiniteSet(RoomTaken(envelopes))
      BY <2>1 DEF VariableTypes, BudgetsHold
    <3>2. envelopes[s] <= EnvelopesReserved
      BY <3>1, RoomOfOneSession DEF EnvelopesReserved
    <3>3. EnvelopesReserved \in Nat /\ EnvelopesReserved <= MaxBuffers
      BY <2>1, <3>1, FS_CardinalityType DEF BudgetsHold, EnvelopesReserved
    <3>4. queued[s] <= live[s] /\ live[s] <= envelopes[s]
      BY <2>1 DEF Inv, VariableTypes, SessionInv, LiveIsQueued, EnvelopesFound
    <3> QED
      BY <2>1, <3>2, <3>3, <3>4, ResourcesAssumption DEF VariableTypes
  <2> QED
    BY <2>1, <2>2 DEF ResourcesTypeOK, VariableTypes, BudgetsHold
<1> QED
  BY <1>1, InvAlways, PTL

\* Between two handlers of an open transport, everything the session took is
\* where onClosed would find it.
THEOREM TakenIsKnownAlways == ResourcesSpec => []TakenIsKnown
<1>1. Inv => TakenIsKnown
  BY DEF Inv, VariableTypes, SessionInv, SlotFound, EnvelopesFound, LiveIsQueued, TakenIsKnown
<1> QED
  BY <1>1, InvAlways, PTL

\* onClosed leaves behind at most the envelope that a handler had in hand.
THEOREM EndedSessionLeavesAtMostOneEnvelopeAlways ==
    ResourcesSpec => []EndedSessionLeavesAtMostOneEnvelope
<1>1. Inv => EndedSessionLeavesAtMostOneEnvelope
  BY DEF Inv, VariableTypes, SessionInv, EnvelopesFound, FewAfterClose, Ended,
         EndedSessionLeavesAtMostOneEnvelope
<1> QED
  BY <1>1, InvAlways, PTL

--------------------------------------------------------------------------------
\* Sequences

\* r is s without its i-th element.
Without(r, s, i) ==
    /\ Len(r) = Len(s) - 1
    /\ \A j \in 1..(Len(s) - 1) : r[j] = IF j < i THEN s[j] ELSE s[j + 1]

\* A cancelled frame leaves, and the others keep their order.
LEMMA RemoveAtWithout ==
    ASSUME NEW S, NEW s \in Seq(S), NEW i \in 1..Len(s)
    PROVE  RemoveAt(s, i) \in Seq(S) /\ Without(RemoveAt(s, i), s, i)
<1> DEFINE front == SubSeq(s, 1, i - 1)
           back  == SubSeq(s, i + 1, Len(s))
<1>1. front \in Seq(S) /\ Len(front) = i - 1 /\ \A j \in 1..(i - 1) : front[j] = s[j]
    OBVIOUS
<1>2. back \in Seq(S) /\ Len(back) = Len(s) - i /\ \A j \in 1..(Len(s) - i) : back[j] = s[i + j]
    OBVIOUS
<1>3. RemoveAt(s, i) = front \o back
    BY DEF RemoveAt
<1> HIDE DEF front, back
<1>4. /\ front \o back \in Seq(S)
      /\ Len(front \o back) = Len(front) + Len(back)
      /\ \A j \in 1..(Len(front) + Len(back)) :
            (front \o back)[j] = IF j <= Len(front) THEN front[j] ELSE back[j - Len(front)]
    BY <1>1, <1>2, ConcatProperties
<1>5. ASSUME NEW j \in 1..(Len(s) - 1)
      PROVE  (front \o back)[j] = IF j < i THEN s[j] ELSE s[j + 1]
  <2>1. j \in 1..(Len(front) + Len(back))
      BY <1>1, <1>2
  <2>2. CASE j < i
      BY <2>1, <2>2, <1>1, <1>4
  <2>3. CASE ~(j < i)
    <3>1. /\ j - Len(front) \in 1..(Len(s) - i)
          /\ i + (j - Len(front)) = j + 1
          /\ ~(j <= Len(front))
        BY <2>3, <1>1
    <3>2. (front \o back)[j] = back[j - Len(front)]
        BY <2>1, <3>1, <1>4
    <3>3. back[j - Len(front)] = s[j + 1]
        BY <3>1, <1>2
    <3>4. QED
        BY <2>3, <3>2, <3>3
  <2>4. QED
      BY <2>2, <2>3
<1>6. Len(front \o back) = Len(s) - 1
    BY <1>1, <1>2, <1>4
<1>7. QED
    BY <1>3, <1>4, <1>5, <1>6 DEF Without

\* The head that was written leaves.
LEMMA TailWithout ==
    ASSUME NEW S, NEW s \in Seq(S), s # <<>>
    PROVE  /\ Tail(s) \in Seq(S)
           /\ Without(Tail(s), s, 1)
           /\ Len(s) \in Nat \ {0}
           /\ Head(s) = s[1]
<1>1. Tail(s) \in Seq(S) /\ Len(Tail(s)) = Len(s) - 1 /\ Len(s) \in Nat \ {0} /\ Head(s) = s[1]
    OBVIOUS
<1>2. \A j \in 1..(Len(s) - 1) : Tail(s)[j] = s[j + 1]
    OBVIOUS
<1>3. ASSUME NEW j \in 1..(Len(s) - 1)
      PROVE  ~(j < 1)
    OBVIOUS
<1>4. QED
    BY <1>1, <1>2, <1>3 DEF Without

\* A frame joins at the tail.
LEMMA AppendElements ==
    ASSUME NEW S, NEW s \in Seq(S), NEW e \in S
    PROVE  /\ Append(s, e) \in Seq(S)
           /\ Len(Append(s, e)) = Len(s) + 1
           /\ \A j \in 1..Len(s) : Append(s, e)[j] = s[j]
           /\ Append(s, e)[Len(s) + 1] = e
OBVIOUS

LEMMA CommittedEntry ==
    ASSUME NEW x \in Entry
    PROVE  [x EXCEPT !.committed = TRUE] = [frame |-> x.frame, committed |-> TRUE]
<1> DEFINE e == [x EXCEPT !.committed = TRUE]
<1>1. x = [frame |-> x.frame, committed |-> x.committed]
    BY DEF Entry
<1>2. e \in Entry /\ e.frame = x.frame /\ e.committed = TRUE
    BY <1>1 DEF Entry
<1> HIDE DEF e
<1>3. e = [frame |-> e.frame, committed |-> e.committed]
    BY <1>2 DEF Entry
<1>4. QED
    BY <1>2, <1>3 DEF e

\* The driver commits the head, and changes nothing else.
LEMMA CommitElements ==
    ASSUME NEW s \in Seq(Entry), s # <<>>
    PROVE  LET r == [s EXCEPT ![1].committed = TRUE] IN
           /\ r \in Seq(Entry)
           /\ Len(r) = Len(s)
           /\ r[1] = [frame |-> s[1].frame, committed |-> TRUE]
           /\ \A j \in 1..Len(s) : r[j].frame = s[j].frame
           /\ \A j \in 1..Len(s) : j # 1 => r[j] = s[j]
           /\ s[1].committed => r = s
<1> DEFINE e == [s[1] EXCEPT !.committed = TRUE]
           r == [s EXCEPT ![1] = e]
<1>1. 1 \in 1..Len(s) /\ s[1] \in Entry
    OBVIOUS
<1>2. e = [frame |-> s[1].frame, committed |-> TRUE]
    BY <1>1, CommittedEntry
<1>3. s[1].frame \in Nat /\ s[1] = [frame |-> s[1].frame, committed |-> s[1].committed]
    BY <1>1 DEF Entry
<1>4. e \in Entry /\ e.frame = s[1].frame
    BY <1>2, <1>3 DEF Entry
<1>5. s[1].committed => e = s[1]
  <2>1. s[1].committed \in BOOLEAN
      BY <1>1 DEF Entry
  <2>2. QED
      BY <1>2, <1>3, <2>1
<1> HIDE DEF e
<1>6. /\ r \in Seq(Entry)
      /\ Len(r) = Len(s)
      /\ \A j \in 1..Len(s) : r[j] = IF j = 1 THEN e ELSE s[j]
    BY <1>1, <1>4, ExceptSeq
<1>7. ASSUME s[1].committed
      PROVE  r = s
  <2> HIDE DEF r
  <2>1. \A j \in 1..Len(s) : r[j] = s[j]
      BY <1>5, <1>6, <1>7
  <2>2. QED
      BY <1>6, <2>1, SeqEqual
<1>8. /\ r[1] = e
      /\ \A j \in 1..Len(s) : r[j].frame = s[j].frame
      /\ \A j \in 1..Len(s) : j # 1 => r[j] = s[j]
    BY <1>1, <1>4, <1>6
<1>9. r = [s EXCEPT ![1].committed = TRUE]
    BY DEF e
<1> HIDE DEF r
<1>10. QED
    BY <1>2, <1>4, <1>6, <1>7, <1>8, <1>9

--------------------------------------------------------------------------------
\* The inductive invariant

InDriver == driver \in {"looking", "committed"}
Requested == driver = "written" /\ driveRequested
Driven == starter \/ InDriver \/ socket # 0 \/ completion # "none" \/ Requested

\* The work of the next write is never in two places, and it is in one as long
\* as a write is pending.  A failed queue is empty.
Control ==
    /\ starter => ~InDriver /\ socket = 0 /\ completion = "none" /\ ~Requested
    /\ InDriver => socket = 0 /\ completion = "none"
    /\ socket # 0 => completion = "none" /\ ~Requested
    /\ completion # "none" => ~Requested
    /\ driveRequested => driver \in {"looking", "written"}
    /\ driver = "committed" => current # 0
    /\ failed => queue = <<>>
    /\ ~failed /\ ~writePending => queue = <<>> /\ driver = "idle" /\ ~Driven
    /\ ~failed /\ writePending => Driven

\* The frame the driver committed, and the one in the channel, are the head.
HeadIs(frame) ==
    queue # <<>> /\ queue[1].frame = frame /\ queue[1].committed = TRUE

AtHead ==
    ~failed => /\ socket # 0 => HeadIs(socket)
               /\ driver = "committed" => HeadIs(current)

\* The peer received nothing later than frame.
Reached(frame) == frame <= accepted /\ \A i \in 1..Len(wire) : wire[i] <= frame

\* The frames are queued in the order of their numbers, after those that the
\* peer received.
Ordered ==
    /\ \A i \in 1..Len(queue) : queue[i].frame \in 1..accepted
    /\ \A i, j \in 1..Len(queue) : i < j => queue[i].frame < queue[j].frame
    /\ \A i, j \in 1..Len(wire) : i <= j => wire[i] <= wire[j]
    /\ \A i \in 1..Len(wire), j \in 1..Len(queue) :
          /\ wire[i] <= queue[j].frame
          /\ queue[j].committed = FALSE => wire[i] < queue[j].frame
    /\ Reached(accepted)
    /\ socket # 0 => Reached(socket)
    /\ driver = "committed" => Reached(current)

WritesInv == QueueTyped /\ Control /\ AtHead /\ Ordered

--------------------------------------------------------------------------------
\* Types

LEMMA TypeStep == QueueTyped /\ [QueueNext]_queueVars => QueueTyped'
<1> SUFFICES ASSUME QueueTyped, [QueueNext]_queueVars
             PROVE  QueueTyped'
    OBVIOUS
<1> USE DEF QueueTyped
<1>0. queue \in Seq(Entry) /\ <<>> \in Seq(Entry)
    OBVIOUS
<1>1. CASE Enqueue
  <2>1. [frame |-> accepted + 1, committed |-> FALSE] \in Entry
      BY DEF Entry
  <2>2. queue' \in Seq(Entry)
      BY <1>0, <1>1, <2>1, AppendElements DEF Enqueue
  <2>3. QED
      BY <1>1, <2>2 DEF Enqueue
<1>2. ASSUME NEW i \in DOMAIN queue, CancelFrame(i)
      PROVE  QueueTyped'
  <2>1. i \in 1..Len(queue)
      OBVIOUS
  <2>2. queue' \in Seq(Entry)
      BY <1>0, <1>2, <2>1, RemoveAtWithout DEF CancelFrame
  <2>3. QED
      BY <1>2, <2>2 DEF CancelFrame
<1>3. CASE StarterDrives
    BY <1>3 DEF StarterDrives, RequestDrive
<1>4. CASE CompletionDrives
    BY <1>4 DEF CompletionDrives, RequestDrive
<1>5. CASE DriverStops
    BY <1>5 DEF DriverStops
<1>6. CASE DriverCommits
  <2>1. queue' \in Seq(Entry)
      BY <1>0, <1>6, CommitElements DEF DriverCommits
  <2>3. Head(queue) \in Entry
      BY <1>0, <1>6 DEF DriverCommits
  <2>4. Head(queue).frame \in Nat
      BY <2>3 DEF Entry
  <2>2. armed' \in BOOLEAN
      BY <1>6 DEF DriverCommits
  <2>5. QED
      BY <1>6, <2>1, <2>2, <2>4 DEF DriverCommits
<1>7. CASE DriverWrites
    BY <1>7 DEF DriverWrites
<1>8. CASE DriverThrows
    BY <1>8, <1>0 DEF DriverThrows, Fail
<1>9. CASE DriverReturns
    BY <1>9 DEF DriverReturns
<1>10. ASSUME NEW some \in BOOLEAN, WritesPart(some)
       PROVE  QueueTyped'
    BY <1>10 DEF WritesPart
<1>11. CASE WritesRest
  <2>1. queue' \in Seq(Entry)
      BY <1>0, <1>11, TailWithout DEF WritesRest, HeadIsWritten
  <2>2. wire' \in Seq(Nat)
      BY <1>11, AppendElements DEF WritesRest
  <2>3. QED
      BY <1>11, <2>1, <2>2 DEF WritesRest
<1>12. CASE HeadChanged
  <2>1. wire' \in Seq(Nat)
      BY <1>12, AppendElements DEF HeadChanged
  <2>2. QED
      BY <1>12, <1>0, <2>1 DEF HeadChanged, Fail
<1>13. CASE CallbackReturns
    BY <1>13 DEF CallbackReturns
<1>14. CASE CallbackThrows
    BY <1>14, <1>0 DEF CallbackThrows, Fail
<1>15. CASE WriteFails
    BY <1>15, <1>0 DEF WriteFails, Fail
<1>16. CASE DeadlineExpires
    BY <1>16 DEF DeadlineExpires
<1>17. CASE DeadlineFails
    BY <1>17, <1>0 DEF DeadlineFails, Fail
<1>18. CASE UNCHANGED queueVars
    BY <1>18 DEF queueVars
<1>19. QED
    BY <1>1, <1>2, <1>3, <1>4, <1>5, <1>6, <1>7, <1>8, <1>9, <1>10, <1>11, <1>12, <1>13,
       <1>14, <1>15, <1>16, <1>17, <1>18
    DEF QueueNext

--------------------------------------------------------------------------------
\* One place for the work

LEMMA ControlStep == QueueTyped /\ Control /\ Ordered /\ [QueueNext]_queueVars => Control'
<1> SUFFICES ASSUME QueueTyped, Control, Ordered, [QueueNext]_queueVars
             PROVE  Control'
    OBVIOUS
<1> USE DEF Control, Driven, InDriver, Requested
<1>0. /\ driver \in {"idle", "looking", "committed", "written"}
      /\ completion \in {"none", "callback", "drive"}
      /\ {writePending, failed, starter, driveRequested} \subseteq BOOLEAN
    BY DEF QueueTyped
<1>1. CASE Enqueue
    BY <1>0, <1>1 DEF Enqueue, MayEnqueue
<1>2. ASSUME NEW i \in DOMAIN queue, CancelFrame(i)
      PROVE  Control'
  <2>1. queue # <<>>
      OBVIOUS
  <2>2. QED
      BY <1>0, <1>2, <2>1 DEF CancelFrame
<1>3. CASE StarterDrives
    BY <1>0, <1>3 DEF StarterDrives, RequestDrive
<1>4. CASE CompletionDrives
    BY <1>0, <1>4 DEF CompletionDrives, RequestDrive
<1>5. CASE DriverStops
    BY <1>0, <1>5 DEF DriverStops
<1>6. CASE DriverCommits
  <2>1. Len(queue) \in Nat \ {0} /\ Head(queue) = queue[1]
      BY <1>6, TailWithout DEF DriverCommits, QueueTyped
  <2>2. Head(queue).frame # 0
      BY <2>1, 1 \in 1..Len(queue) DEF Ordered, QueueTyped
  <2>3. queue' # <<>>
      BY <1>6, CommitElements, <2>1 DEF DriverCommits, QueueTyped
  <2>4. QED
      BY <1>0, <1>6, <2>2, <2>3 DEF DriverCommits
<1>7. CASE DriverWrites
    BY <1>0, <1>7 DEF DriverWrites
<1>8. CASE DriverThrows
    BY <1>0, <1>8 DEF DriverThrows, Fail
<1>9. CASE DriverReturns
    BY <1>0, <1>9 DEF DriverReturns
<1>10. ASSUME NEW some \in BOOLEAN, WritesPart(some)
       PROVE  Control'
    BY <1>0, <1>10 DEF WritesPart
<1>11. CASE WritesRest
    BY <1>0, <1>11 DEF WritesRest, HeadIsWritten
<1>12. CASE HeadChanged
    BY <1>0, <1>12 DEF HeadChanged, Fail
<1>13. CASE CallbackReturns
    BY <1>0, <1>13 DEF CallbackReturns
<1>14. CASE CallbackThrows
    BY <1>0, <1>14 DEF CallbackThrows, Fail
<1>15. CASE WriteFails
    BY <1>0, <1>15 DEF WriteFails, Fail
<1>16. CASE DeadlineExpires
    BY <1>0, <1>16 DEF DeadlineExpires
<1>17. CASE DeadlineFails
    BY <1>0, <1>17 DEF DeadlineFails, Fail
<1>18. CASE UNCHANGED queueVars
    BY <1>18 DEF queueVars
<1>19. QED
    BY <1>1, <1>2, <1>3, <1>4, <1>5, <1>6, <1>7, <1>8, <1>9, <1>10, <1>11, <1>12, <1>13,
       <1>14, <1>15, <1>16, <1>17, <1>18
    DEF QueueNext

--------------------------------------------------------------------------------
\* The head that is committed stays

\* What an action that leaves the queue and the wire alone keeps.
LEMMA ElementsOfQueue ==
    QueueTyped => /\ Len(queue) \in Nat /\ Len(wire) \in Nat
                  /\ queue # <<>> => 1 \in 1..Len(queue) /\ Head(queue) = queue[1]
                  /\ \A j \in 1..Len(queue) : queue[j] \in Entry
                  /\ \A j \in 1..Len(queue) : queue[j].frame \in Nat /\ queue[j].committed \in BOOLEAN
                  /\ \A j \in 1..Len(wire) : wire[j] \in Nat
<1> SUFFICES ASSUME QueueTyped
             PROVE  /\ Len(queue) \in Nat /\ Len(wire) \in Nat
                    /\ queue # <<>> => 1 \in 1..Len(queue) /\ Head(queue) = queue[1]
                    /\ \A j \in 1..Len(queue) : queue[j] \in Entry
                    /\ \A j \in 1..Len(queue) : queue[j].frame \in Nat /\ queue[j].committed \in BOOLEAN
                    /\ \A j \in 1..Len(wire) : wire[j] \in Nat
    OBVIOUS
<1>1. queue \in Seq(Entry) /\ wire \in Seq(Nat)
    BY DEF QueueTyped
<1>2. queue # <<>> => 1 \in 1..Len(queue) /\ Head(queue) = queue[1]
    BY <1>1, TailWithout
<1>3. \A j \in 1..Len(queue) : queue[j] \in Entry
    BY <1>1
<1>4. \A j \in 1..Len(queue) : queue[j].frame \in Nat /\ queue[j].committed \in BOOLEAN
    BY <1>3 DEF Entry
<1>5. QED
    BY <1>1, <1>2, <1>3, <1>4

\* Enqueueing and cancelling leave a committed head where it is.
LEMMA HeadStays ==
    ASSUME QueueTyped, NEW frame, HeadIs(frame),
           Enqueue \/ \E i \in DOMAIN queue : CancelFrame(i)
    PROVE  HeadIs(frame)'
<1>1. /\ queue \in Seq(Entry) /\ queue # <<>>
      /\ Len(queue) \in Nat /\ 1 \in 1..Len(queue) /\ queue[1] \in Entry
    BY ElementsOfQueue DEF HeadIs, QueueTyped
<1>2. queue' # <<>> /\ queue'[1] = queue[1]
  <2>1. CASE Enqueue
    <3>1. [frame |-> accepted + 1, committed |-> FALSE] \in Entry
        BY DEF Entry, QueueTyped
    <3>2. QED
        BY <1>1, <2>1, <3>1, AppendElements DEF Enqueue
  <2>2. ASSUME NEW i \in DOMAIN queue, CancelFrame(i)
        PROVE  queue' # <<>> /\ queue'[1] = queue[1]
    <3>1. i \in 1..Len(queue) /\ i # 1
        BY <1>1, <2>2 DEF CancelFrame, HeadIs
    <3>2. queue' \in Seq(Entry) /\ Without(queue', queue, i)
        BY <1>1, <2>2, <3>1, RemoveAtWithout DEF CancelFrame
    <3>3. Len(queue') = Len(queue) - 1 /\ 1 \in 1..(Len(queue) - 1) /\ 1 < i
        BY <1>1, <3>1, <3>2 DEF Without
    <3>4. QED
        BY <3>2, <3>3 DEF Without
  <2>3. QED
      BY <2>1, <2>2
<1>3. QED
    BY <1>2 DEF HeadIs

LEMMA AtHeadStep == QueueTyped /\ Control /\ AtHead /\ [QueueNext]_queueVars => AtHead'
<1> SUFFICES ASSUME QueueTyped, Control, AtHead, [QueueNext]_queueVars
             PROVE  AtHead'
    OBVIOUS
<1> USE DEF AtHead
<1>1. CASE Enqueue
    BY <1>1, HeadStays DEF Enqueue, HeadIs
<1>2. ASSUME NEW i \in DOMAIN queue, CancelFrame(i)
      PROVE  AtHead'
    BY <1>2, HeadStays DEF CancelFrame, HeadIs
<1>3. CASE StarterDrives
    BY <1>3 DEF StarterDrives, RequestDrive, HeadIs
<1>4. CASE CompletionDrives
    BY <1>4 DEF CompletionDrives, RequestDrive, HeadIs
<1>5. CASE DriverStops
    BY <1>5 DEF DriverStops, Control, InDriver
<1>6. CASE DriverCommits
  <2>1. /\ queue' # <<>> /\ queue'[1].frame = queue[1].frame /\ queue'[1].committed = TRUE
        /\ Head(queue) = queue[1]
    <3>1. /\ queue \in Seq(Entry) /\ queue # <<>> /\ 1 \in 1..Len(queue)
          /\ Head(queue) = queue[1] /\ Len(queue) \in Nat
        BY <1>6, ElementsOfQueue DEF DriverCommits, QueueTyped
    <3>2. /\ queue' \in Seq(Entry) /\ Len(queue') = Len(queue)
          /\ queue'[1] = [frame |-> queue[1].frame, committed |-> TRUE]
        BY <1>6, <3>1, CommitElements DEF DriverCommits
    <3>3. QED
        BY <3>1, <3>2
  <2>2. socket' = 0 /\ current' = queue[1].frame
      BY <1>6, <2>1 DEF DriverCommits, Control, InDriver
  <2>3. QED
      BY <2>1, <2>2 DEF HeadIs
<1>7. CASE DriverWrites
    BY <1>7 DEF DriverWrites, HeadIs
<1>8. CASE DriverThrows
    BY <1>8 DEF DriverThrows, Fail
<1>9. CASE DriverReturns
    BY <1>9 DEF DriverReturns, HeadIs
<1>10. ASSUME NEW some \in BOOLEAN, WritesPart(some)
       PROVE  AtHead'
    BY <1>10 DEF WritesPart, HeadIs
<1>11. CASE WritesRest
    BY <1>11 DEF WritesRest, Control, InDriver
<1>12. CASE HeadChanged
    BY <1>12 DEF HeadChanged, Fail
<1>13. CASE CallbackReturns
    BY <1>13 DEF CallbackReturns, HeadIs
<1>14. CASE CallbackThrows
    BY <1>14 DEF CallbackThrows, Fail
<1>15. CASE WriteFails
    BY <1>15 DEF WriteFails, Fail
<1>16. CASE DeadlineExpires
    BY <1>16 DEF DeadlineExpires, HeadIs
<1>17. CASE DeadlineFails
    BY <1>17 DEF DeadlineFails, Fail
<1>18. CASE UNCHANGED queueVars
    BY <1>18 DEF queueVars, HeadIs
<1>19. QED
    BY <1>1, <1>2, <1>3, <1>4, <1>5, <1>6, <1>7, <1>8, <1>9, <1>10, <1>11, <1>12, <1>13,
       <1>14, <1>15, <1>16, <1>17, <1>18
    DEF QueueNext

--------------------------------------------------------------------------------
\* The order of the frames

\* Parts of Ordered, about the queue, the wire, and one and the other.
QueueOrdered ==
    /\ \A i \in 1..Len(queue) : queue[i].frame \in 1..accepted
    /\ \A i, j \in 1..Len(queue) : i < j => queue[i].frame < queue[j].frame

WireOrdered == \A i, j \in 1..Len(wire) : i <= j => wire[i] <= wire[j]

WireBeforeQueue ==
    \A i \in 1..Len(wire), j \in 1..Len(queue) :
        /\ wire[i] <= queue[j].frame
        /\ queue[j].committed = FALSE => wire[i] < queue[j].frame

\* The peer receives a piece of a frame no earlier than those it received.
LEMMA WireGrows ==
    ASSUME QueueTyped, Ordered, NEW frame \in Nat, Reached(frame),
           wire' = Append(wire, frame), accepted' = accepted
    PROVE  /\ WireOrdered'
           /\ Reached(accepted)'
           /\ \A i \in 1..Len(wire') : wire'[i] <= frame
<1>1. /\ Len(wire) \in Nat /\ Len(wire') = Len(wire) + 1
      /\ \A i \in 1..Len(wire) : wire'[i] = wire[i] /\ wire[i] \in Nat
      /\ wire'[Len(wire) + 1] = frame
    BY AppendElements, ElementsOfQueue DEF QueueTyped
<1>2. \A i \in 1..Len(wire') : i \in 1..Len(wire) \/ i = Len(wire) + 1
    BY <1>1
<1>3. \A i \in 1..Len(wire') : wire'[i] \in Nat /\ wire'[i] <= frame
    BY <1>1, <1>2 DEF Reached
<1>4. WireOrdered'
  <2>1. ASSUME NEW i \in 1..Len(wire'), NEW j \in 1..Len(wire'), i <= j
        PROVE  wire'[i] <= wire'[j]
    <3>1. CASE j = Len(wire) + 1
        BY <3>1, <1>1, <1>3
    <3>2. CASE j \in 1..Len(wire)
      <4>1. i \in 1..Len(wire)
          BY <3>2, <2>1, <1>1
      <4>2. wire[i] <= wire[j]
          BY <4>1, <3>2, <2>1 DEF Ordered
      <4>3. QED
          BY <4>1, <4>2, <3>2, <1>1
    <3>3. QED
        BY <3>1, <3>2, <1>2
  <2>2. QED
      BY <2>1 DEF WireOrdered
<1>5. frame <= accepted /\ accepted \in Nat
    BY DEF Reached, QueueTyped
<1>6. Reached(accepted)'
  <2>1. \A i \in 1..Len(wire') : wire'[i] <= accepted
      BY <1>3, <1>5
  <2>2. QED
      BY <2>1, <1>5 DEF Reached
<1>7. QED
    BY <1>3, <1>4, <1>6

\* The frame in the channel is before those queued behind it.
LEMMA SocketBeforeQueue ==
    ASSUME QueueTyped, Ordered, HeadIs(socket)
    PROVE  \A j \in 1..Len(queue) : /\ socket <= queue[j].frame
                                    /\ j # 1 \/ queue[j].committed = FALSE
                                            => socket < queue[j].frame
<1>1. /\ Len(queue) \in Nat /\ 1 \in 1..Len(queue)
      /\ queue[1].frame = socket /\ socket \in Nat /\ queue[1].committed = TRUE
      /\ \A j \in 1..Len(queue) : queue[j].frame \in Nat
    BY ElementsOfQueue DEF HeadIs, QueueTyped
<1>2. \A j \in 1..Len(queue) : j # 1 => 1 < j
    BY <1>1
<1>3. \A j \in 1..Len(queue) : j # 1 => socket < queue[j].frame
    BY <1>1, <1>2 DEF Ordered
<1>4. QED
    BY <1>1, <1>3

\* A frame that leaves the queue does not disturb the order.
LEMMA OrderWithout ==
    ASSUME QueueTyped, Ordered, NEW k \in 1..Len(queue), Without(queue', queue, k),
           accepted' = accepted
    PROVE  /\ QueueOrdered'
           /\ \A j \in 1..Len(queue') :
                 \E i \in 1..Len(queue) : i # k /\ queue'[j] = queue[i]
<1>1. Len(queue) \in Nat /\ Len(queue') = Len(queue) - 1
    BY ElementsOfQueue DEF Without
<1> DEFINE from(j) == IF j < k THEN j ELSE j + 1
<1>2. \A j \in 1..Len(queue') : from(j) \in 1..Len(queue) /\ from(j) # k /\ queue'[j] = queue[from(j)]
    BY <1>1 DEF Without
<1>3. \A i, j \in 1..Len(queue') : i < j => from(i) < from(j)
    BY <1>1
<1> HIDE DEF from
<1>4. QueueOrdered'
    BY <1>2, <1>3 DEF Ordered, QueueOrdered
<1>5. QED
    BY <1>2, <1>4

LEMMA OrderedStep ==
    QueueTyped /\ Control /\ AtHead /\ Ordered /\ [QueueNext]_queueVars => Ordered'
<1> SUFFICES ASSUME QueueTyped, Control, AtHead, Ordered, [QueueNext]_queueVars
             PROVE  Ordered'
    OBVIOUS
<1>0. /\ Len(queue) \in Nat /\ Len(wire) \in Nat /\ accepted \in Nat /\ socket \in Nat
      /\ Len(<<>>) = 0
      /\ \A j \in 1..Len(queue) : queue[j].frame \in Nat /\ queue[j].committed \in BOOLEAN
      /\ \A j \in 1..Len(wire) : wire[j] \in Nat
    BY ElementsOfQueue DEF QueueTyped
<1>a. ASSUME UNCHANGED <<queue, wire, accepted, current>>,
             socket' # 0 => socket' = socket,
             driver' = "committed" => driver = "committed"
      PROVE  Ordered'
    BY <1>a DEF Ordered, Reached
<1>b. ASSUME queue' = <<>>, UNCHANGED <<wire, accepted, current>>,
             socket' # 0 => socket' = socket,
             driver' = "committed" => driver = "committed"
      PROVE  Ordered'
    BY <1>b, <1>0 DEF Ordered, Reached
<1>1. CASE Enqueue
  <2> DEFINE new == [frame |-> accepted + 1, committed |-> FALSE]
  <2>1. new \in Entry /\ new.frame = accepted + 1
      BY <1>0 DEF Entry
  <2> HIDE DEF new
  <2>2. /\ Len(queue') = Len(queue) + 1
        /\ \A j \in 1..Len(queue) : queue'[j] = queue[j]
        /\ queue'[Len(queue) + 1] = new
    <3>1. queue \in Seq(Entry) /\ queue' = Append(queue, new)
        BY <1>1 DEF Enqueue, new, QueueTyped
    <3>2. QED
        BY <2>1, <3>1, AppendElements
  <2>3. \A j \in 1..Len(queue') : \/ j \in 1..Len(queue) /\ queue'[j] = queue[j]
                                  \/ j = Len(queue) + 1 /\ queue'[j].frame = accepted + 1
      BY <1>0, <2>1, <2>2
  <2>4. accepted' = accepted + 1 /\ UNCHANGED <<wire, socket, current, driver>>
      BY <1>1 DEF Enqueue
  <2>5. QueueOrdered'
    <3>1. \A j \in 1..Len(queue') : queue'[j].frame \in 1..accepted'
        BY <1>0, <2>3, <2>4, SMTT(30), ZenonT(60) DEF Ordered
    <3>2. ASSUME NEW i \in 1..Len(queue'), NEW j \in 1..Len(queue'), i < j
          PROVE  queue'[i].frame < queue'[j].frame
      <4>1. i \in 1..Len(queue) /\ queue'[i] = queue[i] /\ queue[i].frame \in 1..accepted
          BY <1>0, <2>2, <3>2 DEF Ordered
      <4>2. CASE j \in 1..Len(queue) /\ queue'[j] = queue[j]
          BY <4>1, <4>2, <3>2 DEF Ordered
      <4>3. CASE queue'[j].frame = accepted + 1
          BY <4>1, <4>3, <1>0
      <4>4. QED
          BY <4>2, <4>3, <2>3
    <3>3. QED
        BY <3>1, <3>2 DEF QueueOrdered
  <2>6. \A i \in 1..Len(wire) : wire[i] < accepted + 1
      BY <1>0 DEF Ordered, Reached
  <2>7. WireBeforeQueue'
    <3>1. ASSUME NEW i \in 1..Len(wire), NEW j \in 1..Len(queue')
          PROVE  /\ wire[i] <= queue'[j].frame
                 /\ queue'[j].committed = FALSE => wire[i] < queue'[j].frame
      <4>1. CASE j \in 1..Len(queue) /\ queue'[j] = queue[j]
          BY <4>1 DEF Ordered
      <4>2. CASE queue'[j].frame = accepted + 1
          BY <4>2, <2>6, <1>0
      <4>3. QED
          BY <4>1, <4>2, <2>3
    <3>2. QED
        BY <3>1, <2>4 DEF WireBeforeQueue
  <2>8. WireOrdered'
      BY <2>4 DEF Ordered, WireOrdered
  <2>9. ASSUME NEW frame \in Nat, Reached(frame)
        PROVE  frame <= accepted' /\ \A i \in 1..Len(wire') : wire'[i] <= frame
      BY <2>4, <2>9, <1>0 DEF Reached
  <2>10. /\ Reached(accepted)'
         /\ socket' # 0 => Reached(socket)'
         /\ driver' = "committed" => Reached(current)'
      BY <2>4, <2>6, <2>9, <1>0 DEF Reached, Ordered, QueueTyped
  <2>11. QED
      BY <2>5, <2>7, <2>8, <2>10 DEF Ordered, QueueOrdered, WireOrdered, WireBeforeQueue
<1>2. ASSUME NEW k \in DOMAIN queue, CancelFrame(k)
      PROVE  Ordered'
  <2>1. k \in 1..Len(queue) /\ Without(queue', queue, k)
    <3>1. k \in 1..Len(queue) /\ queue \in Seq(Entry)
        BY DEF QueueTyped
    <3>2. QED
        BY <1>2, <3>1, RemoveAtWithout DEF CancelFrame
  <2>2. UNCHANGED <<wire, accepted, current, socket, driver>>
      BY <1>2 DEF CancelFrame
  <2>3. /\ QueueOrdered'
        /\ \A j \in 1..Len(queue') : \E i \in 1..Len(queue) : queue'[j] = queue[i]
      BY <2>1, <2>2, OrderWithout
  <2>4. QED
      BY <2>2, <2>3, SMTT(30), ZenonT(60) DEF Ordered, QueueOrdered, Reached
<1>3. CASE StarterDrives
    BY <1>3, <1>a DEF StarterDrives, RequestDrive
<1>4. CASE CompletionDrives
    BY <1>4, <1>a DEF CompletionDrives, RequestDrive
<1>5. CASE DriverStops
    BY <1>5, <1>a DEF DriverStops
<1>6. CASE DriverCommits
  <2>1. /\ queue # <<>> /\ 1 \in 1..Len(queue) /\ Head(queue) = queue[1]
        /\ UNCHANGED <<wire, accepted, socket>> /\ current' = queue[1].frame
      BY <1>6, ElementsOfQueue DEF DriverCommits
  <2>2. /\ Len(queue') = Len(queue)
        /\ \A j \in 1..Len(queue) : queue'[j].frame = queue[j].frame
        /\ \A j \in 1..Len(queue) : queue'[j].committed = FALSE => queue[j].committed = FALSE
    <3>1. queue \in Seq(Entry)
        BY DEF QueueTyped
    <3>2. /\ Len(queue') = Len(queue)
          /\ \A j \in 1..Len(queue) : queue'[j].frame = queue[j].frame
          /\ \A j \in 1..Len(queue) : j # 1 => queue'[j] = queue[j]
          /\ queue'[1] = [frame |-> queue[1].frame, committed |-> TRUE]
        BY <1>6, <2>1, <3>1, CommitElements DEF DriverCommits
    <3>3. QED
        BY <3>2
  <2>3. QueueOrdered' /\ WireOrdered' /\ WireBeforeQueue'
      BY <2>1, <2>2 DEF Ordered, QueueOrdered, WireOrdered, WireBeforeQueue
  <2>4. Reached(accepted)' /\ (socket' # 0 => Reached(socket)')
      BY <2>1 DEF Ordered, Reached
  <2>5. Reached(current)'
      BY <1>0, <2>1 DEF Ordered, Reached
  <2>6. QED
      BY <2>3, <2>4, <2>5 DEF Ordered, QueueOrdered, WireOrdered, WireBeforeQueue
<1>7. CASE DriverWrites
    BY <1>7 DEF DriverWrites, Ordered, Reached
<1>8. CASE DriverThrows
    BY <1>8, <1>b DEF DriverThrows, Fail
<1>9. CASE DriverReturns
    BY <1>9, <1>a DEF DriverReturns
<1>10. ASSUME NEW some \in BOOLEAN, WritesPart(some)
       PROVE  Ordered'
  <2>1. CASE ~some
      BY <2>1, <1>10, <1>a DEF WritesPart
  <2>2. CASE some
    <3>1. /\ Reached(socket) /\ wire' = Append(wire, socket) /\ socket # 0 /\ socket' = 0
          /\ UNCHANGED <<queue, accepted, driver>>
        BY <2>2, <1>10 DEF WritesPart, Ordered
    <3>2. /\ WireOrdered' /\ Reached(accepted)'
          /\ \A i \in 1..Len(wire') : wire'[i] <= socket /\ wire'[i] \in Nat
      <4>1. wire' \in Seq(Nat)
          BY TypeStep DEF QueueTyped
      <4>2. socket \in Nat
          BY <1>0 DEF QueueTyped
      <4>3. \A i \in 1..Len(wire') : wire'[i] <= socket
          BY <1>0, <3>1, <4>2, WireGrows
      <4>4. WireOrdered' /\ Reached(accepted)'
          BY <1>0, <3>1, <4>2, WireGrows
      <4>5. QED
          BY <4>1, <4>3, <4>4
    <3>3. WireBeforeQueue'
      <4>1. CASE failed
          BY <4>1, <3>1, <1>0 DEF Control, WireBeforeQueue
      <4>2. CASE ~failed
        <5>1. \A j \in 1..Len(queue) : /\ socket <= queue[j].frame
                                       /\ queue[j].committed = FALSE => socket < queue[j].frame
            BY <4>2, <3>1, SocketBeforeQueue DEF AtHead
        <5>2. QED
            BY <5>1, <3>1, <3>2, <1>0 DEF WireBeforeQueue
      <4>3. QED
          BY <4>1, <4>2
    <3>4. QueueOrdered' /\ driver' # "committed"
        BY <3>1 DEF Ordered, QueueOrdered, Control, InDriver
    <3>5. QED
        BY <3>1, <3>2, <3>3, <3>4 DEF Ordered, QueueOrdered, WireOrdered, WireBeforeQueue
  <2>3. QED
      BY <2>1, <2>2
<1>11. CASE WritesRest
  <2>1. /\ Reached(socket) /\ wire' = Append(wire, socket) /\ socket # 0 /\ socket' = 0
        /\ UNCHANGED <<accepted, driver>> /\ queue # <<>> /\ queue' = Tail(queue)
      BY <1>11 DEF WritesRest, HeadIsWritten, Ordered
  <2>2. /\ WireOrdered' /\ Reached(accepted)'
        /\ \A i \in 1..Len(wire') : wire'[i] <= socket /\ wire'[i] \in Nat
    <3>1. wire' \in Seq(Nat)
        BY TypeStep DEF QueueTyped
    <3>2. socket \in Nat
        BY <1>0 DEF QueueTyped
    <3>3. \A i \in 1..Len(wire') : wire'[i] <= socket
        BY <1>0, <2>1, <3>2, WireGrows
    <3>4. WireOrdered' /\ Reached(accepted)'
        BY <1>0, <2>1, <3>2, WireGrows
    <3>5. QED
        BY <3>1, <3>3, <3>4
  <2>3. 1 \in 1..Len(queue) /\ Without(queue', queue, 1)
      BY <2>1, <1>0, ElementsOfQueue, TailWithout DEF QueueTyped
  <2>4. /\ QueueOrdered'
        /\ \A j \in 1..Len(queue') : \E i \in 1..Len(queue) : i # 1 /\ queue'[j] = queue[i]
      BY <2>1, <2>3, OrderWithout
  <2>5. \A j \in 1..Len(queue) : j # 1 => socket < queue[j].frame
    <3>1. HeadIs(socket)
        BY <2>1 DEF AtHead, Control
    <3>2. QED
        BY <3>1, SocketBeforeQueue
  <2>6. WireBeforeQueue'
    <3>1. ASSUME NEW i \in 1..Len(wire'), NEW j \in 1..Len(queue')
          PROVE  wire'[i] <= queue'[j].frame /\ wire'[i] < queue'[j].frame
      <4>1. PICK k \in 1..Len(queue) : k # 1 /\ queue'[j] = queue[k]
          BY <2>4
      <4>2. socket < queue'[j].frame /\ queue'[j].frame \in Nat
          BY <4>1, <2>5, <1>0
      <4>3. QED
          BY <4>2, <2>2, <1>0
    <3>2. QED
        BY <3>1 DEF WireBeforeQueue
  <2>7. driver' # "committed"
      BY <2>1 DEF Control, InDriver
  <2>8. QED
      BY <2>1, <2>2, <2>4, <2>6, <2>7 DEF Ordered, QueueOrdered, WireOrdered, WireBeforeQueue
<1>12. CASE HeadChanged
  <2>1. /\ Reached(socket) /\ wire' = Append(wire, socket) /\ socket # 0 /\ socket' = 0
        /\ UNCHANGED <<accepted, driver>> /\ queue' = <<>>
      BY <1>12 DEF HeadChanged, Fail, Ordered
  <2>2. WireOrdered' /\ Reached(accepted)'
      BY <1>0, <2>1, WireGrows
  <2>3. driver' # "committed"
      BY <2>1 DEF Control, InDriver
  <2>4. QED
      BY <1>0, <2>1, <2>2, <2>3 DEF Ordered, WireOrdered
<1>13. CASE CallbackReturns
    BY <1>13, <1>a DEF CallbackReturns
<1>14. CASE CallbackThrows
    BY <1>14, <1>b DEF CallbackThrows, Fail
<1>15. CASE WriteFails
    BY <1>15, <1>b DEF WriteFails, Fail
<1>16. CASE DeadlineExpires
    BY <1>16, <1>a DEF DeadlineExpires
<1>17. CASE DeadlineFails
    BY <1>17, <1>b DEF DeadlineFails, Fail
<1>18. CASE UNCHANGED queueVars
    BY <1>18, <1>a DEF queueVars
<1>19. QED
    BY <1>1, <1>2, <1>3, <1>4, <1>5, <1>6, <1>7, <1>8, <1>9, <1>10, <1>11, <1>12, <1>13,
       <1>14, <1>15, <1>16, <1>17, <1>18
    DEF QueueNext

--------------------------------------------------------------------------------
\* The invariant holds

LEMMA QueueInvInit == WritesInit => WritesInv
<1>1. Len(<<>>) = 0 /\ <<>> \in Seq(Entry) /\ <<>> \in Seq(Nat)
    OBVIOUS
<1>2. ASSUME WritesInit
      PROVE  QueueTyped
    BY <1>1, <1>2 DEF WritesInit, QueueTyped
<1>3. ASSUME WritesInit
      PROVE  Control /\ AtHead
    BY <1>3 DEF WritesInit, Control, InDriver, Requested, Driven, AtHead
<1>4. ASSUME WritesInit
      PROVE  Ordered
    BY <1>1, <1>4 DEF WritesInit, Ordered, Reached
<1>5. QED
    BY <1>2, <1>3, <1>4 DEF WritesInv

LEMMA QueueInvAlways == QueueSpec => []WritesInv
<1>1. WritesInv /\ [QueueNext]_queueVars => WritesInv'
    BY TypeStep, ControlStep, AtHeadStep, OrderedStep DEF WritesInv
<1>2. QED
    BY QueueInvInit, <1>1, PTL DEF QueueSpec

\* Only an enqueue makes the queue longer, and it looks at the bound.
LEMMA BoundStep ==
    ASSUME MaxQueuedFrames \in Nat, QueueTyped, Len(queue) <= MaxQueuedFrames,
           [QueueNext]_queueVars
    PROVE  Len(queue') <= MaxQueuedFrames
<1>0. queue \in Seq(Entry) /\ Len(queue) \in Nat /\ Len(<<>>) = 0
    BY ElementsOfQueue DEF QueueTyped
<1>1. CASE Enqueue
  <2>1. [frame |-> accepted + 1, committed |-> FALSE] \in Entry
      BY DEF Entry, QueueTyped
  <2>2. Len(queue') = Len(queue) + 1
      BY <1>0, <1>1, <2>1, AppendElements DEF Enqueue
  <2>3. Len(queue) < MaxQueuedFrames
      BY <1>1 DEF Enqueue, MayEnqueue
  <2>4. QED
      BY <1>0, <2>2, <2>3
<1>2. ASSUME NEW i \in DOMAIN queue, CancelFrame(i)
      PROVE  Len(queue') <= MaxQueuedFrames
  <2>1. i \in 1..Len(queue)
      BY <1>0
  <2>2. Without(queue', queue, i)
      BY <1>0, <1>2, <2>1, RemoveAtWithout DEF CancelFrame
  <2>3. QED
      BY <1>0, <2>2 DEF Without
<1>3. CASE DriverCommits
  <2>1. Len(queue') = Len(queue)
      BY <1>0, <1>3, CommitElements DEF DriverCommits
  <2>2. QED
      BY <2>1
<1>4. CASE WritesRest
  <2>1. 1 \in 1..Len(queue) /\ Without(queue', queue, 1)
      BY <1>0, <1>4, TailWithout DEF WritesRest, HeadIsWritten
  <2>2. QED
      BY <1>0, <2>1 DEF Without
<1>5. CASE queue' = <<>>
    BY <1>0, <1>5
<1>6. CASE queue' = queue
    BY <1>6
<1>7. CASE \/ StarterDrives \/ CompletionDrives \/ DriverStops \/ DriverWrites \/ DriverReturns
           \/ CallbackReturns \/ DeadlineExpires \/ (\E some \in BOOLEAN : WritesPart(some))
           \/ UNCHANGED queueVars
  <2>1. queue' = queue
      BY <1>7 DEF StarterDrives, CompletionDrives, RequestDrive, DriverStops, DriverWrites,
         DriverReturns, CallbackReturns, DeadlineExpires, WritesPart, queueVars
  <2>2. QED
      BY <1>6, <2>1
<1>8. CASE DriverThrows \/ HeadChanged \/ CallbackThrows \/ WriteFails \/ DeadlineFails
  <2>1. queue' = <<>>
      BY <1>8 DEF DriverThrows, HeadChanged, CallbackThrows, WriteFails, DeadlineFails, Fail
  <2>2. QED
      BY <1>5, <2>1
<1>9. QED
    BY <1>1, <1>2, <1>3, <1>4, <1>7, <1>8 DEF QueueNext

\* The types are kept, and whatever the threads do the queue never holds more than
\* MAX_QUEUED_FRAMES: enqueueTracked looks at its length and adds to it in one block.
THEOREM QueueTypeCorrect ==
    ASSUME MaxQueuedFrames \in Nat
    PROVE  QueueSpec => []QueueTypeOK
<1> DEFINE Bounded == WritesInv /\ Len(queue) <= MaxQueuedFrames
<1>1. WritesInit => Bounded
    BY QueueInvInit DEF WritesInit
<1>2. Bounded /\ [QueueNext]_queueVars => Bounded'
  <2>1. WritesInv /\ [QueueNext]_queueVars => WritesInv'
      BY TypeStep, ControlStep, AtHeadStep, OrderedStep DEF WritesInv
  <2>2. Bounded /\ [QueueNext]_queueVars => Len(queue') <= MaxQueuedFrames
      BY BoundStep DEF WritesInv
  <2>3. QED
      BY <2>1, <2>2
<1>3. Bounded => QueueTypeOK
    BY DEF WritesInv, QueueTypeOK
<1>4. QED
    BY <1>1, <1>2, <1>3, PTL DEF QueueSpec

\* The queue never stalls with frames in it, and no more than one write is in
\* the channel: requestDrive hands the work from one thread to another.
THEOREM WritesAlwaysHaveADriver == QueueSpec => []WritesHaveADriver
<1>1. WritesInv => WritesHaveADriver
  <2> SUFFICES ASSUME WritesInv
               PROVE  WritesHaveADriver
      OBVIOUS
  <2> USE DEF Control, InDriver, Requested, Driven
  <2>1. DOMAIN Places = 1..5
      BY DEF Places
  <2>2. /\ Places[1] <=> starter
        /\ Places[2] <=> InDriver
        /\ Places[3] <=> socket # 0
        /\ Places[4] <=> completion # "none"
        /\ Places[5] <=> Requested
      BY DEF Places
  <2>3. ASSUME NEW i \in 1..5, NEW j \in 1..5, Places[i], Places[j]
        PROVE  i = j
    <3>1. i \in {1, 2, 3, 4, 5} /\ j \in {1, 2, 3, 4, 5}
        OBVIOUS
    <3>2. /\ starter => ~InDriver /\ socket = 0 /\ completion = "none" /\ ~Requested
          /\ InDriver => socket = 0 /\ completion = "none" /\ ~Requested
          /\ socket # 0 => completion = "none" /\ ~Requested
          /\ completion # "none" => ~Requested
        BY DEF WritesInv
    <3>3. /\ Places[1] => ~Places[2] /\ ~Places[3] /\ ~Places[4] /\ ~Places[5]
          /\ Places[2] => ~Places[3] /\ ~Places[4] /\ ~Places[5]
          /\ Places[3] => ~Places[4] /\ ~Places[5]
          /\ Places[4] => ~Places[5]
        BY <2>2, <3>2
    <3>4. QED
        BY <2>3, <3>1, <3>3
  <2>4. ASSUME ~failed, queue # <<>>
        PROVE  \E i \in 1..5 : Places[i]
    <3>1. Driven
        BY <2>4 DEF WritesInv, QueueTyped
    <3>2. Places[1] \/ Places[2] \/ Places[3] \/ Places[4] \/ Places[5]
        BY <2>2, <3>1
    <3>3. QED
        BY <3>2
  <2>5. QED
      BY <2>1, <2>3, <2>4 DEF WritesHaveADriver
<1>2. QED
    BY QueueInvAlways, <1>1, PTL

\* A frame in the channel is the head of the queue, committed, until all of it
\* is written or the queue fails.
THEOREM HeadAlwaysCommitted == QueueSpec => []HeadStaysCommitted
<1>1. WritesInv => HeadStaysCommitted
    BY ElementsOfQueue DEF WritesInv, AtHead, HeadIs, HeadStaysCommitted, HeadIsWritten
<1>2. QED
    BY QueueInvAlways, <1>1, PTL

\* The peer receives frames whole, in the order they were accepted.
THEOREM WireAlwaysInOrder == QueueSpec => []WireInOrder
<1>1. WritesInv => WireInOrder
  <2> SUFFICES ASSUME WritesInv
               PROVE  WireInOrder
      OBVIOUS
  <2>1. /\ DOMAIN wire = 1..Len(wire) /\ DOMAIN queue = 1..Len(queue)
        /\ \A i \in 1..Len(wire) : wire[i] \in Nat
        /\ \A j \in 1..Len(queue) : queue[j].frame \in Nat /\ queue[j].committed \in BOOLEAN
      BY ElementsOfQueue DEF WritesInv, QueueTyped
  <2>2. \A i, j \in DOMAIN wire : i <= j => wire[i] <= wire[j]
      BY <2>1 DEF WritesInv, Ordered
  <2>3. ASSUME NEW j \in DOMAIN queue, ~queue[j].committed, NEW i \in DOMAIN wire
        PROVE  wire[i] # queue[j].frame
      BY <2>1, <2>3 DEF WritesInv, Ordered
  <2>4. QED
      BY <2>2, <2>3 DEF WireInOrder, Range
<1>2. QED
    BY QueueInvAlways, <1>1, PTL

--------------------------------------------------------------------------------
\* The promise

LEMMA PromiseStep == WritesInv /\ [QueueNext]_queueVars => [Promise!QueueNext]_Promise!queueVars
<1> SUFFICES ASSUME WritesInv, [QueueNext]_queueVars
             PROVE  [Promise!QueueNext]_Promise!queueVars
    OBVIOUS
<1> USE DEF Promise!queueVars
<1>0. ASSUME Fail
      PROVE  Promise!QueueNext
    BY <1>0 DEF Fail, Promise!Fail, Promise!QueueNext
<1>1. CASE Enqueue
  <2>1. accepted + 1 \in Nat /\ Promise!Enqueue(accepted + 1)
      BY <1>1 DEF Enqueue, MayEnqueue, Promise!Enqueue, Promise!MayEnqueue, WritesInv, QueueTyped
  <2>2. QED
      BY <2>1 DEF Promise!QueueNext
<1>2. ASSUME NEW i \in DOMAIN queue, CancelFrame(i)
      PROVE  Promise!QueueNext
  <2>1. Promise!Cancel(i)
      BY <1>2 DEF CancelFrame, Promise!Cancel, RemoveAt, Promise!RemoveAt
  <2>2. QED
      BY <2>1 DEF Promise!QueueNext
<1>3. CASE StarterDrives
    BY <1>3 DEF StarterDrives, RequestDrive
<1>4. CASE CompletionDrives
    BY <1>4 DEF CompletionDrives, RequestDrive
<1>5. CASE DriverStops
    BY <1>5 DEF DriverStops
<1>6. CASE DriverCommits
  <2>1. queue \in Seq(Entry) /\ queue # <<>> /\ Head(queue) = queue[1]
        /\ queue' = [queue EXCEPT ![1].committed = TRUE] /\ UNCHANGED failed
      BY <1>6, ElementsOfQueue DEF DriverCommits, WritesInv, QueueTyped
  <2>2. CASE Head(queue).committed
      BY <2>1, <2>2, CommitElements
  <2>3. CASE ~Head(queue).committed
    <3>1. Promise!Commit
        BY <2>1, <2>3 DEF Promise!Commit, Promise!HeadIsCommitted
    <3>2. QED
        BY <3>1 DEF Promise!QueueNext
  <2>4. QED
      BY <2>2, <2>3
<1>7. CASE DriverWrites
    BY <1>7 DEF DriverWrites
<1>8. CASE DriverThrows
    BY <1>0, <1>8 DEF DriverThrows
<1>9. CASE DriverReturns
    BY <1>9 DEF DriverReturns
<1>10. ASSUME NEW some \in BOOLEAN, WritesPart(some)
       PROVE  UNCHANGED Promise!queueVars
    BY <1>10 DEF WritesPart
<1>11. CASE WritesRest
  <2>1. HeadIs(socket)
      BY <1>11 DEF WritesRest, HeadIsWritten, WritesInv, Control, AtHead
  <2>2. Promise!HeadWritten
      BY <1>11, <2>1, ElementsOfQueue
      DEF WritesRest, HeadIs, Promise!HeadWritten, Promise!HeadIsCommitted, WritesInv
  <2>3. QED
      BY <2>2 DEF Promise!QueueNext
<1>12. CASE HeadChanged
    BY <1>0, <1>12 DEF HeadChanged
<1>13. CASE CallbackReturns
    BY <1>13 DEF CallbackReturns
<1>14. CASE CallbackThrows
    BY <1>0, <1>14 DEF CallbackThrows
<1>15. CASE WriteFails
    BY <1>0, <1>15 DEF WriteFails
<1>16. CASE DeadlineExpires
    BY <1>16 DEF DeadlineExpires
<1>17. CASE DeadlineFails
    BY <1>0, <1>17 DEF DeadlineFails
<1>18. CASE UNCHANGED queueVars
    BY <1>18 DEF queueVars
<1>19. QED
    BY <1>1, <1>2, <1>3, <1>4, <1>5, <1>6, <1>7, <1>8, <1>9, <1>10, <1>11, <1>12, <1>13,
       <1>14, <1>15, <1>16, <1>17, <1>18
    DEF QueueNext

\* Whatever its threads do, the queue keeps the promise that the connection is
\* modelled with.
THEOREM KeepsPromise == QueueSpec => ImplementsFrameQueue
<1>1. WritesInit => Promise!QueueInit
    BY DEF WritesInit, Promise!QueueInit
<1>2. QED
    BY QueueInvAlways, <1>1, PromiseStep, PTL DEF QueueSpec, ImplementsFrameQueue, Promise!QueueSpec

================================================================================
