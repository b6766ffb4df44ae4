---------------------------- MODULE LupaSessionProofs ----------------------------
(***************************************************************************)
(* Proofs about LupaSession.                                               *)
(***************************************************************************)
EXTENDS LupaSession, FiniteSetTheorems, SequenceTheorems, WellFoundedInduction, TLAPS

--------------------------------------------------------------------------------
\* Without: what remains of the write queue

\* Induction, by the least counterexample.
Before == {pair \in Nat \X Nat : pair[1] < pair[2]}

LEMMA LeastNumber ==
    ASSUME NEW T \in SUBSET Nat, T # {}
    PROVE  \E n \in T : \A m \in T : n <= m
<1>1. IsWellFoundedOn(Before, Nat)
  BY NatLessThanWellFounded, Zenon DEF OpToRel, Before
<1>2. PICK n \in T : \A m \in T : <<m, n>> \notin Before
  BY <1>1, WFMin
<1>3. ASSUME NEW m \in T PROVE n <= m
  <2>1. <<m, n>> \in Nat \X Nat /\ <<m, n>>[1] = m /\ <<m, n>>[2] = n
    OBVIOUS
  <2>2. ~(m < n)
    BY <1>2, <2>1 DEF Before
  <2> QED
    BY <2>2
<1> QED
  BY <1>3

\* kept, as Without defines it, for the first n frames.
IsKept(kept, frames, cancelled, n) ==
    kept = [i \in 0..n |->
              IF i = 0 THEN <<>>
              ELSE IF frames[i] \in cancelled THEN kept[i - 1]
              ELSE Append(kept[i - 1], frames[i])]

\* It is a definition: such a function exists.
LEMMA KeptExists ==
    ASSUME NEW frames, NEW cancelled, NEW N \in Nat
    PROVE  \E kept : IsKept(kept, frames, cancelled, N)
<1> DEFINE Lacking == {n \in Nat : ~\E kept : IsKept(kept, frames, cancelled, n)}
<1> SUFFICES ASSUME Lacking # {} PROVE FALSE
  OBVIOUS
<1>1. PICK n \in Lacking : \A m \in Lacking : n <= m
  BY LeastNumber
<1>2. n # 0
  <2> DEFINE none == [i \in 0..0 |-> <<>>]
  <2>1. IsKept(none, frames, cancelled, 0)
    BY DEF IsKept
  <2> QED
    BY <2>1
<1>3. n - 1 \in Nat /\ n \in Nat
  BY <1>2
<1>4. PICK short : IsKept(short, frames, cancelled, n - 1)
  BY <1>1, <1>3
<1> DEFINE next == IF frames[n] \in cancelled THEN short[n - 1] ELSE Append(short[n - 1], frames[n])
           long == [i \in 0..n |-> IF i = n THEN next ELSE short[i]]
<1>5. IsKept(long, frames, cancelled, n)
  <2>1. \A i \in 0..(n - 1) : long[i] = short[i]
    BY <1>3
  <2>2. long[n] = next
    BY <1>3
  <2>3. DOMAIN short = 0..(n - 1)
    BY <1>4 DEF IsKept
  <2>4. ASSUME NEW i \in 0..n
        PROVE  long[i] = IF i = 0 THEN <<>>
                         ELSE IF frames[i] \in cancelled THEN long[i - 1]
                         ELSE Append(long[i - 1], frames[i])
    <3>1. CASE i = n
      <4>1. long[i - 1] = short[i - 1]
        BY <1>2, <1>3, <2>1, <3>1
      <4> HIDE DEF long
      <4> QED
        BY <1>2, <2>2, <3>1, <4>1
    <3>2. CASE i # n
      <4>1. i \in 0..(n - 1) /\ (i # 0 => i - 1 \in 0..(n - 1))
        BY <1>3, <3>2
      <4>2. long[i] = short[i] /\ (i # 0 => long[i - 1] = short[i - 1])
        BY <2>1, <4>1
      <4>3. short[i] = IF i = 0 THEN <<>>
                       ELSE IF frames[i] \in cancelled THEN short[i - 1]
                       ELSE Append(short[i - 1], frames[i])
        BY <1>4, <4>1 DEF IsKept
      <4> HIDE DEF long
      <4> QED
        BY <4>2, <4>3
    <3> QED
      BY <3>1, <3>2
  <2>5. DOMAIN long = 0..n
    OBVIOUS
  <2>6. long = [i \in 0..n |-> long[i]]
    OBVIOUS
  <2> HIDE DEF long
  <2> QED
    BY <2>4, <2>6 DEF IsKept
<1> QED
  BY <1>1, <1>5

\* What remains of the first n frames: frames of the queue, in their order, and
\* every frame that is not cancelled.
Remains(rest, frames, cancelled, n) ==
    /\ Len(rest) <= n
    /\ \E place \in [1..Len(rest) -> 1..n] :
          /\ \A i \in 1..Len(rest) : rest[i] = frames[place[i]] /\ rest[i] \notin cancelled
          /\ \A i, j \in 1..Len(rest) : i < j => place[i] < place[j]
          /\ \A k \in 1..n :
                frames[k] \notin cancelled => \E i \in 1..Len(rest) : place[i] = k

\* One frame more, cancelled or not.
LEMMA RemainsStep ==
    ASSUME NEW S, NEW frames \in Seq(S), NEW cancelled, NEW n \in Nat, n + 1 <= Len(frames),
           NEW rest \in Seq(S), Remains(rest, frames, cancelled, n),
           NEW more, more = IF frames[n + 1] \in cancelled THEN rest ELSE Append(rest, frames[n + 1])
    PROVE  more \in Seq(S) /\ Remains(more, frames, cancelled, n + 1)
<1>1. PICK place \in [1..Len(rest) -> 1..n] :
          /\ \A i \in 1..Len(rest) : rest[i] = frames[place[i]] /\ rest[i] \notin cancelled
          /\ \A i, j \in 1..Len(rest) : i < j => place[i] < place[j]
          /\ \A k \in 1..n :
                frames[k] \notin cancelled => \E i \in 1..Len(rest) : place[i] = k
  BY DEF Remains
<1>2. Len(rest) \in Nat /\ Len(rest) <= n
  BY DEF Remains
<1>3. CASE frames[n + 1] \in cancelled
  <2>1. more = rest
    BY <1>3
  <2>2. place \in [1..Len(rest) -> 1..(n + 1)]
    BY <1>2
  <2>3. \A k \in 1..(n + 1) :
            frames[k] \notin cancelled => \E i \in 1..Len(rest) : place[i] = k
    BY <1>1, <1>3
  <2>4. Len(rest) <= n + 1
    BY <1>2
  <2>5. Remains(rest, frames, cancelled, n + 1)
    BY <1>1, <2>2, <2>3, <2>4 DEF Remains
  <2> QED
    BY <2>1, <2>5
<1>4. CASE frames[n + 1] \notin cancelled
  <2> DEFINE longer == [i \in 1..(Len(rest) + 1) |-> IF i = Len(rest) + 1 THEN n + 1 ELSE place[i]]
  <2>1. frames[n + 1] \in S
    BY <1>2
  <2>2. /\ more \in Seq(S) /\ Len(more) = Len(rest) + 1
        /\ more[Len(rest) + 1] = frames[n + 1]
        /\ \A i \in 1..Len(rest) : more[i] = rest[i]
    BY <1>4, <2>1, AppendProperties
  <2>3. longer \in [1..Len(more) -> 1..(n + 1)]
    BY <1>2, <2>2
  <2>4. longer[Len(more)] = n + 1 /\ \A i \in 1..Len(rest) : longer[i] = place[i]
    BY <1>2, <2>2
  <2>5. \A i \in 1..Len(more) : i = Len(more) \/ i \in 1..Len(rest)
    BY <1>2, <2>2
  <2> HIDE DEF longer
  <2>6. \A i \in 1..Len(more) : more[i] = frames[longer[i]] /\ more[i] \notin cancelled
    BY <1>1, <1>2, <1>4, <2>2, <2>4, <2>5
  <2>7. \A i, j \in 1..Len(more) : i < j => longer[i] < longer[j]
    <3> SUFFICES ASSUME NEW i \in 1..Len(more), NEW j \in 1..Len(more), i < j
                 PROVE  longer[i] < longer[j]
      OBVIOUS
    <3>1. i \in 1..Len(rest) /\ place[i] \in 1..n
      BY <1>2, <2>2
    <3>2. CASE j = Len(more)
      BY <1>2, <2>4, <3>1, <3>2
    <3>3. CASE j \in 1..Len(rest)
      BY <1>1, <2>4, <3>1, <3>3
    <3> QED
      BY <2>5, <3>2, <3>3
  <2>8. \A k \in 1..(n + 1) :
            frames[k] \notin cancelled => \E i \in 1..Len(more) : longer[i] = k
    <3> SUFFICES ASSUME NEW k \in 1..(n + 1), frames[k] \notin cancelled
                 PROVE  \E i \in 1..Len(more) : longer[i] = k
      OBVIOUS
    <3>1. CASE k = n + 1
      BY <1>2, <2>2, <2>4, <3>1
    <3>2. CASE k \in 1..n
      <4>1. PICK i \in 1..Len(rest) : place[i] = k
        BY <1>1, <3>2
      <4>2. i \in 1..Len(more) /\ longer[i] = k
        BY <1>2, <2>2, <2>4, <4>1
      <4> QED
        BY <4>2
    <3> QED
      BY <3>1, <3>2
  <2>9. Len(more) <= n + 1
    BY <1>2, <2>2
  <2> QED
    BY <2>2, <2>3, <2>6, <2>7, <2>8, <2>9 DEF Remains
<1> QED
  BY <1>3, <1>4

\* Without keeps the other frames, in their order.
LEMMA WithoutRemains ==
    ASSUME NEW S, NEW frames \in Seq(S), NEW cancelled
    PROVE  /\ Without(frames, cancelled) \in Seq(S)
           /\ Remains(Without(frames, cancelled), frames, cancelled, Len(frames))
<1> DEFINE N == Len(frames)
           kept == CHOOSE f : IsKept(f, frames, cancelled, N)
           Wrong == {n \in 0..N : ~(kept[n] \in Seq(S) /\ Remains(kept[n], frames, cancelled, n))}
<1>1. N \in Nat
  OBVIOUS
<1>2. Without(frames, cancelled) = kept[N]
  BY DEF Without, IsKept
<1>3. IsKept(kept, frames, cancelled, N)
  BY <1>1, KeptExists
<1> HIDE DEF kept
<1>4. kept[0] = <<>>
  BY <1>1, <1>3 DEF IsKept
<1>5. \A n \in 0..(N - 1) :
         kept[n + 1] = IF frames[n + 1] \in cancelled THEN kept[n] ELSE Append(kept[n], frames[n + 1])
  <2> SUFFICES ASSUME NEW n \in 0..(N - 1)
               PROVE kept[n + 1] = IF frames[n + 1] \in cancelled THEN kept[n] ELSE Append(kept[n], frames[n + 1])
    OBVIOUS
  <2>1. n + 1 \in 0..N /\ n + 1 # 0 /\ (n + 1) - 1 = n
    BY <1>1
  <2> HIDE DEF N
  <2> QED
    BY <1>3, <2>1 DEF IsKept
<1>6. Wrong = {}
  <2> SUFFICES ASSUME Wrong # {} PROVE FALSE
    OBVIOUS
  <2>1. PICK n \in Wrong : \A m \in Wrong : n <= m
    <3>1. Wrong \in SUBSET Nat
      BY <1>1
    <3> HIDE DEF Wrong
    <3> QED
      BY <3>1, LeastNumber
  <2>2. n \in 0..N /\ ~(kept[n] \in Seq(S) /\ Remains(kept[n], frames, cancelled, n))
    OBVIOUS
  <2>3. n # 0
    <3>1. <<>> \in Seq(S) /\ Len(<<>>) = 0
      BY EmptySeq
    <3>2. Remains(<<>>, frames, cancelled, 0)
      <4> DEFINE nowhere == [i \in 1..Len(<<>>) |-> 0]
      <4>1. ~\E i : i \in 1..Len(<<>>)
        BY <3>1
      <4>2. ~\E k : k \in 1..0
        OBVIOUS
      <4>3. nowhere \in [1..Len(<<>>) -> 1..0]
        BY <4>1
      <4>4. Len(<<>>) <= 0
        BY <3>1
      <4> HIDE DEF nowhere
      <4> QED
        BY <4>1, <4>2, <4>3, <4>4, Zenon DEF Remains
    <3> QED
      BY <1>4, <2>2, <3>1, <3>2
  <2>4. n - 1 \in 0..(N - 1) /\ n - 1 \in Nat /\ (n - 1) + 1 = n /\ n <= Len(frames)
    BY <1>1, <2>2, <2>3
  <2>5. n - 1 \notin Wrong
    BY <2>1, <2>2
  <2>6. kept[n - 1] \in Seq(S) /\ Remains(kept[n - 1], frames, cancelled, n - 1)
    BY <1>1, <2>4, <2>5
  <2>7. kept[n] = IF frames[n] \in cancelled THEN kept[n - 1] ELSE Append(kept[n - 1], frames[n])
    BY <1>5, <2>4
  <2> HIDE DEF Wrong, N
  <2>8. kept[n] \in Seq(S) /\ Remains(kept[n], frames, cancelled, n)
    <3> DEFINE m == n - 1
    <3>1. m \in Nat /\ m + 1 <= Len(frames) /\ m + 1 = n
      BY <2>4
    <3>2. kept[n] = IF frames[m + 1] \in cancelled THEN kept[m] ELSE Append(kept[m], frames[m + 1])
      BY <2>7, <3>1
    <3>3. kept[m] \in Seq(S) /\ Remains(kept[m], frames, cancelled, m)
      BY <2>6
    <3> HIDE DEF m
    <3>4. kept[n] \in Seq(S) /\ Remains(kept[n], frames, cancelled, m + 1)
      BY <3>1, <3>2, <3>3, RemainsStep
    <3> QED
      BY <3>1, <3>4
  <2> QED
    BY <2>2, <2>8
<1>7. N \in 0..N
  BY <1>1
<1> QED
  BY <1>2, <1>6, <1>7

--------------------------------------------------------------------------------
\* Types

SomeImage == Images \cup {NoImage}

\* A plan that is active; otherwise it is NoPlan.
ActivePlan ==
    [generation : Nat \ {0}, epoch : Nat, thumbnail : BOOLEAN, tiles : Nat, next : Nat,
     planCommitted : BOOLEAN, doneQueued : BOOLEAN, busy : BOOLEAN, sentTiles : Nat,
     pendingTile : Nat, readWait : BOOLEAN]

Delivery ==
    [epoch : Nat, planGeneration : Nat, reservedBytes : Nat, image : SomeImage,
     openingThumbnail : BOOLEAN,
     state : {"RESERVED_QUEUED", "COMMITTED", "WRITTEN_AWAITING_RELEASE"},
     selectiveRetries : Nat, retryInProgress : BOOLEAN, releaseTimer : BOOLEAN]

\* What the bytes of a ledger are counted in is finite.
Ledgers ==
    {ledger \in UNION {[ids -> Delivery] : ids \in SUBSET Nat} :
        IsFiniteSet(DOMAIN ledger) /\ IsFiniteSet(Bytes(ledger))}

PlainKinds == {"WELCOME", "ERROR", "MANIFEST", "RETRY"}

PlanKinds == {"PLAN", "TILE", "DONE"}

\* Frames outside a plan have generation 0.
Frame ==
    [kind : PlainKinds, epoch : Nat, generation : {0}, id : Nat, count : Nat, image : SomeImage]
    \cup [kind : PlanKinds, epoch : Nat, generation : Nat \ {0}, id : Nat, count : Nat,
          image : SomeImage]

Task ==
    [kind : {"HELLO"}, ok : BOOLEAN]
    \cup [kind : {"OPEN", "VIEW"}, epoch : Nat, image : SomeImage]
    \cup [kind : {"OPENED"}, epoch : Nat, image : SomeImage, ok : BOOLEAN]
    \cup [kind : {"RELEASE", "TILE_COMMITTED", "RETRY_WRITTEN", "RELEASE_TIMEOUT"}, id : Nat]
    \cup [kind : {"ACK_STATE"}, epoch : Nat, received : SUBSET Nat, missing : Nat]
    \cup [kind : {"PLAN_COMMITTED", "DONE_COMMITTED", "PERMIT"}, generation : Nat \ {0}]
    \cup [kind : {"TILE_WRITTEN"}, generation : Nat \ {0}, id : Nat]
    \cup [kind : {"TILE_READ"}, generation : Nat \ {0}, bytes : Nat]
    \cup [kind : {"RETRY_READ"}, id : Nat, ok : BOOLEAN]
    \cup [kind : {"HELLO_TIMEOUT", "CLEANUP"}]

Read ==
    [kind : {"TILE"}, generation : Nat \ {0}, bytes : Nat, complete : BOOLEAN]
    \cup [kind : {"RETRY"}, id : Nat]

States == {"ESPERA_HELLO", "LISTA", "IMAGEN_ABIERTA", "CERRADA"}

SessionType ==
    [state : States, closed : BOOLEAN, helloTimer : BOOLEAN, currentEpoch : Nat,
     opened : SomeImage, thumbnailCommittedForOpen : BOOLEAN, planGeneration : Nat,
     negotiatedWindowBytes : Nat, freeWindowBytes : Int, activePlan : ActivePlan \cup {NoPlan},
     deliveries : Ledgers, nextDeliveryId : Nat, tasks : Seq(Task), frames : Seq(Frame),
     writing : BOOLEAN, turn : {"none", "queued", "held"}, reads : SUBSET Read]

LEMMA LedgerElim ==
    ASSUME NEW ledger \in Ledgers
    PROVE  /\ DOMAIN ledger \in SUBSET Nat
           /\ ledger \in [DOMAIN ledger -> Delivery]
           /\ IsFiniteSet(DOMAIN ledger)
           /\ IsFiniteSet(Bytes(ledger))
           /\ ReservedBytes(ledger) \in Nat
<1>1. IsFiniteSet(DOMAIN ledger) /\ IsFiniteSet(Bytes(ledger))
  BY DEF Ledgers
<1>2. DOMAIN ledger \in SUBSET Nat /\ ledger \in [DOMAIN ledger -> Delivery]
  BY DEF Ledgers
<1>3. ReservedBytes(ledger) \in Nat
  BY <1>1, FS_CardinalityType DEF ReservedBytes
<1> QED
  BY <1>1, <1>2, <1>3

LEMMA LedgerIntro ==
    ASSUME NEW ids \in SUBSET Nat, NEW ledger \in [ids -> Delivery],
           IsFiniteSet(ids), IsFiniteSet(Bytes(ledger))
    PROVE  ledger \in Ledgers
BY DEF Ledgers

\* No delivery.
LEMMA EmptyLedger == <<>> \in Ledgers /\ ReservedBytes(<<>>) = 0 /\ DOMAIN <<>> = {}
<1>1. DOMAIN <<>> = {} /\ <<>> \in [{} -> Delivery]
  OBVIOUS
<1>2. Bytes(<<>>) = {}
  BY <1>1 DEF Bytes
<1> QED
  BY <1>1, <1>2, FS_EmptySet, LedgerIntro DEF ReservedBytes

\* Some deliveries of a ledger: they are reserved for no more than all of it.
LEMMA LedgerPart ==
    ASSUME NEW ledger \in Ledgers, NEW ids \in SUBSET (DOMAIN ledger)
    PROVE  Restrict(ledger, ids) \in Ledgers /\ DOMAIN Restrict(ledger, ids) = ids
<1>1. /\ Restrict(ledger, ids) \in [ids -> Delivery] /\ ids \in SUBSET Nat
      /\ DOMAIN Restrict(ledger, ids) = ids
  BY LedgerElim DEF Restrict
<1>2. IsFiniteSet(ids)
  BY LedgerElim, FS_Subset
<1>3. Bytes(Restrict(ledger, ids)) \subseteq Bytes(ledger)
  BY <1>1 DEF Bytes, Restrict
<1>4. IsFiniteSet(Bytes(Restrict(ledger, ids)))
  BY <1>3, LedgerElim, FS_Subset
<1> QED
  BY <1>1, <1>2, <1>4, LedgerIntro

\* The deliveries that leave and those that stay share the bytes.
LEMMA LedgerSplit ==
    ASSUME NEW ledger \in Ledgers, NEW ids \in SUBSET (DOMAIN ledger)
    PROVE  ReservedBytes(ledger) =
              ReservedBytes(Restrict(ledger, ids))
              + ReservedBytes(Restrict(ledger, DOMAIN ledger \ ids))
<1> DEFINE gone == Bytes(Restrict(ledger, ids))
           left == Bytes(Restrict(ledger, DOMAIN ledger \ ids))
<1>1. /\ DOMAIN Restrict(ledger, ids) = ids
      /\ DOMAIN Restrict(ledger, DOMAIN ledger \ ids) = DOMAIN ledger \ ids
  BY LedgerPart
<1>2. Bytes(ledger) = gone \cup left
  BY <1>1 DEF Bytes, Restrict
<1>3. gone \cap left = {}
  BY <1>1 DEF Bytes, Restrict
<1>4. IsFiniteSet(gone) /\ IsFiniteSet(left)
  BY LedgerPart, LedgerElim
<1> HIDE DEF gone, left
<1>5. Cardinality(gone \cup left) = Cardinality(gone) + Cardinality(left) - Cardinality({})
  BY <1>3, <1>4, FS_Union
<1>6. Cardinality({}) = 0 /\ Cardinality(gone) \in Nat /\ Cardinality(left) \in Nat
  BY <1>4, FS_EmptySet, FS_CardinalityType
<1>7. Cardinality(gone \cup left) = Cardinality(gone) + Cardinality(left)
  BY <1>5, <1>6
<1> QED
  BY <1>2, <1>7 DEF ReservedBytes, gone, left

\* A delivery more.
LEMMA LedgerGrows ==
    ASSUME NEW ledger \in Ledgers, NEW id \in Nat, id \notin DOMAIN ledger,
           NEW delivery \in Delivery,
           NEW larger, larger = [i \in DOMAIN ledger \cup {id} |->
                                    IF i = id THEN delivery ELSE ledger[i]]
    PROVE  /\ larger \in Ledgers
           /\ ReservedBytes(larger) = ReservedBytes(ledger) + delivery.reservedBytes
<1> DEFINE own == {id} \X (1..delivery.reservedBytes)
           others == Bytes(ledger)
<1>1. delivery.reservedBytes \in Nat
  BY DEF Delivery
<1>2. /\ DOMAIN ledger \in SUBSET Nat /\ ledger \in [DOMAIN ledger -> Delivery]
      /\ IsFiniteSet(DOMAIN ledger) /\ IsFiniteSet(others)
  BY LedgerElim
<1>3. larger \in [DOMAIN ledger \cup {id} -> Delivery] /\ DOMAIN ledger \cup {id} \in SUBSET Nat
  BY <1>2
<1>4. Bytes(larger) = others \cup own
  BY <1>3 DEF Bytes
<1>5. others \cap own = {}
  BY DEF Bytes
<1>6. IsFiniteSet(own) /\ Cardinality(own) = delivery.reservedBytes
  <2>1. PICK size \in Nat : size = delivery.reservedBytes
    BY <1>1
  <2> DEFINE numbers == 1..size
  <2>2. IsFiniteSet({id}) /\ Cardinality({id}) = 1
    BY FS_Singleton
  <2>3. IsFiniteSet(numbers) /\ Cardinality(numbers) = IF 1 > size THEN 0 ELSE size - 1 + 1
    BY FS_Interval
  <2>4. Cardinality(numbers) = size
    BY <2>3
  <2>5. own = {id} \X numbers
    BY <2>1
  <2> HIDE DEF numbers, own
  <2>6. /\ IsFiniteSet({id} \X numbers)
        /\ Cardinality({id} \X numbers) = Cardinality({id}) * Cardinality(numbers)
    BY <2>2, <2>3, FS_Product
  <2> QED
    BY <2>1, <2>2, <2>4, <2>5, <2>6
<1>7. IsFiniteSet(DOMAIN ledger \cup {id})
  BY <1>2, FS_AddElement
<1> HIDE DEF own, others
<1>8. /\ IsFiniteSet(others \cup own)
      /\ Cardinality(others \cup own) = Cardinality(others) + Cardinality(own) - Cardinality({})
  BY <1>2, <1>5, <1>6, FS_Union
<1>9. Cardinality({}) = 0 /\ Cardinality(others) \in Nat
  BY <1>2, FS_EmptySet, FS_CardinalityType
<1>10. Cardinality(others \cup own) = Cardinality(others) + delivery.reservedBytes
  <2>1. Cardinality(others \cup own) = Cardinality(others) + delivery.reservedBytes - 0
    BY <1>6, <1>8, <1>9
  <2> QED
    BY <1>1, <1>9, <2>1
<1>11. larger \in Ledgers
  BY <1>3, <1>4, <1>7, <1>8, LedgerIntro
<1>12. Cardinality(Bytes(larger)) = Cardinality(others) + delivery.reservedBytes
  BY <1>4, <1>10
<1> QED
  BY <1>11, <1>12 DEF ReservedBytes, others

\* Deliveries that change, but not in size.
LEMMA LedgerSameBytes ==
    ASSUME NEW ledger \in Ledgers, NEW changed \in [DOMAIN ledger -> Delivery],
           \A id \in DOMAIN ledger : changed[id].reservedBytes = ledger[id].reservedBytes
    PROVE  changed \in Ledgers /\ ReservedBytes(changed) = ReservedBytes(ledger)
<1>1. DOMAIN changed = DOMAIN ledger
  OBVIOUS
<1>2. Bytes(changed) = Bytes(ledger)
  BY <1>1 DEF Bytes
<1> QED
  BY <1>2, LedgerElim, LedgerIntro DEF ReservedBytes

--------------------------------------------------------------------------------
\* What each operator on the session leaves alone

SamePlan(s, t) == t.activePlan = s.activePlan /\ t.planGeneration = s.planGeneration

SameTurn(s, t) == t.turn = s.turn /\ t.reads = s.reads

SameCredit(s, t) ==
    /\ t.deliveries = s.deliveries
    /\ t.nextDeliveryId = s.nextDeliveryId
    /\ t.freeWindowBytes = s.freeWindowBytes
    /\ t.negotiatedWindowBytes = s.negotiatedWindowBytes

SameView(s, t) ==
    /\ t.currentEpoch = s.currentEpoch
    /\ t.opened = s.opened
    /\ t.thumbnailCommittedForOpen = s.thumbnailCommittedForOpen

SameFrames(s, t) == t.frames = s.frames /\ t.writing = s.writing

\* The session is as it was, or closed.
Ends(s, t) == t.closed \/ (t.closed = s.closed /\ t.state = s.state)

\* It may only have been closed.
OnlyEnds(s, t) ==
    /\ SamePlan(s, t) /\ SameTurn(s, t) /\ SameCredit(s, t) /\ SameView(s, t)
    /\ SameFrames(s, t) /\ t.tasks = s.tasks /\ Ends(s, t)

LEMMA ClosingEffect ==
    ASSUME NEW s \in SessionType
    PROVE  Closing(s) \in SessionType /\ OnlyEnds(s, Closing(s)) /\ Closing(s).closed
BY DEF SessionType, States, Closing, OnlyEnds, SamePlan, SameTurn, SameCredit, SameView,
       SameFrames, Ends

LEMMA EnqueueEffect ==
    ASSUME NEW s \in SessionType, NEW t \in Task, NEW after, after = Enqueue(s, t)
    PROVE  /\ after \in SessionType
           /\ SamePlan(s, after) /\ SameTurn(s, after) /\ SameCredit(s, after)
           /\ SameView(s, after) /\ SameFrames(s, after) /\ Ends(s, after)
           /\ \/ after.tasks = Append(s.tasks, t) /\ Len(s.tasks) < TaskCapacity
              \/ after.tasks = s.tasks /\ after.closed
<1>1. CASE Len(s.tasks) < TaskCapacity
  <2>1. Append(s.tasks, t) \in Seq(Task)
    BY DEF SessionType
  <2> QED
    BY <1>1, <2>1 DEF SessionType, Enqueue, SamePlan, SameTurn, SameCredit, SameView, SameFrames, Ends
<1>2. CASE ~(Len(s.tasks) < TaskCapacity)
  <2>1. after = Closing(s)
    BY <1>2 DEF Enqueue
  <2> QED
    BY <2>1, ClosingEffect DEF OnlyEnds
<1> QED
  BY <1>1, <1>2

LEMMA SubmitEffect ==
    ASSUME NEW s \in SessionType, NEW t \in Task, NEW after, after = Submit(s, t)
    PROVE  /\ after \in SessionType
           /\ SamePlan(s, after) /\ SameTurn(s, after) /\ SameCredit(s, after)
           /\ SameView(s, after) /\ SameFrames(s, after) /\ Ends(s, after)
           /\ \/ after.tasks = Append(s.tasks, t) /\ Len(s.tasks) < TaskCapacity
              \/ after.tasks = s.tasks /\ after.closed
<1>1. CASE s.closed
  BY <1>1 DEF Submit, SamePlan, SameTurn, SameCredit, SameView, SameFrames, Ends
<1>2. CASE ~s.closed
  BY <1>2, EnqueueEffect DEF Submit
<1> QED
  BY <1>1, <1>2

\* Nothing but the frames, or a close.
OnlyFrames(s, t) ==
    /\ SamePlan(s, t) /\ SameTurn(s, t) /\ SameCredit(s, t) /\ SameView(s, t)
    /\ t.tasks = s.tasks /\ t.writing = s.writing /\ Ends(s, t)

LEMMA QueuedEffect ==
    ASSUME NEW s \in SessionType, NEW frame \in Frame, NEW after, after = Queued(s, frame)
    PROVE  /\ after \in SessionType
           /\ OnlyFrames(s, after)
           /\ after.frames = Append(s.frames, frame)
           /\ after.closed = s.closed
<1>1. Append(s.frames, frame) \in Seq(Frame)
  BY DEF SessionType
<1> QED
  BY <1>1 DEF SessionType, Queued, OnlyFrames, SamePlan, SameTurn, SameCredit, SameView, Ends

LEMMA SendEffect ==
    ASSUME NEW s \in SessionType, NEW frame \in Frame, NEW after, after = Send(s, frame)
    PROVE  /\ after \in SessionType
           /\ OnlyFrames(s, after)
           /\ \/ /\ after.frames = Append(s.frames, frame)
                 /\ ~s.closed /\ ~after.closed /\ Len(s.frames) < FrameCapacity
              \/ after.frames = s.frames /\ after.closed
<1>1. CASE s.closed
  BY <1>1 DEF Send, OnlyFrames, SamePlan, SameTurn, SameCredit, SameView, Ends
<1>2. CASE ~s.closed /\ Refuses(s)
  <2>1. after = Closing(s)
    BY <1>2 DEF Send
  <2> QED
    BY <2>1, ClosingEffect DEF OnlyEnds, OnlyFrames, SameFrames
<1>3. CASE ~s.closed /\ ~Refuses(s)
  <2>1. Len(s.frames) < FrameCapacity
    BY <1>3, ConstantsAssumption DEF Refuses, SessionType
  <2>2. after = Queued(s, frame)
    BY <1>3 DEF Send
  <2> QED
    BY <1>3, <2>1, <2>2, QueuedEffect
<1> QED
  BY <1>1, <1>2, <1>3

LEMMA ControlIsFrame ==
    ASSUME NEW kind \in PlainKinds, NEW epoch \in Nat, NEW image \in SomeImage
    PROVE  /\ Control(kind, epoch, image) \in Frame
           /\ Control(kind, epoch, image).kind = kind
           /\ Control(kind, epoch, image).epoch = epoch
           /\ Control(kind, epoch, image).generation = 0
           /\ Control(kind, epoch, image).id = 0
           /\ Control(kind, epoch, image).count = 0
BY DEF Control, Frame

\* sendError: an ERROR more in the queue, or a close.
LEMMA SendErrorEffect ==
    ASSUME NEW s \in SessionType, NEW epoch \in Nat, NEW after, after = SendError(s, epoch)
    PROVE  /\ after \in SessionType
           /\ OnlyFrames(s, after)
           /\ \/ /\ after.frames = Append(s.frames, Control("ERROR", epoch, NoImage))
                 /\ ~s.closed /\ ~after.closed /\ Len(s.frames) < FrameCapacity
              \/ after.frames = s.frames /\ after.closed
           /\ Control("ERROR", epoch, NoImage) \in Frame
<1>1. Control("ERROR", epoch, NoImage) \in Frame
  BY ControlIsFrame DEF PlainKinds, SomeImage
<1> QED
  BY <1>1, SendEffect DEF SendError

LEMMA EnforceEffect ==
    ASSUME NEW s \in SessionType
    PROVE  /\ EnforceCreditInvariant(s) \in SessionType
           /\ OnlyEnds(s, EnforceCreditInvariant(s))
           /\ CreditHolds(s) => EnforceCreditInvariant(s) = s
<1>1. CASE CreditHolds(s)
  BY <1>1 DEF EnforceCreditInvariant, OnlyEnds, SamePlan, SameTurn, SameCredit, SameView,
              SameFrames, Ends
<1>2. CASE ~CreditHolds(s)
  BY <1>2, ClosingEffect DEF EnforceCreditInvariant
<1> QED
  BY <1>1, <1>2

--------------------------------------------------------------------------------
\* Credits and the end of a plan

\* Free and reserved bytes together.
Balance(s) == s.freeWindowBytes + ReservedBytes(s.deliveries)

\* The deliveries of ids leave the ledger, the others stay as they are.
Loses(ledger, smaller, ids) ==
    /\ DOMAIN smaller = DOMAIN ledger \ ids
    /\ \A id \in DOMAIN smaller : smaller[id] = ledger[id]

\* Nothing but the ledger and the free bytes, or a close.
OnlyCredit(s, t) ==
    /\ SamePlan(s, t) /\ SameTurn(s, t) /\ SameView(s, t) /\ SameFrames(s, t)
    /\ t.tasks = s.tasks /\ Ends(s, t)
    /\ t.nextDeliveryId = s.nextDeliveryId
    /\ t.negotiatedWindowBytes = s.negotiatedWindowBytes

LEMMA RefundEffect ==
    ASSUME NEW s \in SessionType, NEW ids \in SUBSET (DOMAIN s.deliveries),
           NEW after, after = Refund(s, ids)
    PROVE  /\ after \in SessionType
           /\ OnlyCredit(s, after)
           /\ after.closed = s.closed
           /\ Loses(s.deliveries, after.deliveries, ids)
           /\ Balance(after) = Balance(s)
           /\ after.freeWindowBytes >= s.freeWindowBytes
           /\ after.freeWindowBytes \in Int
<1> DEFINE gone == Restrict(s.deliveries, ids)
           left == Restrict(s.deliveries, DOMAIN s.deliveries \ ids)
<1>1. s.deliveries \in Ledgers /\ s.freeWindowBytes \in Int
  BY DEF SessionType
<1>2. /\ gone \in Ledgers /\ left \in Ledgers
      /\ DOMAIN left = DOMAIN s.deliveries \ ids
      /\ ReservedBytes(s.deliveries) = ReservedBytes(gone) + ReservedBytes(left)
  BY <1>1, LedgerPart, LedgerSplit
<1>3. /\ ReservedBytes(gone) \in Nat /\ ReservedBytes(left) \in Nat
  BY <1>2, LedgerElim
<1>4. Loses(s.deliveries, left, ids)
  BY <1>2 DEF Loses, Restrict
<1>5. /\ after.deliveries = left
      /\ after.freeWindowBytes = s.freeWindowBytes + ReservedBytes(gone)
      /\ OnlyCredit(s, after) /\ after.closed = s.closed
  BY DEF SessionType, Refund, OnlyCredit, SamePlan, SameTurn, SameView, SameFrames, Ends
<1> HIDE DEF gone, left
<1>6. s.freeWindowBytes + ReservedBytes(gone) \in Int
  BY <1>1, <1>3
<1>7. after \in SessionType
  <2>1. after = [s EXCEPT !.deliveries = left, !.freeWindowBytes = s.freeWindowBytes + ReservedBytes(gone)]
    BY DEF Refund, gone, left, SessionType
  <2> QED
    BY <1>2, <1>6, <2>1 DEF SessionType
<1> QED
  BY <1>1, <1>2, <1>3, <1>4, <1>5, <1>6, <1>7 DEF Balance

LEMMA AcknowledgeEffect ==
    ASSUME NEW s \in SessionType, NEW ids, NEW after, after = Acknowledge(s, ids)
    PROVE  /\ after \in SessionType
           /\ OnlyCredit(s, after)
           /\ Loses(s.deliveries, after.deliveries, ids)
           /\ Balance(after) = Balance(s)
           /\ CreditHolds(s) => CreditHolds(after) /\ after.closed = s.closed
<1> DEFINE refunded == Refund(s, ids \cap DOMAIN s.deliveries)
<1>1. /\ refunded \in SessionType
      /\ OnlyCredit(s, refunded)
      /\ refunded.closed = s.closed
      /\ Loses(s.deliveries, refunded.deliveries, ids \cap DOMAIN s.deliveries)
      /\ Balance(refunded) = Balance(s)
      /\ refunded.freeWindowBytes >= s.freeWindowBytes
      /\ refunded.freeWindowBytes \in Int
  BY RefundEffect
<1>2. Loses(s.deliveries, refunded.deliveries, ids)
  BY <1>1 DEF Loses
<1>3. CreditHolds(s) => CreditHolds(refunded)
  BY <1>1 DEF CreditHolds, Balance, OnlyCredit, SessionType
<1>4. after = EnforceCreditInvariant(refunded)
  BY DEF Acknowledge
<1> HIDE DEF refunded
<1>5. after \in SessionType /\ OnlyEnds(refunded, after) /\ (CreditHolds(refunded) => after = refunded)
  BY <1>1, <1>4, EnforceEffect
<1>6. OnlyCredit(s, after)
  BY <1>1, <1>5 DEF OnlyCredit, OnlyEnds, SamePlan, SameTurn, SameView, SameFrames, SameCredit, Ends
<1> QED
  BY <1>1, <1>2, <1>3, <1>5, <1>6 DEF OnlyEnds, SameCredit, Balance

\* The tiles among the frames that the end of the active plan cancels.
CancelledTiles(s) == {f.id : f \in {t \in Uncommitted(s, s.activePlan.generation) : t.kind = "TILE"}}

TurnWithout(s) == IF s.activePlan.readWait /\ s.turn = "queued" THEN "none" ELSE s.turn

LEMMA WithdrawEffect ==
    ASSUME NEW s \in SessionType, NEW after, after = Withdraw(s)
    PROVE  /\ after \in SessionType
           /\ after.activePlan = NoPlan /\ after.planGeneration = s.planGeneration
           /\ after.turn = TurnWithout(s) /\ after.reads = s.reads
           /\ after.frames = Without(s.frames, Uncommitted(s, s.activePlan.generation))
           /\ after.writing = s.writing
           /\ after.tasks = s.tasks /\ SameView(s, after) /\ Ends(s, after)
           /\ after.nextDeliveryId = s.nextDeliveryId
           /\ after.negotiatedWindowBytes = s.negotiatedWindowBytes
           /\ Loses(s.deliveries, after.deliveries, CancelledTiles(s))
           /\ Balance(after) = Balance(s)
           /\ CreditHolds(s) => CreditHolds(after) /\ after.closed = s.closed
<1> DEFINE cancelled == Uncommitted(s, s.activePlan.generation)
           rest == Without(s.frames, cancelled)
           kept == [s EXCEPT !.frames = rest, !.turn = TurnWithout(s), !.activePlan = NoPlan]
           ids == CancelledTiles(s)
           refunded == Refund(kept, ids)
<1>1. rest \in Seq(Frame)
  BY WithoutRemains DEF SessionType
<1>2. NoPlan \in ActivePlan \cup {NoPlan}
  OBVIOUS
<1>3. TurnWithout(s) \in {"none", "queued", "held"}
  BY DEF TurnWithout, SessionType
<1> HIDE DEF rest
<1>4. /\ kept \in SessionType
      /\ kept.activePlan = NoPlan /\ kept.planGeneration = s.planGeneration
      /\ kept.turn = TurnWithout(s) /\ kept.reads = s.reads
      /\ kept.frames = rest /\ kept.writing = s.writing
      /\ kept.tasks = s.tasks /\ SameView(s, kept) /\ kept.closed = s.closed /\ kept.state = s.state
      /\ SameCredit(s, kept)
  BY <1>1, <1>2, <1>3 DEF SessionType, SameView, SameCredit
<1>5. after = EnforceCreditInvariant(refunded)
  BY DEF Withdraw, rest, CancelledTiles, TurnWithout, SessionType
<1> HIDE DEF kept, refunded
<1>6. ids \in SUBSET (DOMAIN kept.deliveries)
  BY <1>4 DEF SameCredit, CancelledTiles, Uncommitted
<1> HIDE DEF ids
<1>7. /\ refunded \in SessionType
      /\ OnlyCredit(kept, refunded)
      /\ refunded.closed = kept.closed
      /\ Loses(kept.deliveries, refunded.deliveries, ids)
      /\ Balance(refunded) = Balance(kept)
      /\ refunded.freeWindowBytes >= kept.freeWindowBytes
      /\ refunded.freeWindowBytes \in Int
  BY <1>4, <1>6, RefundEffect DEF refunded
<1>8. CreditHolds(s) => CreditHolds(refunded)
  BY <1>4, <1>7 DEF CreditHolds, Balance, OnlyCredit, SessionType, SameCredit
<1>9. after \in SessionType /\ OnlyEnds(refunded, after) /\ (CreditHolds(refunded) => after = refunded)
  BY <1>5, <1>7, EnforceEffect
<1>10. Balance(after) = Balance(s)
  BY <1>4, <1>7, <1>9 DEF Balance, OnlyEnds, SameCredit
<1>11. Loses(s.deliveries, after.deliveries, CancelledTiles(s))
  BY <1>4, <1>7, <1>9 DEF OnlyEnds, SameCredit, ids
<1>12. CreditHolds(s) => CreditHolds(after) /\ after.closed = s.closed
  BY <1>4, <1>7, <1>8, <1>9
<1>13. /\ after.activePlan = NoPlan /\ after.planGeneration = s.planGeneration
       /\ after.turn = TurnWithout(s) /\ after.reads = s.reads
       /\ after.frames = rest /\ after.writing = s.writing /\ after.tasks = s.tasks
  BY <1>4, <1>7, <1>9 DEF OnlyEnds, OnlyCredit, SamePlan, SameTurn, SameFrames
<1>14. /\ SameView(s, after) /\ Ends(s, after)
       /\ after.nextDeliveryId = s.nextDeliveryId
       /\ after.negotiatedWindowBytes = s.negotiatedWindowBytes
  BY <1>4, <1>7, <1>9 DEF OnlyEnds, OnlyCredit, SameView, SameCredit, Ends
<1> QED
  BY <1>9, <1>10, <1>11, <1>12, <1>13, <1>14 DEF rest

--------------------------------------------------------------------------------
\* What the end of a plan does

\* The frames it cancels.
Withdrawn(s) ==
    IF s.activePlan = NoPlan THEN {} ELSE Uncommitted(s, s.activePlan.generation)

WithdrawnTiles(s) == {f.id : f \in {t \in Withdrawn(s) : t.kind = "TILE"}}

LEMMA NothingCancelled ==
    ASSUME NEW frames \in Seq(Frame)
    PROVE  Remains(frames, frames, {}, Len(frames))
<1> DEFINE place == [i \in 1..Len(frames) |-> i]
<1>1. place \in [1..Len(frames) -> 1..Len(frames)] /\ Len(frames) \in Nat
  OBVIOUS
<1>2. \A i \in 1..Len(frames) : place[i] = i
  OBVIOUS
<1> HIDE DEF place
<1> QED
  BY <1>1, <1>2 DEF Remains

\* What the end of a plan does, besides the frames.
PlanEnds(s, after) ==
    /\ after.activePlan = NoPlan /\ after.planGeneration = s.planGeneration + 1
    /\ after.turn = TurnWithout(s) /\ after.reads = s.reads
    /\ after.writing = s.writing /\ after.tasks = s.tasks
    /\ SameView(s, after) /\ Ends(s, after)
    /\ after.nextDeliveryId = s.nextDeliveryId
    /\ after.negotiatedWindowBytes = s.negotiatedWindowBytes
    /\ Loses(s.deliveries, after.deliveries, WithdrawnTiles(s))
    /\ Balance(after) = Balance(s)
    /\ CreditHolds(s) => CreditHolds(after)

LEMMA InvalidatePlanEffect ==
    ASSUME NEW s \in SessionType, NEW after, after = InvalidatePlan(s)
    PROVE  /\ after \in SessionType
           /\ PlanEnds(s, after)
           /\ Remains(after.frames, s.frames, Withdrawn(s), Len(s.frames))
           /\ CreditHolds(s) => after.closed = s.closed
<1> DEFINE t == IF s.activePlan = NoPlan THEN s ELSE Withdraw(s)
<1>1. /\ t \in SessionType
      /\ t.activePlan = NoPlan /\ t.planGeneration = s.planGeneration
      /\ t.turn = TurnWithout(s) /\ t.reads = s.reads
      /\ Remains(t.frames, s.frames, Withdrawn(s), Len(s.frames))
      /\ t.writing = s.writing
      /\ t.tasks = s.tasks /\ SameView(s, t) /\ Ends(s, t)
      /\ t.nextDeliveryId = s.nextDeliveryId
      /\ t.negotiatedWindowBytes = s.negotiatedWindowBytes
      /\ Loses(s.deliveries, t.deliveries, WithdrawnTiles(s))
      /\ Balance(t) = Balance(s)
      /\ CreditHolds(s) => CreditHolds(t) /\ t.closed = s.closed
  <2>1. CASE s.activePlan = NoPlan
    <3>1. Remains(s.frames, s.frames, {}, Len(s.frames))
      BY NothingCancelled DEF SessionType
    <3>2. TurnWithout(s) = s.turn
      BY <2>1 DEF TurnWithout, NoPlan
    <3>3. WithdrawnTiles(s) = {} /\ Withdrawn(s) = {}
      BY <2>1 DEF WithdrawnTiles, Withdrawn
    <3>4. Loses(s.deliveries, s.deliveries, {})
      BY DEF Loses
    <3> QED
      BY <2>1, <3>1, <3>2, <3>3, <3>4 DEF SameView, Ends
  <2>2. CASE s.activePlan # NoPlan
    <3>1. Withdrawn(s) = Uncommitted(s, s.activePlan.generation)
      BY <2>2 DEF Withdrawn
    <3>2. WithdrawnTiles(s) = CancelledTiles(s)
      BY <3>1 DEF WithdrawnTiles, CancelledTiles
    <3>3. s.frames \in Seq(Frame)
      BY DEF SessionType
    <3>4. t = Withdraw(s)
      BY <2>2
    <3> HIDE DEF t
    <3>5. t.frames = Without(s.frames, Withdrawn(s))
      BY <3>1, <3>4, WithdrawEffect
    <3>6. Remains(t.frames, s.frames, Withdrawn(s), Len(s.frames))
      BY <3>3, <3>5, WithoutRemains
    <3> QED
      BY <3>2, <3>4, <3>6, WithdrawEffect
  <2> QED
    BY <2>1, <2>2
<1>2. after = [t EXCEPT !.planGeneration = @ + 1]
  BY DEF InvalidatePlan
<1> HIDE DEF t
<1>3. /\ after.activePlan = t.activePlan /\ after.planGeneration = t.planGeneration + 1
      /\ SameTurn(t, after) /\ SameFrames(t, after) /\ SameView(t, after) /\ SameCredit(t, after)
      /\ after.tasks = t.tasks /\ after.closed = t.closed /\ after.state = t.state
  BY <1>1, <1>2 DEF SessionType, SameTurn, SameFrames, SameView, SameCredit
<1>4. after \in SessionType
  <2>1. t.planGeneration + 1 \in Nat
    BY <1>1 DEF SessionType
  <2> DEFINE n == t.planGeneration + 1
  <2>2. after = [t EXCEPT !.planGeneration = n]
    BY <1>1, <1>2 DEF SessionType
  <2> HIDE DEF n
  <2>3. n \in Nat
    BY <2>1 DEF n
  <2> QED
    BY <1>1, <2>2, <2>3 DEF SessionType
<1>5. Balance(after) = Balance(t) /\ (CreditHolds(t) => CreditHolds(after))
  BY <1>3 DEF Balance, CreditHolds, SameCredit
<1> QED
  BY <1>1, <1>3, <1>4, <1>5 DEF SameTurn, SameFrames, SameView, SameCredit, Ends, PlanEnds

\* failPlan: the plan ends with an ERROR, or the session closes.
LEMMA FailPlanEffect ==
    ASSUME NEW s \in SessionType, s.activePlan # NoPlan, NEW after, after = FailPlan(s)
    PROVE  /\ after \in SessionType
           /\ PlanEnds(s, after)
           /\ \E rest \in Seq(Frame) :
                 /\ Remains(rest, s.frames, Withdrawn(s), Len(s.frames))
                 /\ \/ after.frames = rest /\ after.closed
                    \/ /\ after.frames = Append(rest, Control("ERROR", s.activePlan.epoch, NoImage))
                       /\ ~after.closed /\ Len(rest) < FrameCapacity
           /\ Control("ERROR", s.activePlan.epoch, NoImage) \in Frame
<1> DEFINE t == InvalidatePlan(s)
           epoch == s.activePlan.epoch
           error == Control("ERROR", epoch, NoImage)
<1>1. epoch \in Nat
  BY DEF SessionType, ActivePlan
<1>2. /\ t \in SessionType /\ PlanEnds(s, t)
      /\ Remains(t.frames, s.frames, Withdrawn(s), Len(s.frames))
  BY InvalidatePlanEffect
<1>3. after = SendError(t, epoch)
  BY DEF FailPlan
<1> HIDE DEF t, error, epoch
<1>4. /\ after \in SessionType /\ OnlyFrames(t, after)
      /\ \/ /\ after.frames = Append(t.frames, error)
            /\ ~t.closed /\ ~after.closed /\ Len(t.frames) < FrameCapacity
         \/ after.frames = t.frames /\ after.closed
      /\ error \in Frame
  BY <1>1, <1>2, <1>3, SendErrorEffect DEF error
<1>5. PlanEnds(s, after)
  BY <1>2, <1>4 DEF PlanEnds, OnlyFrames, SamePlan, SameTurn, SameCredit, SameView, Ends, Balance,
                    CreditHolds
<1>6. t.frames \in Seq(Frame)
  BY <1>2 DEF SessionType
<1> QED
  BY <1>2, <1>4, <1>5, <1>6 DEF error, epoch

LEMMA DismantleEffect ==
    ASSUME NEW s \in SessionType, NEW after, after = Dismantle(s)
    PROVE  /\ after \in SessionType
           /\ after.closed
           /\ after.activePlan = NoPlan /\ after.planGeneration = s.planGeneration
           /\ after.turn = TurnWithout(s) /\ after.reads = s.reads
           /\ SameFrames(s, after) /\ SameView(s, after) /\ after.tasks = s.tasks
           /\ after.deliveries = <<>> /\ after.freeWindowBytes = 0
           /\ after.nextDeliveryId = s.nextDeliveryId
           /\ after.negotiatedWindowBytes = s.negotiatedWindowBytes
<1>1. <<>> \in Ledgers
  BY EmptyLedger
<1>2. TurnWithout(s) \in {"none", "queued", "held"}
  BY DEF TurnWithout, SessionType
<1> DEFINE empty == <<>>
<1> HIDE DEF empty
<1>3. after = [s EXCEPT !.state = "CERRADA", !.closed = TRUE, !.helloTimer = FALSE,
                        !.turn = TurnWithout(s), !.activePlan = NoPlan,
                        !.deliveries = empty, !.freeWindowBytes = 0]
  BY DEF Dismantle, TurnWithout, empty, SessionType
<1>4. empty \in Ledgers
  BY <1>1 DEF empty
<1>5. after \in SessionType
  <2> DEFINE ended == [s EXCEPT !.state = "CERRADA", !.closed = TRUE, !.helloTimer = FALSE]
  <2>1. ended \in SessionType
    BY DEF SessionType, States
  <2> DEFINE idle == [ended EXCEPT !.turn = TurnWithout(s), !.activePlan = NoPlan]
  <2>2. after = [idle EXCEPT !.deliveries = empty, !.freeWindowBytes = 0]
    BY <1>3 DEF SessionType
  <2> HIDE DEF ended
  <2>3. idle \in SessionType
    BY <1>2, <2>1 DEF SessionType
  <2> HIDE DEF idle
  <2>4. 0 \in Int
    OBVIOUS
  <2> QED
    BY <1>4, <2>2, <2>3, <2>4 DEF SessionType
<1>6. /\ after.closed
      /\ after.activePlan = NoPlan /\ after.planGeneration = s.planGeneration
      /\ after.turn = TurnWithout(s) /\ after.reads = s.reads
      /\ SameFrames(s, after) /\ SameView(s, after) /\ after.tasks = s.tasks
      /\ after.deliveries = empty /\ after.freeWindowBytes = 0
      /\ after.nextDeliveryId = s.nextDeliveryId
      /\ after.negotiatedWindowBytes = s.negotiatedWindowBytes
  BY <1>3 DEF SessionType, SameFrames, SameView
<1> QED
  BY <1>5, <1>6 DEF empty

--------------------------------------------------------------------------------
\* What the pump does

\* The delivery that Reserve makes.
Reserved(s) ==
    [epoch |-> s.activePlan.epoch, planGeneration |-> s.activePlan.generation,
     reservedBytes |-> s.activePlan.pendingTile, image |-> s.opened,
     openingThumbnail |-> ThumbnailIsPending(s.activePlan),
     state |-> "RESERVED_QUEUED", selectiveRetries |-> 0,
     retryInProgress |-> FALSE, releaseTimer |-> FALSE]

\* A delivery more in the ledger, the others stay as they are.
Adds(ledger, larger, id, delivery) ==
    /\ DOMAIN larger = DOMAIN ledger \cup {id}
    /\ \A other \in DOMAIN ledger : larger[other] = ledger[other]
    /\ larger[id] = delivery

LEMMA ReserveEffect ==
    ASSUME NEW s \in SessionType, s.activePlan # NoPlan,
           s.nextDeliveryId \notin DOMAIN s.deliveries, NEW after, after = Reserve(s)
    PROVE  /\ after \in SessionType
           /\ after.activePlan = [s.activePlan EXCEPT !.pendingTile = 0, !.busy = TRUE]
           /\ after.activePlan \in ActivePlan
           /\ after.planGeneration = s.planGeneration
           /\ SameTurn(s, after) /\ SameView(s, after) /\ SameFrames(s, after)
           /\ after.tasks = s.tasks /\ Ends(s, after)
           /\ after.negotiatedWindowBytes = s.negotiatedWindowBytes
           /\ after.nextDeliveryId = s.nextDeliveryId + 1
           /\ Adds(s.deliveries, after.deliveries, s.nextDeliveryId, Reserved(s))
           /\ Balance(after) = Balance(s)
           /\ CreditHolds(s) /\ ~LacksCredit(s) => CreditHolds(after) /\ after.closed = s.closed
<1> DEFINE plan == [s.activePlan EXCEPT !.pendingTile = 0, !.busy = TRUE]
           larger == [id \in DOMAIN s.deliveries \cup {s.nextDeliveryId} |->
                         IF id = s.nextDeliveryId THEN Reserved(s) ELSE s.deliveries[id]]
           t == [s EXCEPT !.deliveries = larger,
                          !.freeWindowBytes = @ - s.activePlan.pendingTile,
                          !.nextDeliveryId = @ + 1, !.activePlan = plan]
<1>1. s.activePlan \in ActivePlan /\ s.deliveries \in Ledgers /\ s.nextDeliveryId \in Nat
  BY DEF SessionType
<1>2. plan \in ActivePlan
  BY <1>1 DEF ActivePlan
<1>3. Reserved(s) \in Delivery /\ Reserved(s).reservedBytes = s.activePlan.pendingTile
  <2>1. ThumbnailIsPending(s.activePlan) \in BOOLEAN
    BY <1>1 DEF ThumbnailIsPending, ActivePlan
  <2>2. s.opened \in SomeImage
    BY DEF SessionType
  <2> QED
    BY <1>1, <2>1, <2>2 DEF Reserved, Delivery, ActivePlan
<1>4. larger \in Ledgers /\ ReservedBytes(larger) = ReservedBytes(s.deliveries) + s.activePlan.pendingTile
  BY <1>1, <1>3, LedgerGrows
<1>5. Adds(s.deliveries, larger, s.nextDeliveryId, Reserved(s))
  BY DEF Adds
<1>6. after = EnforceCreditInvariant(t)
  <2> DEFINE u == [s EXCEPT !.deliveries = larger,
                            !.freeWindowBytes = @ - s.activePlan.pendingTile,
                            !.nextDeliveryId = @ + 1,
                            !.activePlan.pendingTile = 0, !.activePlan.busy = TRUE]
  <2>1. after = EnforceCreditInvariant(u)
    BY DEF Reserve, Reserved
  <2>2. u = t
    BY DEF SessionType
  <2> QED
    BY <2>1, <2>2
<1>7. s.freeWindowBytes \in Int /\ s.activePlan.pendingTile \in Nat
  BY <1>1 DEF SessionType, ActivePlan
<1> DEFINE free == s.freeWindowBytes - s.activePlan.pendingTile
           id1 == s.nextDeliveryId + 1
<1>13. free \in Int /\ id1 \in Nat
  BY <1>1, <1>7
<1>14. t = [s EXCEPT !.deliveries = larger, !.freeWindowBytes = free, !.nextDeliveryId = id1,
                     !.activePlan = plan]
  BY DEF SessionType
<1> HIDE DEF larger, plan, free, id1, t
<1>15. t \in SessionType
  BY <1>2, <1>4, <1>13, <1>14 DEF SessionType
<1>8. /\ t \in SessionType /\ t.deliveries = larger
      /\ t.freeWindowBytes = s.freeWindowBytes - s.activePlan.pendingTile
      /\ t.activePlan = plan /\ t.planGeneration = s.planGeneration
      /\ SameTurn(s, t) /\ SameView(s, t) /\ SameFrames(s, t)
      /\ t.tasks = s.tasks /\ t.closed = s.closed /\ t.state = s.state
      /\ t.negotiatedWindowBytes = s.negotiatedWindowBytes
      /\ t.nextDeliveryId = s.nextDeliveryId + 1
  BY <1>14, <1>15 DEF SessionType, SameTurn, SameView, SameFrames, free, id1
<1>9. Balance(t) = Balance(s)
  <2>1. ReservedBytes(s.deliveries) \in Nat
    BY <1>1, LedgerElim
  <2> QED
    BY <1>4, <1>7, <1>8, <2>1 DEF Balance
<1>10. CreditHolds(s) /\ ~LacksCredit(s) => CreditHolds(t)
  BY <1>7, <1>8, <1>9 DEF CreditHolds, Balance, LacksCredit
<1>11. after \in SessionType /\ OnlyEnds(t, after) /\ (CreditHolds(t) => after = t)
  BY <1>6, <1>8, EnforceEffect
<1>12. Balance(after) = Balance(s)
  BY <1>9, <1>11 DEF OnlyEnds, SameCredit, Balance
<1> QED
  BY <1>2, <1>5, <1>8, <1>10, <1>11, <1>12
  DEF OnlyEnds, SamePlan, SameTurn, SameView, SameFrames, SameCredit, Ends, plan

\* One delivery changes, but not its size.
LEMMA DeliveryEffect ==
    ASSUME NEW s \in SessionType, NEW id \in DOMAIN s.deliveries, NEW d \in Delivery,
           d.reservedBytes = s.deliveries[id].reservedBytes,
           NEW after, after = [s EXCEPT !.deliveries[id] = d]
    PROVE  /\ after \in SessionType
           /\ SamePlan(s, after) /\ SameTurn(s, after) /\ SameView(s, after) /\ SameFrames(s, after)
           /\ after.tasks = s.tasks /\ after.closed = s.closed /\ after.state = s.state
           /\ after.nextDeliveryId = s.nextDeliveryId
           /\ DOMAIN after.deliveries = DOMAIN s.deliveries
           /\ after.deliveries[id] = d
           /\ \A other \in DOMAIN s.deliveries : other # id => after.deliveries[other] = s.deliveries[other]
           /\ after.freeWindowBytes = s.freeWindowBytes
           /\ after.negotiatedWindowBytes = s.negotiatedWindowBytes
           /\ Balance(after) = Balance(s)
           /\ CreditHolds(s) => CreditHolds(after)
<1> DEFINE ledger == [s.deliveries EXCEPT ![id] = d]
<1>1. s.deliveries \in Ledgers /\ s.deliveries \in [DOMAIN s.deliveries -> Delivery]
  BY LedgerElim DEF SessionType
<1>2. /\ ledger \in [DOMAIN s.deliveries -> Delivery]
      /\ ledger[id] = d
      /\ \A other \in DOMAIN s.deliveries : other # id => ledger[other] = s.deliveries[other]
  BY <1>1
<1> HIDE DEF ledger
<1>3. ledger \in Ledgers /\ ReservedBytes(ledger) = ReservedBytes(s.deliveries)
  BY <1>1, <1>2, LedgerSameBytes
<1>4. after = [s EXCEPT !.deliveries = ledger]
  BY DEF SessionType, ledger
<1>5. after \in SessionType
  BY <1>3, <1>4 DEF SessionType
<1>6. /\ SamePlan(s, after) /\ SameTurn(s, after) /\ SameView(s, after) /\ SameFrames(s, after)
      /\ after.tasks = s.tasks /\ after.closed = s.closed /\ after.state = s.state
      /\ after.nextDeliveryId = s.nextDeliveryId
      /\ after.deliveries = ledger
      /\ after.freeWindowBytes = s.freeWindowBytes
      /\ after.negotiatedWindowBytes = s.negotiatedWindowBytes
  BY <1>4 DEF SessionType, SamePlan, SameTurn, SameView, SameFrames
<1> QED
  BY <1>2, <1>3, <1>5, <1>6 DEF Balance, CreditHolds

LEMMA DeliveryField ==
    ASSUME NEW s \in SessionType, NEW id \in DOMAIN s.deliveries
    PROVE  s.deliveries[id] \in Delivery /\ id \in Nat
BY LedgerElim DEF SessionType

\* The plan changes.
LEMMA PlanEffect ==
    ASSUME NEW s \in SessionType, NEW plan \in ActivePlan \cup {NoPlan},
           NEW after, after = [s EXCEPT !.activePlan = plan]
    PROVE  /\ after \in SessionType /\ after.activePlan = plan
           /\ after.planGeneration = s.planGeneration
           /\ SameCredit(s, after) /\ SameTurn(s, after) /\ SameView(s, after) /\ SameFrames(s, after)
           /\ after.tasks = s.tasks /\ after.closed = s.closed /\ after.state = s.state
BY DEF SessionType, SameCredit, SameTurn, SameView, SameFrames

LEMMA PlanControlIsFrame ==
    ASSUME NEW kind \in PlanKinds, NEW plan \in ActivePlan, NEW count \in Nat
    PROVE  /\ PlanControl(kind, plan, count) \in Frame
           /\ PlanControl(kind, plan, count).kind = kind
           /\ PlanControl(kind, plan, count).epoch = plan.epoch
           /\ PlanControl(kind, plan, count).generation = plan.generation
           /\ PlanControl(kind, plan, count).id = 0
           /\ PlanControl(kind, plan, count).count = count
BY DEF PlanControl, Frame, ActivePlan, SomeImage

\* The tile just reserved is queued, or the session closes and it is not reserved.
LEMMA SendTileEffect ==
    ASSUME NEW s \in SessionType, s.activePlan # NoPlan,
           s.nextDeliveryId - 1 \in DOMAIN s.deliveries, NEW after, after = SendTile(s)
    PROVE  /\ after \in SessionType
           /\ \/ s.closed /\ after = s
              \/ /\ after.closed
                 /\ after.activePlan = [s.activePlan EXCEPT !.busy = FALSE]
                 /\ after.planGeneration = s.planGeneration
                 /\ SameTurn(s, after) /\ SameView(s, after) /\ SameFrames(s, after)
                 /\ after.tasks = s.tasks
                 /\ after.nextDeliveryId = s.nextDeliveryId
                 /\ after.negotiatedWindowBytes = s.negotiatedWindowBytes
                 /\ Loses(s.deliveries, after.deliveries, {s.nextDeliveryId - 1})
                 /\ Balance(after) = Balance(s)
                 /\ CreditHolds(s) => CreditHolds(after)
              \/ /\ ~s.closed /\ ~after.closed
                 /\ OnlyFrames(s, after)
                 /\ Len(s.frames) < FrameCapacity
                 /\ \E image \in SomeImage :
                       LET frame == TileFrame("TILE", s.activePlan.epoch, s.activePlan.generation,
                                              s.nextDeliveryId - 1, image)
                       IN frame \in Frame /\ after.frames = Append(s.frames, frame)
<1> DEFINE id == s.nextDeliveryId - 1
<1>1. s.activePlan \in ActivePlan
  BY DEF SessionType
<1>2. id \in Nat
  BY DeliveryField
<1> HIDE DEF id
<1>3. CASE s.closed
  BY <1>3 DEF SendTile
<1>4. CASE ~s.closed /\ Refuses(s)
  <2> DEFINE refunded == Refund(s, {id})
             plan == [s.activePlan EXCEPT !.busy = FALSE]
             freed == [refunded EXCEPT !.activePlan = plan]
  <2>1. /\ refunded \in SessionType
        /\ OnlyCredit(s, refunded)
        /\ refunded.closed = s.closed
        /\ Loses(s.deliveries, refunded.deliveries, {id})
        /\ Balance(refunded) = Balance(s)
        /\ refunded.freeWindowBytes >= s.freeWindowBytes
    <3>1. {id} \in SUBSET (DOMAIN s.deliveries)
      BY DEF id
    <3> QED
      BY <3>1, RefundEffect
  <2>2. plan \in ActivePlan
    BY <1>1 DEF ActivePlan
  <2>3. after = Closing(freed)
    BY <1>4, <2>1 DEF SendTile, id, OnlyCredit, SamePlan, SessionType
  <2> HIDE DEF refunded, plan
  <2>4. /\ freed \in SessionType /\ freed.activePlan = plan
        /\ freed.planGeneration = refunded.planGeneration
        /\ SameCredit(refunded, freed) /\ SameTurn(refunded, freed) /\ SameView(refunded, freed)
        /\ SameFrames(refunded, freed) /\ freed.tasks = refunded.tasks
    BY <2>1, <2>2, PlanEffect
  <2> HIDE DEF freed
  <2>5. after \in SessionType /\ OnlyEnds(freed, after) /\ after.closed
    BY <2>3, <2>4, ClosingEffect
  <2>6. CreditHolds(s) => CreditHolds(after)
    <3>1. s.freeWindowBytes \in Int /\ refunded.freeWindowBytes \in Int
      BY <2>1 DEF SessionType
    <3> QED
      BY <2>1, <2>4, <2>5, <3>1 DEF CreditHolds, Balance, OnlyCredit, OnlyEnds, SameCredit
  <2>7. after.activePlan = [s.activePlan EXCEPT !.busy = FALSE]
    BY <2>4, <2>5 DEF OnlyEnds, SamePlan, plan
  <2> QED
    BY <2>1, <2>4, <2>5, <2>6, <2>7
    DEF OnlyCredit, OnlyEnds, SameCredit, SamePlan, SameTurn, SameView, SameFrames, Balance, id
<1>5. CASE ~s.closed /\ ~Refuses(s)
  <2>1. PICK image \in SomeImage :
           after = Queued(s, TileFrame("TILE", s.activePlan.epoch, s.activePlan.generation, id, image))
    BY <1>5 DEF SendTile, id, SomeImage, SessionType
  <2> DEFINE frame == TileFrame("TILE", s.activePlan.epoch, s.activePlan.generation, id, image)
  <2>2. frame \in Frame
    BY <1>1, <1>2 DEF TileFrame, Frame, ActivePlan, PlanKinds
  <2>3. Len(s.frames) < FrameCapacity
    BY <1>5, ConstantsAssumption DEF Refuses, SessionType
  <2> HIDE DEF frame
  <2>4. after = Queued(s, frame)
    BY <2>1 DEF frame
  <2>5. /\ after \in SessionType /\ OnlyFrames(s, after)
        /\ after.frames = Append(s.frames, frame) /\ after.closed = s.closed
    BY <2>2, <2>4, QueuedEffect
  <2> QED
    BY <1>5, <2>2, <2>3, <2>5 DEF frame, id
<1> QED
  BY <1>3, <1>4, <1>5

\* The DONE is queued, or the session closes without a plan.
LEMMA SendDoneEffect ==
    ASSUME NEW s \in SessionType, s.activePlan # NoPlan, NEW after, after = SendDone(s)
    PROVE  /\ after \in SessionType
           /\ after.planGeneration = s.planGeneration
           /\ SameTurn(s, after) /\ SameView(s, after) /\ SameCredit(s, after)
           /\ after.tasks = s.tasks /\ after.writing = s.writing
           /\ \/ /\ after.closed /\ after.activePlan = NoPlan /\ after.frames = s.frames
              \/ /\ ~s.closed /\ ~after.closed /\ after.state = s.state
                 /\ after.activePlan = [s.activePlan EXCEPT !.doneQueued = TRUE]
                 /\ after.activePlan \in ActivePlan
                 /\ Len(s.frames) < FrameCapacity
                 /\ LET frame == PlanControl("DONE", s.activePlan, s.activePlan.sentTiles)
                    IN frame \in Frame /\ after.frames = Append(s.frames, frame)
<1>1. s.activePlan \in ActivePlan
  BY DEF SessionType
<1>2. CASE Refuses(s)
  <2> DEFINE t == [s EXCEPT !.activePlan = NoPlan]
  <2>1. after = Closing(t)
    BY <1>2 DEF SendDone
  <2>2. /\ t \in SessionType /\ t.activePlan = NoPlan
        /\ t.planGeneration = s.planGeneration
        /\ SameCredit(s, t) /\ SameTurn(s, t) /\ SameView(s, t) /\ SameFrames(s, t)
        /\ t.tasks = s.tasks
    BY PlanEffect
  <2> HIDE DEF t
  <2>3. after \in SessionType /\ OnlyEnds(t, after) /\ after.closed
    BY <2>1, <2>2, ClosingEffect
  <2> QED
    BY <2>2, <2>3 DEF OnlyEnds, SamePlan, SameTurn, SameView, SameCredit, SameFrames
<1>3. CASE ~Refuses(s)
  <2> DEFINE plan == [s.activePlan EXCEPT !.doneQueued = TRUE]
             t == [s EXCEPT !.activePlan = plan]
             frame == PlanControl("DONE", s.activePlan, s.activePlan.sentTiles)
  <2>1. plan \in ActivePlan
    BY <1>1 DEF ActivePlan
  <2>2. after = Queued(t, frame)
    BY <1>3 DEF SendDone, SessionType
  <2>3. frame \in Frame
    BY <1>1, PlanControlIsFrame DEF ActivePlan, PlanKinds
  <2>4. ~s.closed /\ Len(s.frames) < FrameCapacity
    BY <1>3, ConstantsAssumption DEF Refuses, SessionType
  <2> HIDE DEF plan, frame
  <2>5. /\ t \in SessionType /\ t.activePlan = plan
        /\ t.planGeneration = s.planGeneration
        /\ SameCredit(s, t) /\ SameTurn(s, t) /\ SameView(s, t) /\ SameFrames(s, t)
        /\ t.tasks = s.tasks /\ t.closed = s.closed /\ t.state = s.state
    BY <2>1, PlanEffect
  <2> HIDE DEF t
  <2>6. /\ after \in SessionType /\ OnlyFrames(t, after)
        /\ after.frames = Append(t.frames, frame) /\ after.closed = t.closed
    BY <2>2, <2>3, <2>5, QueuedEffect
  <2>7. after.state = s.state
    BY <2>4, <2>5, <2>6 DEF OnlyFrames, Ends
  <2>8. after.frames = Append(s.frames, frame)
    BY <2>5, <2>6 DEF SameFrames
  <2>9. after.activePlan = plan /\ after.planGeneration = s.planGeneration
    BY <2>5, <2>6 DEF OnlyFrames, SamePlan
  <2>10. /\ SameTurn(s, after) /\ SameView(s, after) /\ SameCredit(s, after)
         /\ after.tasks = s.tasks /\ after.writing = s.writing
    BY <2>5, <2>6 DEF OnlyFrames, SameTurn, SameView, SameCredit, SameFrames
  <2> QED
    BY <2>1, <2>3, <2>4, <2>5, <2>6, <2>7, <2>8, <2>9, <2>10 DEF plan, frame
<1> QED
  BY <1>2, <1>3

LEMMA TurnEffect ==
    ASSUME NEW s \in SessionType, NEW turn \in {"none", "queued", "held"},
           NEW after, after = [s EXCEPT !.turn = turn]
    PROVE  /\ after \in SessionType /\ after.turn = turn /\ after.reads = s.reads
           /\ SamePlan(s, after) /\ SameCredit(s, after) /\ SameView(s, after)
           /\ SameFrames(s, after) /\ after.tasks = s.tasks
           /\ after.closed = s.closed /\ after.state = s.state
BY DEF SessionType, SamePlan, SameCredit, SameView, SameFrames

LEMMA ReadsEffect ==
    ASSUME NEW s \in SessionType, NEW reads \in SUBSET Read,
           NEW after, after = [s EXCEPT !.reads = reads]
    PROVE  /\ after \in SessionType /\ after.reads = reads /\ after.turn = s.turn
           /\ SamePlan(s, after) /\ SameCredit(s, after) /\ SameView(s, after)
           /\ SameFrames(s, after) /\ after.tasks = s.tasks
           /\ after.closed = s.closed /\ after.state = s.state
BY DEF SessionType, SamePlan, SameCredit, SameView, SameFrames

\* The read of a tile that starts.
TileRead(plan) == [kind |-> "TILE", generation |-> plan.generation, bytes |-> 0, complete |-> FALSE]

\* The read cannot start: the session before the plan fails.
ReadFails(s, t) ==
    /\ t.activePlan = [s.activePlan EXCEPT !.next = @ + 1]
    /\ t.activePlan \in ActivePlan
    /\ t.planGeneration = s.planGeneration
    /\ t.turn = "none" /\ t.reads = s.reads
    /\ SameCredit(s, t) /\ SameView(s, t) /\ SameFrames(s, t)
    /\ t.tasks = s.tasks /\ t.closed = s.closed /\ t.state = s.state

ReadStarts(s, t) ==
    /\ t.activePlan = [s.activePlan EXCEPT !.next = @ + 1, !.busy = TRUE]
    /\ t.activePlan \in ActivePlan
    /\ t.planGeneration = s.planGeneration
    /\ t.turn = "held" /\ t.reads = s.reads \cup {TileRead(s.activePlan)}
    /\ SameCredit(s, t) /\ SameView(s, t) /\ SameFrames(s, t)
    /\ t.tasks = s.tasks /\ t.closed = s.closed /\ t.state = s.state

LEMMA StartTileReadCases ==
    ASSUME NEW s \in SessionType, s.activePlan # NoPlan, NEW answer,
           NEW after, after = StartTileRead(s, answer)
    PROVE  \/ (s.closed \/ s.activePlan.busy) /\ after = [s EXCEPT !.turn = "none"]
           \/ /\ ~s.closed /\ ~s.activePlan.busy
              /\ \E t \in SessionType : ReadFails(s, t) /\ after = FailPlan(t)
           \/ /\ ~s.closed /\ ~s.activePlan.busy
              /\ after \in SessionType /\ ReadStarts(s, after)
<1>1. s.activePlan \in ActivePlan
  BY DEF SessionType
<1>2. CASE s.closed \/ s.activePlan.busy
  BY <1>2 DEF StartTileRead
<1>3. CASE ~(s.closed \/ s.activePlan.busy) /\ answer = "diskFull"
  <2> DEFINE plan == [s.activePlan EXCEPT !.next = @ + 1]
             t == [s EXCEPT !.activePlan = plan, !.turn = "none"]
  <2>1. plan \in ActivePlan
    BY <1>1 DEF ActivePlan
  <2>2. after = FailPlan(t)
    BY <1>3 DEF StartTileRead, SessionType
  <2> HIDE DEF plan
  <2>3. t \in SessionType
    BY <2>1 DEF SessionType
  <2>4. /\ t.activePlan = plan /\ t.planGeneration = s.planGeneration
        /\ t.turn = "none" /\ t.reads = s.reads
        /\ SameCredit(s, t) /\ SameView(s, t) /\ SameFrames(s, t)
        /\ t.tasks = s.tasks /\ t.closed = s.closed /\ t.state = s.state
    BY DEF SessionType, SameCredit, SameView, SameFrames
  <2>5. ReadFails(s, t)
    BY <2>1, <2>4 DEF plan, ReadFails
  <2> HIDE DEF t
  <2> QED
    BY <1>3, <2>2, <2>3, <2>5
<1>4. CASE ~(s.closed \/ s.activePlan.busy) /\ answer # "diskFull"
  <2> DEFINE plan == [s.activePlan EXCEPT !.next = @ + 1, !.busy = TRUE]
             reads == s.reads \cup {TileRead(s.activePlan)}
  <2>1. plan \in ActivePlan
    <3>1. s.activePlan.next + 1 \in Nat
      BY <1>1 DEF ActivePlan
    <3> DEFINE n == s.activePlan.next + 1
    <3>2. plan = [s.activePlan EXCEPT !.next = n, !.busy = TRUE]
      BY <1>1 DEF ActivePlan
    <3> HIDE DEF n, plan
    <3> QED
      BY <1>1, <3>1, <3>2 DEF ActivePlan, n
  <2>2. reads \in SUBSET Read
    <3>1. TileRead(s.activePlan) \in Read
      BY <1>1 DEF TileRead, Read, ActivePlan
    <3> QED
      BY <3>1 DEF SessionType
  <2>3. after = [s EXCEPT !.activePlan = plan, !.turn = "held", !.reads = reads]
    BY <1>4 DEF StartTileRead, SessionType, TileRead
  <2> HIDE DEF plan, reads
  <2>4. after \in SessionType
    BY <2>1, <2>2, <2>3 DEF SessionType
  <2>5. /\ after.activePlan = plan /\ after.planGeneration = s.planGeneration
        /\ after.turn = "held" /\ after.reads = reads
        /\ SameCredit(s, after) /\ SameView(s, after) /\ SameFrames(s, after)
        /\ after.tasks = s.tasks /\ after.closed = s.closed /\ after.state = s.state
    BY <2>3 DEF SessionType, SameCredit, SameView, SameFrames
  <2>6. ReadStarts(s, after)
    BY <2>1, <2>5 DEF plan, reads, ReadStarts
  <2> QED
    BY <1>4, <2>4, <2>6
<1> QED
  BY <1>2, <1>3, <1>4

\* The plan waits for its turn.
LEMMA TurnQueuedEffect ==
    ASSUME NEW s \in SessionType, s.activePlan # NoPlan,
           NEW after, after = [s EXCEPT !.turn = "queued", !.activePlan.readWait = TRUE]
    PROVE  /\ after \in SessionType
           /\ after.activePlan = [s.activePlan EXCEPT !.readWait = TRUE]
           /\ after.activePlan \in ActivePlan
           /\ after.planGeneration = s.planGeneration
           /\ after.turn = "queued" /\ after.reads = s.reads
           /\ SameCredit(s, after) /\ SameView(s, after) /\ SameFrames(s, after)
           /\ after.tasks = s.tasks /\ after.closed = s.closed /\ after.state = s.state
<1> DEFINE plan == [s.activePlan EXCEPT !.readWait = TRUE]
<1>1. plan \in ActivePlan
  BY DEF SessionType, ActivePlan
<1>2. after = [s EXCEPT !.turn = "queued", !.activePlan = plan]
  BY DEF SessionType
<1> HIDE DEF plan
<1>3. after \in SessionType
  BY <1>1, <1>2 DEF SessionType
<1>4. /\ after.activePlan = plan /\ after.planGeneration = s.planGeneration
      /\ after.turn = "queued" /\ after.reads = s.reads
      /\ SameCredit(s, after) /\ SameView(s, after) /\ SameFrames(s, after)
      /\ after.tasks = s.tasks /\ after.closed = s.closed /\ after.state = s.state
  BY <1>2 DEF SessionType, SameCredit, SameView, SameFrames
<1> QED
  BY <1>1, <1>3, <1>4 DEF plan

--------------------------------------------------------------------------------
\* What an accepted VIEW does

\* A plan that has just been made.
Fresh(plan, generation, epoch) ==
    /\ plan \in ActivePlan
    /\ plan.generation = generation /\ plan.epoch = epoch
    /\ plan.tiles \in Nat \ {0}
    /\ plan.next = 0 /\ plan.sentTiles = 0 /\ plan.pendingTile = 0
    /\ ~plan.planCommitted /\ ~plan.doneQueued /\ ~plan.busy /\ ~plan.readWait

LEMMA NewPlanIsFresh ==
    ASSUME NEW s \in SessionType, s.planGeneration > 0, NEW epoch \in Nat
    PROVE  Fresh(NewPlan(s, epoch), s.planGeneration, epoch)
<1>1. PlanTiles \in Nat \ {0}
  BY ConstantsAssumption
<1>2. PICK tiles \in Nat \ {0} : tiles = PlanTiles + (IF s.thumbnailCommittedForOpen THEN 0 ELSE 1)
  BY <1>1
<1>3. s.planGeneration \in Nat \ {0} /\ s.thumbnailCommittedForOpen \in BOOLEAN
  BY DEF SessionType
<1> DEFINE thumbnail == ~s.thumbnailCommittedForOpen
           plan == [NoPlan EXCEPT !.generation = s.planGeneration, !.epoch = epoch,
                                  !.thumbnail = thumbnail, !.tiles = tiles]
<1>4. NewPlan(s, epoch) = plan
  BY <1>2, Zenon DEF NewPlan
<1>5. thumbnail \in BOOLEAN
  BY <1>3
<1> HIDE DEF thumbnail
<1>6. /\ NoPlan \in [generation : Nat, epoch : Nat, thumbnail : BOOLEAN, tiles : Nat, next : Nat,
                      planCommitted : BOOLEAN, doneQueued : BOOLEAN, busy : BOOLEAN,
                      sentTiles : Nat, pendingTile : Nat, readWait : BOOLEAN]
      /\ NoPlan.next = 0 /\ NoPlan.sentTiles = 0 /\ NoPlan.pendingTile = 0
      /\ ~NoPlan.planCommitted /\ ~NoPlan.doneQueued /\ ~NoPlan.busy /\ ~NoPlan.readWait
  BY DEF NoPlan
<1>7. /\ plan \in ActivePlan
      /\ plan.generation = s.planGeneration /\ plan.epoch = epoch /\ plan.tiles = tiles
      /\ plan.next = 0 /\ plan.sentTiles = 0 /\ plan.pendingTile = 0
      /\ ~plan.planCommitted /\ ~plan.doneQueued /\ ~plan.busy /\ ~plan.readWait
  BY <1>2, <1>3, <1>5, <1>6 DEF ActivePlan
<1> HIDE DEF plan
<1> QED
  BY <1>2, <1>4, <1>7 DEF Fresh

\* The active plan ends and another begins, besides the frames.
Replans(s, t, epoch) ==
    /\ t.planGeneration = s.planGeneration + 2
    /\ t.turn = TurnWithout(s) /\ t.reads = s.reads
    /\ t.writing = s.writing /\ t.tasks = s.tasks
    /\ t.currentEpoch = epoch /\ t.opened = s.opened
    /\ t.thumbnailCommittedForOpen = s.thumbnailCommittedForOpen
    /\ t.nextDeliveryId = s.nextDeliveryId
    /\ t.negotiatedWindowBytes = s.negotiatedWindowBytes
    /\ Loses(s.deliveries, t.deliveries, WithdrawnTiles(s))
    /\ Balance(t) = Balance(s)
    /\ CreditHolds(s) => CreditHolds(t)

\* Behind the frames that remain comes the PLAN; or the session closes without it.
Announced(s, t, rest, epoch) ==
    /\ Remains(rest, s.frames, Withdrawn(s), Len(s.frames))
    /\ \/ t.closed /\ t.activePlan = NoPlan /\ t.frames = rest
       \/ /\ ~t.closed /\ t.state = s.state /\ ~s.closed
          /\ Fresh(t.activePlan, t.planGeneration, epoch)
          /\ Len(rest) < FrameCapacity
          /\ PlanControl("PLAN", t.activePlan, t.activePlan.tiles) \in Frame
          /\ t.frames = Append(rest, PlanControl("PLAN", t.activePlan, t.activePlan.tiles))

LEMMA AcceptViewEffect ==
    ASSUME NEW s \in SessionType, NEW epoch \in Nat, NEW after, after = AcceptView(s, epoch)
    PROVE  /\ after \in SessionType
           /\ Replans(s, after, epoch)
           /\ \E rest \in Seq(Frame) : Announced(s, after, rest, epoch)
<1> DEFINE ended == InvalidatePlan(s)
           generation == ended.planGeneration + 1
           t == [ended EXCEPT !.currentEpoch = epoch, !.planGeneration = generation]
           plan == NewPlan(t, epoch)
           u == [t EXCEPT !.activePlan = plan]
           frame == PlanControl("PLAN", plan, plan.tiles)
<1>1. /\ ended \in SessionType /\ PlanEnds(s, ended)
      /\ Remains(ended.frames, s.frames, Withdrawn(s), Len(s.frames))
  BY InvalidatePlanEffect
<1>2. after = SendPlan(u)
  BY <1>1 DEF AcceptView, SessionType
<1> HIDE DEF ended
<1>3. generation \in Nat /\ generation > 0 /\ generation = s.planGeneration + 2
  BY <1>1, SMTT(30) DEF SessionType, PlanEnds
<1> HIDE DEF generation
<1>4. /\ t \in SessionType
      /\ t.planGeneration = generation /\ t.currentEpoch = epoch
      /\ SameTurn(ended, t) /\ SameFrames(ended, t) /\ SameCredit(ended, t)
      /\ t.opened = ended.opened /\ t.thumbnailCommittedForOpen = ended.thumbnailCommittedForOpen
      /\ t.tasks = ended.tasks /\ t.closed = ended.closed /\ t.state = ended.state
  BY <1>1, <1>3 DEF SessionType, SameTurn, SameFrames, SameCredit
<1> HIDE DEF t
<1>5. Fresh(plan, generation, epoch)
  BY <1>3, <1>4, NewPlanIsFresh
<1>6. plan \in ActivePlan
  BY <1>5 DEF Fresh
<1> HIDE DEF plan
<1>7. /\ u \in SessionType /\ u.activePlan = plan
      /\ u.planGeneration = t.planGeneration
      /\ SameCredit(t, u) /\ SameTurn(t, u) /\ SameView(t, u) /\ SameFrames(t, u)
      /\ u.tasks = t.tasks /\ u.closed = t.closed /\ u.state = t.state
  BY <1>4, <1>6, PlanEffect
<1> HIDE DEF u
<1>8. \* The fields that both outcomes share.
      ASSUME NEW v \in SessionType, SameCredit(u, v), SameTurn(u, v), SameView(u, v),
             v.tasks = u.tasks, v.writing = u.writing, v.planGeneration = u.planGeneration
      PROVE  Replans(s, v, epoch)
  BY <1>1, <1>3, <1>4, <1>7, <1>8
  DEF Replans, PlanEnds, SameCredit, SameTurn, SameView, SameFrames, Balance, CreditHolds
<1>9. /\ ended.frames \in Seq(Frame) /\ u.frames = ended.frames
      /\ Remains(ended.frames, s.frames, Withdrawn(s), Len(s.frames))
  BY <1>1, <1>4, <1>7 DEF SessionType, SameFrames
<1>10. CASE Refuses(u)
  <2> DEFINE none == [u EXCEPT !.activePlan = NoPlan]
  <2>1. after = Closing(none)
    BY <1>2, <1>10 DEF SendPlan
  <2>2. /\ none \in SessionType /\ none.activePlan = NoPlan
        /\ none.planGeneration = u.planGeneration
        /\ SameCredit(u, none) /\ SameTurn(u, none) /\ SameView(u, none) /\ SameFrames(u, none)
        /\ none.tasks = u.tasks
    BY <1>7, PlanEffect
  <2> HIDE DEF none
  <2>3. after \in SessionType /\ OnlyEnds(none, after) /\ after.closed
    BY <2>1, <2>2, ClosingEffect
  <2>4. /\ SameCredit(u, after) /\ SameTurn(u, after) /\ SameView(u, after)
        /\ after.tasks = u.tasks /\ after.writing = u.writing
        /\ after.planGeneration = u.planGeneration
        /\ after.activePlan = NoPlan /\ after.frames = ended.frames
    BY <1>9, <2>2, <2>3 DEF OnlyEnds, SamePlan, SameTurn, SameView, SameCredit, SameFrames
  <2>5. Announced(s, after, ended.frames, epoch)
    BY <1>9, <2>3, <2>4 DEF Announced
  <2> HIDE DEF frame
  <2> QED
    BY <1>8, <1>9, <2>3, <2>4, <2>5
<1>11. CASE ~Refuses(u)
  <2>1. frame \in Frame
    BY <1>5, <1>6, PlanControlIsFrame DEF Fresh, PlanKinds
  <2>2. after = Queued(u, frame)
    BY <1>2, <1>7, <1>11 DEF SendPlan
  <2>3. ~u.closed /\ Len(u.frames) < FrameCapacity
    BY <1>7, <1>11, ConstantsAssumption, SMTT(30) DEF Refuses, SessionType
  <2> HIDE DEF frame
  <2>4. /\ after \in SessionType /\ OnlyFrames(u, after)
        /\ after.frames = Append(u.frames, frame) /\ after.closed = u.closed
    BY <1>7, <2>1, <2>2, QueuedEffect
  <2>5. /\ SameCredit(u, after) /\ SameTurn(u, after) /\ SameView(u, after)
        /\ after.tasks = u.tasks /\ after.writing = u.writing
        /\ after.planGeneration = u.planGeneration
        /\ after.activePlan = plan /\ after.frames = Append(ended.frames, frame)
    BY <1>7, <1>9, <2>4 DEF OnlyFrames, SamePlan, SameFrames
  <2>6. after.state = s.state /\ ~s.closed /\ ~after.closed
    BY <1>1, <1>4, <1>7, <2>3, <2>4 DEF OnlyFrames, Ends, PlanEnds
  <2>7. Fresh(after.activePlan, after.planGeneration, epoch)
    BY <1>4, <1>5, <1>7, <2>5
  <2>8. Announced(s, after, ended.frames, epoch)
    BY <1>9, <2>1, <2>3, <2>5, <2>6, <2>7 DEF Announced, frame
  <2> QED
    BY <1>8, <1>9, <2>4, <2>5, <2>8
<1> QED
  BY <1>10, <1>11

--------------------------------------------------------------------------------
\* What a confirmation, a recovery and a written tile do

\* A delivery that changed in what its recovery and its deadline say.
Revised(old, new, state, retrying, timer) ==
    /\ new \in Delivery
    /\ new.reservedBytes = old.reservedBytes
    /\ new.epoch = old.epoch /\ new.planGeneration = old.planGeneration
    /\ new.state = state /\ new.retryInProgress = retrying /\ new.releaseTimer = timer

\* One delivery of s is revised, nothing else changes.
Revises(s, t, id, state, retrying, timer) ==
    /\ id \in DOMAIN s.deliveries
    /\ \E d : /\ Revised(s.deliveries[id], d, state, retrying, timer)
              /\ t = [s EXCEPT !.deliveries[id] = d]

\* A recovery may begin.
Retriable(s, id) ==
    /\ id \in DOMAIN s.deliveries
    /\ s.deliveries[id].state = "WRITTEN_AWAITING_RELEASE"
    /\ ~s.deliveries[id].retryInProgress

RetryRead(id) == [kind |-> "RETRY", id |-> id]

\* The second read of a tile starts, nothing else changes.
Rereads(s, t, id) ==
    /\ t = [s EXCEPT !.reads = s.reads \cup {RetryRead(id)}]
    /\ s.reads \cup {RetryRead(id)} \in SUBSET Read

LEMMA RetransmitCases ==
    ASSUME NEW s \in SessionType, NEW epoch \in Nat, NEW id, NEW answer,
           NEW after, after = RequestSelectiveRetransmit(s, epoch, id, answer)
    PROVE  \/ after = s
           \/ /\ Retriable(s, id)
              /\ \/ after = SendError(Acknowledge(s, {id}), epoch)
                 \/ after = Acknowledge(s, {id})
                 \/ \E t : /\ Revises(s, t, id, "WRITTEN_AWAITING_RELEASE", FALSE, TRUE)
                           /\ after = SendError(t, epoch)
                 \/ \E t : /\ Revises(s, t, id, "WRITTEN_AWAITING_RELEASE", TRUE, FALSE)
                           /\ Rereads(t, after, id)
<1> DEFINE d0 == s.deliveries[id]
<1> SUFFICES ASSUME id \in DOMAIN s.deliveries, d0.state = "WRITTEN_AWAITING_RELEASE",
                    ~d0.retryInProgress, after # s,
                    after # SendError(Acknowledge(s, {id}), epoch), after # Acknowledge(s, {id})
             PROVE  \/ \E t : /\ Revises(s, t, id, "WRITTEN_AWAITING_RELEASE", FALSE, TRUE)
                              /\ after = SendError(t, epoch)
                    \/ \E t : /\ Revises(s, t, id, "WRITTEN_AWAITING_RELEASE", TRUE, FALSE)
                              /\ Rereads(t, after, id)
  BY Zenon DEF RequestSelectiveRetransmit, Retriable
<1>1. d0 \in Delivery /\ id \in Nat
  BY DeliveryField
<1>2. d0.selectiveRetries + 1 \in Nat
  BY <1>1 DEF Delivery
<1> DEFINE retries == d0.selectiveRetries + 1
           failed == [d0 EXCEPT !.selectiveRetries = retries, !.releaseTimer = TRUE]
           started == [d0 EXCEPT !.retryInProgress = TRUE, !.releaseTimer = FALSE,
                                 !.selectiveRetries = retries]
           t1 == [s EXCEPT !.deliveries[id] = started]
<1>3. /\ [d0 EXCEPT !.selectiveRetries = @ + 1, !.releaseTimer = TRUE] = failed
      /\ [d0 EXCEPT !.retryInProgress = TRUE, !.releaseTimer = FALSE, !.selectiveRetries = @ + 1]
           = started
  BY <1>1 DEF Delivery
<1>4. \/ after = SendError([s EXCEPT !.deliveries[id] = failed], epoch)
      \/ after = [s EXCEPT !.deliveries[id] = started,
                           !.reads = s.reads \cup {[kind |-> "RETRY", id |-> id]}]
  BY <1>3, Zenon DEF RequestSelectiveRetransmit
<1>5. [s EXCEPT !.deliveries[id] = started,
                !.reads = s.reads \cup {[kind |-> "RETRY", id |-> id]}]
      = [t1 EXCEPT !.reads = s.reads \cup {RetryRead(id)}]
  BY DEF RetryRead
<1>7. Revised(d0, failed, "WRITTEN_AWAITING_RELEASE", FALSE, TRUE)
  <2> HIDE DEF retries, d0
  <2>1. retries \in Nat
    BY <1>2 DEF retries, d0
  <2> QED
    BY <1>1, <2>1 DEF Revised, Delivery
<1>8. Revised(d0, started, "WRITTEN_AWAITING_RELEASE", TRUE, FALSE)
  <2> HIDE DEF retries, d0
  <2>1. retries \in Nat
    BY <1>2 DEF retries, d0
  <2> QED
    BY <1>1, <2>1 DEF Revised, Delivery
<1>9. s.reads \cup {RetryRead(id)} \in SUBSET Read
  <2>1. RetryRead(id) \in Read
    BY <1>1 DEF RetryRead, Read
  <2> QED
    BY <2>1 DEF SessionType
<1>10. CASE after = SendError([s EXCEPT !.deliveries[id] = failed], epoch)
  <2> HIDE DEF failed
  <2>1. Revises(s, [s EXCEPT !.deliveries[id] = failed], id, "WRITTEN_AWAITING_RELEASE", FALSE, TRUE)
    BY <1>7, Zenon DEF Revises
  <2> QED
    BY <1>10, <2>1, Zenon
<1>11. CASE after = [s EXCEPT !.deliveries[id] = started,
                           !.reads = s.reads \cup {[kind |-> "RETRY", id |-> id]}]
  <2>1. after = [t1 EXCEPT !.reads = s.reads \cup {RetryRead(id)}]
    BY <1>5, <1>11, Zenon
  <2> HIDE DEF started
  <2>2. Revises(s, t1, id, "WRITTEN_AWAITING_RELEASE", TRUE, FALSE)
    BY <1>8, Zenon DEF Revises
  <2>3. t1.reads = s.reads
    BY DEF SessionType
  <2>4. Rereads(t1, after, id)
    BY <1>9, <2>1, <2>3, Zenon DEF Rereads
  <2> QED
    BY <2>2, <2>4, Zenon
<1> QED
  BY <1>4, <1>10, <1>11

LEMMA RecoveryFailedEffect ==
    ASSUME NEW s \in SessionType, NEW id \in DOMAIN s.deliveries,
           NEW after, after = RecoveryFailed(s, id)
    PROVE  \E t : /\ Revises(s, t, id, s.deliveries[id].state, FALSE, TRUE)
                  /\ after = SendError(t, s.deliveries[id].epoch)
<1>1. s.deliveries \in [DOMAIN s.deliveries -> Delivery] /\ s.deliveries[id] \in Delivery
  BY LedgerElim DEF SessionType
<1> DEFINE d == [s.deliveries[id] EXCEPT !.retryInProgress = FALSE, !.releaseTimer = TRUE]
<1>2. Revised(s.deliveries[id], d, s.deliveries[id].state, FALSE, TRUE)
  BY <1>1 DEF Revised, Delivery
<1>3. [s EXCEPT !.deliveries[id].retryInProgress = FALSE, !.deliveries[id].releaseTimer = TRUE]
      = [s EXCEPT !.deliveries[id] = d]
  BY <1>1 DEF SessionType, Delivery
<1>4. after = SendError([s EXCEPT !.deliveries[id] = d], s.deliveries[id].epoch)
  BY <1>3, Zenon DEF RecoveryFailed
<1> HIDE DEF d
<1> QED
  BY <1>2, <1>4, Zenon DEF Revises

LEMMA SendAgainEffect ==
    ASSUME NEW s \in SessionType, NEW id \in DOMAIN s.deliveries,
           NEW after, after = SendAgain(s, id)
    PROVE  \/ \E t : /\ Revises(s, t, id, s.deliveries[id].state, FALSE, s.deliveries[id].releaseTimer)
                     /\ after = Closing(t)
           \/ /\ ~s.closed /\ Len(s.frames) < FrameCapacity
              /\ LET frame == TileFrame("RETRY", s.deliveries[id].epoch, 0, id, NoImage)
                 IN frame \in Frame /\ after = Queued(s, frame)
<1>1. /\ s.deliveries \in [DOMAIN s.deliveries -> Delivery] /\ s.deliveries[id] \in Delivery
      /\ id \in Nat
  BY LedgerElim DEF SessionType
<1>2. CASE Refuses(s)
  <2> DEFINE d == [s.deliveries[id] EXCEPT !.retryInProgress = FALSE]
  <2>1. Revised(s.deliveries[id], d, s.deliveries[id].state, FALSE, s.deliveries[id].releaseTimer)
    BY <1>1 DEF Revised, Delivery
  <2>2. [s EXCEPT !.deliveries[id].retryInProgress = FALSE] = [s EXCEPT !.deliveries[id] = d]
    BY <1>1 DEF SessionType, Delivery
  <2>3. after = Closing([s EXCEPT !.deliveries[id] = d])
    BY <1>2, <2>2, Zenon DEF SendAgain
  <2> HIDE DEF d
  <2> QED
    BY <2>1, <2>3, Zenon DEF Revises
<1>3. CASE ~Refuses(s)
  <2>1. ~s.closed /\ Len(s.frames) < FrameCapacity
    BY <1>3, ConstantsAssumption DEF Refuses, SessionType
  <2>2. TileFrame("RETRY", s.deliveries[id].epoch, 0, id, NoImage) \in Frame
    BY <1>1 DEF TileFrame, Frame, PlainKinds, SomeImage, Delivery
  <2> QED
    BY <1>3, <2>1, <2>2 DEF SendAgain
<1> QED
  BY <1>2, <1>3

LEMMA WrittenEffect ==
    ASSUME NEW s \in SessionType, NEW id, NEW after, after = Written(s, id)
    PROVE  \/ /\ after = s
              /\ id \in DOMAIN s.deliveries => s.deliveries[id].state = "WRITTEN_AWAITING_RELEASE"
           \/ Revises(s, after, id, "WRITTEN_AWAITING_RELEASE", s.deliveries[id].retryInProgress, TRUE)
<1>1. CASE id \in DOMAIN s.deliveries /\ s.deliveries[id].state # "WRITTEN_AWAITING_RELEASE"
  <2>1. s.deliveries \in [DOMAIN s.deliveries -> Delivery] /\ s.deliveries[id] \in Delivery
    BY <1>1, LedgerElim DEF SessionType
  <2> DEFINE d == [s.deliveries[id] EXCEPT !.state = "WRITTEN_AWAITING_RELEASE", !.releaseTimer = TRUE]
  <2>2. Revised(s.deliveries[id], d, "WRITTEN_AWAITING_RELEASE",
                s.deliveries[id].retryInProgress, TRUE)
    BY <2>1 DEF Revised, Delivery
  <2>3. [s EXCEPT !.deliveries[id].state = "WRITTEN_AWAITING_RELEASE",
                  !.deliveries[id].releaseTimer = TRUE] = [s EXCEPT !.deliveries[id] = d]
    BY <1>1, <2>1 DEF SessionType, Delivery
  <2>4. after = [s EXCEPT !.deliveries[id] = d]
    BY <1>1, <2>3, Zenon DEF Written
  <2> HIDE DEF d
  <2> QED
    BY <1>1, <2>2, <2>4, Zenon DEF Revises
<1>2. CASE ~(id \in DOMAIN s.deliveries /\ s.deliveries[id].state # "WRITTEN_AWAITING_RELEASE")
  BY <1>2 DEF Written
<1> QED
  BY <1>1, <1>2

--------------------------------------------------------------------------------
\* The inductive invariant

Once(seq, S) == \A i, j \in 1..Len(seq) : seq[i] \in S /\ seq[j] \in S => i = j

None(seq, S) == \A i \in 1..Len(seq) : seq[i] \notin S

\* Of the tasks, frames and reads in three sets there is at most one, all told.
AtMostOne(tasks, ts, frames, fs, reads, rs) ==
    /\ Once(tasks, ts) /\ Once(frames, fs)
    /\ \A x, y \in reads : x \in rs /\ y \in rs => x = y
    /\ None(tasks, ts) \/ None(frames, fs)
    /\ None(tasks, ts) \/ \A x \in reads : x \notin rs
    /\ None(frames, fs) \/ \A x \in reads : x \notin rs

Absent(tasks, ts, frames, fs, reads, rs) ==
    None(tasks, ts) /\ None(frames, fs) /\ \A x \in reads : x \notin rs

\* The frames the socket does not have yet.
Waiting(s) == IF s.writing THEN Tail(s.frames) ELSE s.frames

\* What stands for the turn, for the PLAN, for the DONE and for the tile under
\* way of the plan of a generation.
PermitTasks == {t \in Task : t.kind = "PERMIT"}
PermitTasksOf(g) == {t \in Task : t.kind = "PERMIT" /\ t.generation = g}
OpenReads == {r \in Read : r.kind = "TILE" /\ ~r.complete}

PlanTasks(g) == {t \in Task : t.kind = "PLAN_COMMITTED" /\ t.generation = g}
PlanFrames(g) == {f \in Frame : f.kind = "PLAN" /\ f.generation = g}
DoneTasks(g) == {t \in Task : t.kind = "DONE_COMMITTED" /\ t.generation = g}
DoneFrames(g) == {f \in Frame : f.kind = "DONE" /\ f.generation = g}
TileTasks(g) == {t \in Task : t.kind \in {"TILE_READ", "TILE_WRITTEN"} /\ t.generation = g}
TileFrames(g) == {f \in Frame : f.kind = "TILE" /\ f.generation = g}
TileReadsOf(g) == {r \in Read : r.kind = "TILE" /\ r.generation = g}

\* The ledger.
Gone(s) == s.closed /\ s.activePlan = NoPlan /\ s.deliveries = <<>> /\ s.freeWindowBytes = 0

Account(s) ==
    /\ \A id \in DOMAIN s.deliveries : 0 < id /\ id < s.nextDeliveryId
    /\ 0 < s.nextDeliveryId /\ s.nextDeliveryId <= MaxDeliveryId + 1
    /\ Cardinality(DOMAIN s.deliveries) <= MaxInFlight
    /\ CreditHolds(s) \/ Gone(s)
    /\ ~s.closed /\ s.state = "ESPERA_HELLO" => s.deliveries = <<>> /\ s.activePlan = NoPlan

\* The queues: their bounds, and nothing in them is of a generation or has an
\* id that does not exist yet.
GenerationKinds == {"PLAN_COMMITTED", "DONE_COMMITTED", "PERMIT", "TILE_WRITTEN", "TILE_READ"}

TasksHold(s) ==
    /\ Len(s.tasks) <= TaskCapacity
    /\ \A i \in 1..Len(s.tasks) :
          s.tasks[i].kind \in GenerationKinds => s.tasks[i].generation <= s.planGeneration

FramesHold(s) ==
    /\ Len(s.frames) <= FrameCapacity
    /\ s.writing => s.frames # <<>>
    /\ \A i \in 1..Len(s.frames) :
          s.frames[i].generation <= s.planGeneration /\ s.frames[i].id < s.nextDeliveryId
    /\ \A i, j \in 1..Len(s.frames) :
          s.frames[i] = s.frames[j] /\ s.frames[i].generation > 0 => i = j

ReadsHold(s) == \A r \in s.reads : r.kind = "TILE" => r.generation <= s.planGeneration

Queues(s) == TasksHold(s) /\ FramesHold(s) /\ ReadsHold(s)

\* The turn in the DRR admission.
NoTurn(s) == Absent(s.tasks, PermitTasks, <<>>, {}, s.reads, OpenReads)

Turn(s) ==
    /\ AtMostOne(s.tasks, PermitTasks, <<>>, {}, s.reads, OpenReads)
    /\ s.turn = "held" <=> ~NoTurn(s)
    /\ s.turn = "queued" => s.activePlan.readWait

\* The stages of the active plan.
PlanAbsent(s, g) == Absent(s.tasks, PlanTasks(g), Waiting(s), PlanFrames(g), {}, {})
DoneAbsent(s, g) == Absent(s.tasks, DoneTasks(g), Waiting(s), DoneFrames(g), {}, {})
TileAbsent(s, g) == Absent(s.tasks, TileTasks(g), s.frames, TileFrames(g), s.reads, TileReadsOf(g))

Underway(plan) == IF plan.busy \/ plan.pendingTile > 0 THEN 1 ELSE 0

Progress(plan, closed) ==
    /\ plan.tiles > 0
    /\ plan.next <= plan.tiles
    /\ plan.sentTiles + Underway(plan) <= plan.next
    /\ ~closed => plan.sentTiles + Underway(plan) = plan.next
    /\ ~plan.planCommitted => plan.next = 0
    /\ plan.busy => plan.pendingTile = 0
    /\ plan.doneQueued => plan.next = plan.tiles /\ Underway(plan) = 0
    /\ plan.readWait => plan.planCommitted /\ plan.next < plan.tiles /\ Underway(plan) = 0

PlanStage(s, plan) ==
    LET g == plan.generation IN
    /\ AtMostOne(s.tasks, PlanTasks(g), Waiting(s), PlanFrames(g), {}, {})
    /\ plan.planCommitted => PlanAbsent(s, g)
    /\ ~s.closed /\ PlanAbsent(s, g) => plan.planCommitted

DoneStage(s, plan) ==
    LET g == plan.generation IN
    /\ AtMostOne(s.tasks, DoneTasks(g), Waiting(s), DoneFrames(g), {}, {})
    /\ ~plan.doneQueued => DoneAbsent(s, g) /\ None(s.frames, DoneFrames(g))
    /\ ~s.closed /\ DoneAbsent(s, g) => ~plan.doneQueued

TileStage(s, plan) ==
    LET g == plan.generation IN
    /\ AtMostOne(s.tasks, TileTasks(g), s.frames, TileFrames(g), s.reads, TileReadsOf(g))
    /\ ~plan.busy => TileAbsent(s, g)
    /\ ~s.closed /\ TileAbsent(s, g) => ~plan.busy

TurnStage(s, plan) ==
    LET g == plan.generation IN
    /\ ~plan.readWait => None(s.tasks, PermitTasksOf(g))
    /\ ~s.closed /\ plan.readWait => s.turn = "queued" \/ ~None(s.tasks, PermitTasksOf(g))

Stage(s) ==
    /\ s.activePlan.generation = s.planGeneration
    /\ Progress(s.activePlan, s.closed)
    /\ PlanStage(s, s.activePlan)
    /\ DoneStage(s, s.activePlan)
    /\ TileStage(s, s.activePlan)
    /\ TurnStage(s, s.activePlan)

Stages(s) == s.activePlan # NoPlan => Stage(s)

--------------------------------------------------------------------------------
\* Sequences that lose their head, gain an element or are filtered

LEMMA TailFacts ==
    ASSUME NEW T, NEW seq \in Seq(T), seq # <<>>
    PROVE  /\ Tail(seq) \in Seq(T) /\ Len(Tail(seq)) = Len(seq) - 1 /\ Len(seq) \in Nat \ {0}
           /\ Head(seq) = seq[1] /\ Head(seq) \in T
           /\ \A i \in 1..Len(Tail(seq)) : i + 1 \in 2..Len(seq) /\ Tail(seq)[i] = seq[i + 1]
<1>1. Len(seq) \in Nat \ {0}
  BY EmptySeq
<1>2. Tail(seq) \in Seq(T) /\ Len(Tail(seq)) = Len(seq) - 1 /\ Head(seq) \in T
  BY HeadTailProperties
<1>3. \A i \in 1..Len(Tail(seq)) : i + 1 \in 2..Len(seq) /\ Tail(seq)[i] = seq[i + 1]
  BY <1>1, <1>2, HeadTailProperties
<1> QED
  BY <1>1, <1>2, <1>3, HeadTailProperties

LEMMA TailTokens ==
    ASSUME NEW T, NEW seq \in Seq(T), seq # <<>>, NEW S
    PROVE  /\ Once(seq, S) => Once(Tail(seq), S)
           /\ None(seq, S) => None(Tail(seq), S)
           /\ Once(seq, S) /\ Head(seq) \in S => None(Tail(seq), S)
           /\ Head(seq) \notin S /\ None(Tail(seq), S) => None(seq, S)
<1> DEFINE rest == Tail(seq)
<1>1. /\ rest \in Seq(T) /\ Len(rest) = Len(seq) - 1 /\ Len(seq) \in Nat \ {0}
      /\ Head(seq) = seq[1]
      /\ \A i \in 1..Len(rest) : i + 1 \in 2..Len(seq) /\ rest[i] = seq[i + 1]
  BY TailFacts
<1> HIDE DEF rest
<1>2. 1 \in 1..Len(seq) /\ Len(rest) \in Nat
  BY <1>1
<1>3. ASSUME Once(seq, S) PROVE Once(rest, S)
  <2> SUFFICES ASSUME NEW i \in 1..Len(rest), NEW j \in 1..Len(rest), rest[i] \in S, rest[j] \in S
               PROVE  i = j
    BY DEF Once
  <2>1. i + 1 \in 1..Len(seq) /\ j + 1 \in 1..Len(seq) /\ seq[i + 1] \in S /\ seq[j + 1] \in S
    BY <1>1, <1>2
  <2>2. i + 1 = j + 1
    BY <1>3, <2>1 DEF Once
  <2> QED
    BY <1>2, <2>2
<1>4. ASSUME None(seq, S) PROVE None(rest, S)
  BY <1>1, <1>2, <1>4 DEF None
<1>5. ASSUME Once(seq, S), Head(seq) \in S PROVE None(rest, S)
  <2> SUFFICES ASSUME NEW i \in 1..Len(rest), rest[i] \in S PROVE FALSE
    BY DEF None
  <2>1. i + 1 \in 1..Len(seq) /\ seq[i + 1] \in S /\ i + 1 # 1
    BY <1>1, <1>2
  <2> QED
    BY <1>1, <1>2, <1>5, <2>1 DEF Once
<1>6. ASSUME Head(seq) \notin S, None(rest, S) PROVE None(seq, S)
  <2> SUFFICES ASSUME NEW i \in 1..Len(seq), seq[i] \in S PROVE FALSE
    BY DEF None
  <2>1. i # 1
    BY <1>1, <1>6
  <2>2. i - 1 \in 1..Len(rest) /\ (i - 1) + 1 = i
    BY <1>1, <2>1
  <2>3. rest[i - 1] = seq[i]
    BY <1>1, <2>2
  <2> QED
    BY <1>6, <2>2, <2>3 DEF None
<1> QED
  BY <1>3, <1>4, <1>5, <1>6 DEF rest

LEMMA AppendFacts ==
    ASSUME NEW T, NEW seq \in Seq(T), NEW e \in T
    PROVE  /\ Append(seq, e) \in Seq(T) /\ Len(seq) \in Nat /\ Len(Append(seq, e)) = Len(seq) + 1
           /\ Append(seq, e) # <<>>
           /\ Append(seq, e)[Len(seq) + 1] = e
           /\ \A i \in 1..Len(seq) : Append(seq, e)[i] = seq[i]
           /\ \A i \in 1..Len(Append(seq, e)) : i = Len(seq) + 1 \/ i \in 1..Len(seq)
<1>1. /\ Append(seq, e) \in Seq(T) /\ Len(seq) \in Nat /\ Len(Append(seq, e)) = Len(seq) + 1
      /\ Append(seq, e)[Len(seq) + 1] = e
      /\ \A i \in 1..Len(seq) : Append(seq, e)[i] = seq[i]
  BY AppendProperties
<1>2. Append(seq, e) # <<>>
  BY <1>1
<1> QED
  BY <1>1, <1>2

LEMMA AppendTokens ==
    ASSUME NEW T, NEW seq \in Seq(T), NEW e \in T, NEW S
    PROVE  /\ Once(seq, S) /\ e \notin S => Once(Append(seq, e), S)
           /\ None(seq, S) /\ e \notin S => None(Append(seq, e), S)
           /\ None(seq, S) => Once(Append(seq, e), S)
           /\ e \in S => ~None(Append(seq, e), S)
           /\ None(Append(seq, e), S) => None(seq, S)
<1> DEFINE more == Append(seq, e)
<1>1. /\ Len(seq) \in Nat /\ Len(more) = Len(seq) + 1
      /\ more[Len(seq) + 1] = e
      /\ \A i \in 1..Len(seq) : more[i] = seq[i]
      /\ \A i \in 1..Len(more) : i = Len(seq) + 1 \/ i \in 1..Len(seq)
  BY AppendFacts
<1> HIDE DEF more
<1>2. Len(seq) + 1 \in 1..Len(more) /\ \A i \in 1..Len(seq) : i \in 1..Len(more)
  BY <1>1
<1>3. Once(seq, S) /\ e \notin S => Once(more, S)
  BY <1>1 DEF Once
<1>4. None(seq, S) /\ e \notin S => None(more, S)
  BY <1>1 DEF None
<1>5. None(seq, S) => Once(more, S)
  BY <1>1 DEF Once, None
<1>6. e \in S => ~None(more, S)
  BY <1>1, <1>2 DEF None
<1>7. None(more, S) => None(seq, S)
  BY <1>1, <1>2 DEF None
<1> QED
  BY <1>3, <1>4, <1>5, <1>6, <1>7 DEF more

LEMMA RemainsTokens ==
    ASSUME NEW T, NEW seq \in Seq(T), NEW rest \in Seq(T), NEW cancelled,
           Remains(rest, seq, cancelled, Len(seq)), NEW S
    PROVE  /\ Once(seq, S) => Once(rest, S)
           /\ None(seq, S) => None(rest, S)
<1>1. PICK place \in [1..Len(rest) -> 1..Len(seq)] :
          /\ \A i \in 1..Len(rest) : rest[i] = seq[place[i]] /\ rest[i] \notin cancelled
          /\ \A i, j \in 1..Len(rest) : i < j => place[i] < place[j]
  BY DEF Remains
<1>2. Len(rest) \in Nat /\ \A i \in 1..Len(rest) : place[i] \in 1..Len(seq)
  BY <1>1
<1>3. ASSUME NEW i \in 1..Len(rest), NEW j \in 1..Len(rest), place[i] = place[j] PROVE i = j
  BY <1>1, <1>2, <1>3
<1>4. ASSUME Once(seq, S) PROVE Once(rest, S)
  BY <1>1, <1>2, <1>3, <1>4 DEF Once
<1>5. ASSUME None(seq, S) PROVE None(rest, S)
  BY <1>1, <1>2, <1>5 DEF None
<1> QED
  BY <1>4, <1>5

\* The first frame, if it is not cancelled, remains the first.
LEMMA RemainsHead ==
    ASSUME NEW T, NEW seq \in Seq(T), NEW rest \in Seq(T), NEW cancelled,
           Remains(rest, seq, cancelled, Len(seq)), seq # <<>>, seq[1] \notin cancelled
    PROVE  rest # <<>> /\ rest[1] = seq[1]
<1>1. PICK place \in [1..Len(rest) -> 1..Len(seq)] :
          /\ \A i \in 1..Len(rest) : rest[i] = seq[place[i]] /\ rest[i] \notin cancelled
          /\ \A i, j \in 1..Len(rest) : i < j => place[i] < place[j]
          /\ \A k \in 1..Len(seq) :
                seq[k] \notin cancelled => \E i \in 1..Len(rest) : place[i] = k
  BY DEF Remains
<1>2. Len(seq) \in Nat \ {0} /\ Len(rest) \in Nat
  BY EmptySeq
<1>3. PICK i \in 1..Len(rest) : place[i] = 1
  BY <1>1, <1>2
<1>4. i = 1
  <2> SUFFICES ASSUME i # 1 PROVE FALSE
    OBVIOUS
  <2>1. 1 \in 1..Len(rest) /\ 1 < i
    BY <1>2
  <2>2. place[1] < 1 /\ place[1] \in 1..Len(seq)
    BY <1>1, <1>3, <2>1
  <2> QED
    BY <1>2, <2>2
<1>5. 1 \in 1..Len(rest) /\ rest[1] = seq[1]
  BY <1>1, <1>3, <1>4
<1> QED
  BY <1>5, EmptySeq

\* Nothing changed for what is in S.
Alike(seq, other, S) == (Once(seq, S) => Once(other, S)) /\ (None(seq, S) <=> None(other, S))

LEMMA AlikeAppend ==
    ASSUME NEW T, NEW seq \in Seq(T), NEW e \in T, NEW S, e \notin S
    PROVE  Alike(seq, Append(seq, e), S)
BY AppendTokens DEF Alike

LEMMA AlikeTail ==
    ASSUME NEW T, NEW seq \in Seq(T), seq # <<>>, NEW S, Head(seq) \notin S
    PROVE  Alike(seq, Tail(seq), S)
BY TailTokens DEF Alike

\* Waiting, when a frame is added, given to the socket and written.
LEMMA WaitingFacts ==
    ASSUME NEW s \in SessionType, FramesHold(s)
    PROVE  /\ Waiting(s) \in Seq(Frame)
           /\ \A i \in 1..Len(Waiting(s)) : \E j \in 1..Len(s.frames) : Waiting(s)[i] = s.frames[j]
           /\ \A S : None(s.frames, S) => None(Waiting(s), S)
<1>1. s.frames \in Seq(Frame) /\ s.writing \in BOOLEAN
  BY DEF SessionType
<1>2. CASE s.writing
  <2>1. s.frames # <<>>
    BY <1>2 DEF FramesHold
  <2>2. Waiting(s) = Tail(s.frames)
    BY <1>2 DEF Waiting
  <2>3. \A i \in 1..Len(Tail(s.frames)) : i + 1 \in 1..Len(s.frames) /\ Tail(s.frames)[i] = s.frames[i + 1]
    BY <1>1, <2>1, TailFacts
  <2>4. Tail(s.frames) \in Seq(Frame)
    BY <1>1, <2>1, TailFacts
  <2>5. \A S : None(s.frames, S) => None(Tail(s.frames), S)
    BY <1>1, <2>1, TailTokens
  <2> QED
    BY <2>2, <2>3, <2>4, <2>5
<1>3. CASE ~s.writing
  BY <1>1, <1>3 DEF Waiting
<1> QED
  BY <1>1, <1>2, <1>3

LEMMA WaitingGrows ==
    ASSUME NEW s \in SessionType, FramesHold(s), NEW t \in SessionType, NEW frame \in Frame,
           t.frames = Append(s.frames, frame), t.writing = s.writing
    PROVE  Waiting(t) = Append(Waiting(s), frame)
<1>1. s.frames \in Seq(Frame)
  BY DEF SessionType
<1>2. CASE s.writing
  <2>1. s.frames # <<>>
    BY <1>2 DEF FramesHold
  <2>2. Tail(Append(s.frames, frame)) = Append(Tail(s.frames), frame)
    BY <1>1, <2>1
  <2> QED
    BY <1>2, <2>2 DEF Waiting
<1>3. CASE ~s.writing
  BY <1>3 DEF Waiting
<1> QED
  BY <1>2, <1>3

LEMMA TaskFields ==
    ASSUME NEW t \in Task
    PROVE  /\ t.kind \in TaskKinds
           /\ t.kind = "HELLO" => t.ok \in BOOLEAN
           /\ t.kind \in {"OPEN", "VIEW", "OPENED"} => t.epoch \in Nat /\ t.image \in SomeImage
           /\ t.kind = "OPENED" => t.ok \in BOOLEAN
           /\ t.kind \in {"RELEASE", "TILE_COMMITTED", "RETRY_WRITTEN", "RELEASE_TIMEOUT",
                          "TILE_WRITTEN", "RETRY_READ"} => t.id \in Nat
           /\ t.kind = "ACK_STATE" => t.epoch \in Nat /\ t.received \in SUBSET Nat /\ t.missing \in Nat
           /\ t.kind \in GenerationKinds => t.generation \in Nat \ {0}
           /\ t.kind = "TILE_READ" => t.bytes \in Nat
           /\ t.kind = "RETRY_READ" => t.ok \in BOOLEAN
BY DEF Task, TaskKinds, GenerationKinds

LEMMA FrameFields ==
    ASSUME NEW f \in Frame
    PROVE  /\ f.kind \in PlainKinds \cup PlanKinds /\ f.epoch \in Nat /\ f.id \in Nat
           /\ f.count \in Nat /\ f.image \in SomeImage /\ f.generation \in Nat
           /\ f.kind \in PlainKinds <=> f.generation = 0
           /\ f.kind \in PlanKinds <=> f.generation > 0
BY DEF Frame, PlainKinds, PlanKinds

LEMMA ReadFields ==
    ASSUME NEW r \in Read
    PROVE  /\ r.kind \in {"TILE", "RETRY"}
           /\ r.kind = "TILE" => r.generation \in Nat \ {0} /\ r.bytes \in Nat /\ r.complete \in BOOLEAN
           /\ r.kind = "RETRY" => r.id \in Nat
BY DEF Read

\* A task that runs has left the queue.
LEMMA RanEffect ==
    ASSUME NEW s \in SessionType, s.tasks # <<>>, NEW after, after = Ran(s)
    PROVE  /\ after \in SessionType
           /\ SamePlan(s, after) /\ SameTurn(s, after) /\ SameCredit(s, after) /\ SameView(s, after)
           /\ SameFrames(s, after) /\ after.closed = s.closed /\ after.state = s.state
           /\ after.tasks = Tail(s.tasks)
           /\ Head(s.tasks) \in Task
<1>1. Tail(s.tasks) \in Seq(Task) /\ Head(s.tasks) \in Task
  BY HeadTailProperties DEF SessionType
<1> DEFINE rest == Tail(s.tasks)
<1>2. after = [s EXCEPT !.tasks = rest]
  BY DEF Ran, SessionType
<1> HIDE DEF rest
<1> QED
  BY <1>1, <1>2 DEF rest, SessionType, SamePlan, SameTurn, SameCredit, SameView, SameFrames

--------------------------------------------------------------------------------
\* The ledger through the operators

LEMMA AccountSame ==
    ASSUME NEW s \in SessionType, NEW t \in SessionType, Account(s),
           SameCredit(s, t), SamePlan(s, t), s.closed => t.closed,
           ~t.closed /\ t.state = "ESPERA_HELLO" => s.state = "ESPERA_HELLO"
    PROVE  Account(t)
BY DEF Account, SameCredit, SamePlan, CreditHolds, Gone

\* A session with an active plan was greeted, and has its credit.
LEMMA AccountLive ==
    ASSUME NEW s \in SessionType, Account(s), s.activePlan # NoPlan \/ ~s.closed
    PROVE  /\ CreditHolds(s)
           /\ s.activePlan # NoPlan => s.closed \/ s.state # "ESPERA_HELLO"
BY DEF Account, Gone

LEMMA AccountLoses ==
    ASSUME NEW s \in SessionType, NEW t \in SessionType, Account(s), NEW ids,
           Loses(s.deliveries, t.deliveries, ids),
           t.nextDeliveryId = s.nextDeliveryId,
           CreditHolds(t), s.closed \/ s.state # "ESPERA_HELLO", Ends(s, t)
    PROVE  Account(t)
<1>1. IsFiniteSet(DOMAIN s.deliveries)
  BY LedgerElim DEF SessionType
<1>2. DOMAIN t.deliveries \subseteq DOMAIN s.deliveries
  BY DEF Loses
<1>3. /\ Cardinality(DOMAIN t.deliveries) <= Cardinality(DOMAIN s.deliveries)
      /\ Cardinality(DOMAIN t.deliveries) \in Nat /\ Cardinality(DOMAIN s.deliveries) \in Nat
  BY <1>1, <1>2, FS_Subset, FS_CardinalityType
<1>4. Cardinality(DOMAIN t.deliveries) <= MaxInFlight
  BY <1>3, ConstantsAssumption DEF Account
<1>5. ~(~t.closed /\ t.state = "ESPERA_HELLO")
  BY DEF Ends
<1> QED
  BY <1>2, <1>4, <1>5 DEF Account

LEMMA AccountReserves ==
    ASSUME NEW s \in SessionType, NEW t \in SessionType, Account(s), s.activePlan # NoPlan,
           ~LacksCredit(s), s.nextDeliveryId <= MaxDeliveryId,
           Cardinality(DOMAIN s.deliveries) < MaxInFlight, t = Reserve(s)
    PROVE  Account(t) /\ t.closed = s.closed /\ Ends(s, t) /\ CreditHolds(t)
<1>8. s.nextDeliveryId \in Nat /\ \A id \in DOMAIN s.deliveries : id \in Nat
  BY DeliveryField DEF SessionType
<1>1. s.nextDeliveryId \notin DOMAIN s.deliveries
  BY <1>8 DEF Account
<1>2. CreditHolds(s) /\ (s.closed \/ s.state # "ESPERA_HELLO")
  BY AccountLive
<1>3. /\ Ends(s, t)
      /\ t.nextDeliveryId = s.nextDeliveryId + 1
      /\ DOMAIN t.deliveries = DOMAIN s.deliveries \cup {s.nextDeliveryId}
      /\ CreditHolds(t) /\ t.closed = s.closed
  BY <1>1, <1>2, ReserveEffect DEF Adds
<1>4. IsFiniteSet(DOMAIN s.deliveries)
  BY LedgerElim DEF SessionType
<1>5. Cardinality(DOMAIN t.deliveries) = Cardinality(DOMAIN s.deliveries) + 1
  <2> DEFINE ids == DOMAIN s.deliveries
             id == s.nextDeliveryId
  <2> HIDE DEF ids, id
  <2>1. IsFiniteSet(ids) /\ id \notin ids
    BY <1>1, <1>4 DEF ids, id
  <2>2. Cardinality(ids \cup {id}) = Cardinality(ids) + 1
    BY <2>1, FS_AddElement
  <2> QED
    BY <1>3, <2>2 DEF ids, id
<1>6. Cardinality(DOMAIN s.deliveries) \in Nat
  BY <1>4, FS_CardinalityType
<1>7. Cardinality(DOMAIN t.deliveries) <= MaxInFlight
  BY <1>5, <1>6, ConstantsAssumption
<1>9. \A id \in DOMAIN t.deliveries : 0 < id /\ id < t.nextDeliveryId
  BY <1>3, <1>8 DEF Account
<1>10. ~(~t.closed /\ t.state = "ESPERA_HELLO")
  BY <1>2, <1>3 DEF Ends
<1> QED
  BY <1>3, <1>7, <1>8, <1>9, <1>10, ConstantsAssumption DEF Account

--------------------------------------------------------------------------------
\* The queues through the operators

LEMMA TasksSame ==
    ASSUME NEW s \in SessionType, NEW t \in SessionType, TasksHold(s),
           t.tasks = s.tasks, t.planGeneration >= s.planGeneration
    PROVE  TasksHold(t)
<1>1. \A i \in 1..Len(s.tasks) : s.tasks[i].kind \in GenerationKinds => s.tasks[i].generation \in Nat
  <2>1. \A i \in 1..Len(s.tasks) : s.tasks[i] \in Task
    BY DEF SessionType
  <2> QED
    BY <2>1, TaskFields
<1>2. s.planGeneration \in Nat /\ t.planGeneration \in Nat
  BY DEF SessionType
<1> QED
  BY <1>1, <1>2 DEF TasksHold

LEMMA TasksGrow ==
    ASSUME NEW s \in SessionType, NEW t \in SessionType, TasksHold(s), NEW new \in Task,
           t.planGeneration = s.planGeneration,
           \/ t.tasks = Append(s.tasks, new) /\ Len(s.tasks) < TaskCapacity
           \/ t.tasks = s.tasks,
           new.kind \in GenerationKinds => new.generation <= s.planGeneration
    PROVE  TasksHold(t)
<1>1. s.tasks \in Seq(Task)
  BY DEF SessionType
<1>2. CASE t.tasks = Append(s.tasks, new) /\ Len(s.tasks) < TaskCapacity
  <2>1. /\ Len(s.tasks) \in Nat /\ Len(t.tasks) = Len(s.tasks) + 1
        /\ t.tasks[Len(s.tasks) + 1] = new
        /\ \A i \in 1..Len(s.tasks) : t.tasks[i] = s.tasks[i]
        /\ \A i \in 1..Len(t.tasks) : i = Len(s.tasks) + 1 \/ i \in 1..Len(s.tasks)
    BY <1>1, <1>2, AppendFacts
  <2> QED
    BY <1>2, <2>1, ConstantsAssumption DEF TasksHold
<1>3. CASE t.tasks = s.tasks
  BY <1>3 DEF TasksHold
<1> QED
  BY <1>2, <1>3

LEMMA TasksShrink ==
    ASSUME NEW s \in SessionType, NEW t \in SessionType, TasksHold(s), s.tasks # <<>>,
           t.tasks = Tail(s.tasks), t.planGeneration = s.planGeneration
    PROVE  TasksHold(t)
<1>1. /\ Len(t.tasks) = Len(s.tasks) - 1 /\ Len(s.tasks) \in Nat \ {0}
      /\ \A i \in 1..Len(t.tasks) : i + 1 \in 1..Len(s.tasks) /\ t.tasks[i] = s.tasks[i + 1]
  BY TailFacts DEF SessionType
<1> QED
  BY <1>1, ConstantsAssumption DEF TasksHold

LEMMA FramesSame ==
    ASSUME NEW s \in SessionType, NEW t \in SessionType, FramesHold(s), SameFrames(s, t),
           t.planGeneration >= s.planGeneration, t.nextDeliveryId >= s.nextDeliveryId
    PROVE  FramesHold(t)
<1>1. \A i \in 1..Len(s.frames) : s.frames[i].generation \in Nat /\ s.frames[i].id \in Nat
  <2>1. \A i \in 1..Len(s.frames) : s.frames[i] \in Frame
    <3>1. s.frames \in Seq(Frame)
      BY DEF SessionType
    <3> QED
      BY <3>1
  <2> QED
    BY <2>1, FrameFields
<1>2. /\ s.planGeneration \in Nat /\ t.planGeneration \in Nat
      /\ s.nextDeliveryId \in Nat /\ t.nextDeliveryId \in Nat
  BY DEF SessionType
<1> QED
  BY <1>1, <1>2 DEF FramesHold, SameFrames

LEMMA FramesGrow ==
    ASSUME NEW s \in SessionType, NEW t \in SessionType, FramesHold(s), NEW frame \in Frame,
           t.frames = Append(s.frames, frame), Len(s.frames) < FrameCapacity,
           t.planGeneration = s.planGeneration, t.nextDeliveryId = s.nextDeliveryId,
           frame.generation <= s.planGeneration, frame.id < s.nextDeliveryId,
           frame.generation = 0 \/ None(s.frames, {frame})
    PROVE  FramesHold(t)
<1>1. s.frames \in Seq(Frame)
  BY DEF SessionType
<1>2. /\ Len(s.frames) \in Nat /\ Len(t.frames) = Len(s.frames) + 1
      /\ t.frames[Len(s.frames) + 1] = frame
      /\ \A i \in 1..Len(s.frames) : t.frames[i] = s.frames[i]
      /\ \A i \in 1..Len(t.frames) : i = Len(s.frames) + 1 \/ i \in 1..Len(s.frames)
      /\ t.frames # <<>>
  BY <1>1, AppendFacts
<1>3. \A i, j \in 1..Len(t.frames) : t.frames[i] = t.frames[j] /\ t.frames[i].generation > 0 => i = j
  <2> SUFFICES ASSUME NEW i \in 1..Len(t.frames), NEW j \in 1..Len(t.frames),
                      t.frames[i] = t.frames[j], t.frames[i].generation > 0
               PROVE  i = j
    OBVIOUS
  <2>1. CASE i \in 1..Len(s.frames) /\ j \in 1..Len(s.frames)
    BY <1>2, <2>1 DEF FramesHold
  <2>2. CASE i = Len(s.frames) + 1 /\ j = Len(s.frames) + 1
    BY <2>2
  <2>3. CASE i \in 1..Len(s.frames) /\ j = Len(s.frames) + 1
    <3>1. s.frames[i] = frame /\ frame.generation > 0
      BY <1>2, <2>3
    <3> QED
      BY <2>3, <3>1, FrameFields DEF None
  <2>4. CASE j \in 1..Len(s.frames) /\ i = Len(s.frames) + 1
    <3>1. s.frames[j] = frame /\ frame.generation > 0
      BY <1>2, <2>4
    <3> QED
      BY <2>4, <3>1, FrameFields DEF None
  <2> QED
    BY <1>2, <2>1, <2>2, <2>3, <2>4
<1>4. \A i \in 1..Len(t.frames) :
         t.frames[i].generation <= t.planGeneration /\ t.frames[i].id < t.nextDeliveryId
  BY <1>2 DEF FramesHold
<1>5. Len(t.frames) <= FrameCapacity
  BY <1>2, ConstantsAssumption
<1> QED
  BY <1>2, <1>3, <1>4, <1>5 DEF FramesHold

\* The frame the socket has is not one that the end of the plan cancels.
LEMMA HeadIsNotWithdrawn ==
    ASSUME NEW s \in SessionType, FramesHold(s), s.writing
    PROVE  s.frames # <<>> /\ s.frames[1] \notin Withdrawn(s)
<1>1. s.frames # <<>> /\ s.frames \in Seq(Frame)
  BY DEF FramesHold, SessionType
<1>2. SUFFICES ASSUME s.frames[1] \in Withdrawn(s) PROVE FALSE
  BY <1>1
<1>3. /\ s.activePlan # NoPlan
      /\ s.frames[1].generation = s.activePlan.generation
      /\ Cancellable(s, s.frames[1])
  BY <1>2 DEF Withdrawn, Uncommitted
<1>4. s.frames[1].generation > 0
  BY <1>3 DEF SessionType, ActivePlan
<1>5. PICK i \in 2..Len(s.frames) : s.frames[i] = s.frames[1]
  BY <1>3 DEF Cancellable
<1>6. Len(s.frames) \in Nat \ {0}
  BY <1>1, EmptySeq
<1> QED
  BY <1>4, <1>5, <1>6 DEF FramesHold

LEMMA FramesRemain ==
    ASSUME NEW s \in SessionType, NEW t \in SessionType, FramesHold(s),
           Remains(t.frames, s.frames, Withdrawn(s), Len(s.frames)), t.writing = s.writing,
           t.planGeneration >= s.planGeneration, t.nextDeliveryId = s.nextDeliveryId
    PROVE  FramesHold(t)
<1>1. s.frames \in Seq(Frame) /\ t.frames \in Seq(Frame)
  BY DEF SessionType
<1>2. PICK place \in [1..Len(t.frames) -> 1..Len(s.frames)] :
          /\ \A i \in 1..Len(t.frames) : t.frames[i] = s.frames[place[i]]
          /\ \A i, j \in 1..Len(t.frames) : i < j => place[i] < place[j]
  BY DEF Remains
<1>3. /\ Len(t.frames) \in Nat /\ Len(s.frames) \in Nat /\ Len(t.frames) <= Len(s.frames)
      /\ \A i \in 1..Len(t.frames) : place[i] \in 1..Len(s.frames)
  <2>1. Len(t.frames) \in Nat /\ Len(s.frames) \in Nat
    BY <1>1
  <2>2. Len(t.frames) <= Len(s.frames)
    BY DEF Remains
  <2>3. \A i \in 1..Len(t.frames) : place[i] \in 1..Len(s.frames)
    OBVIOUS
  <2> QED
    BY <2>1, <2>2, <2>3
<1>4. t.writing => t.frames # <<>>
  <2> SUFFICES ASSUME t.writing PROVE t.frames # <<>>
    OBVIOUS
  <2>1. s.frames # <<>> /\ s.frames[1] \notin Withdrawn(s)
    BY HeadIsNotWithdrawn
  <2> QED
    BY <1>1, <2>1, RemainsHead
<1>5. \A i \in 1..Len(t.frames) :
         t.frames[i].generation <= t.planGeneration /\ t.frames[i].id < t.nextDeliveryId
  <2> SUFFICES ASSUME NEW i \in 1..Len(t.frames)
               PROVE  t.frames[i].generation <= t.planGeneration /\ t.frames[i].id < t.nextDeliveryId
    OBVIOUS
  <2>1. /\ t.frames[i] = s.frames[place[i]]
        /\ s.frames[place[i]].generation <= s.planGeneration /\ s.frames[place[i]].id < s.nextDeliveryId
    BY <1>2, <1>3 DEF FramesHold
  <2>2. t.frames[i].generation \in Nat
    BY <1>1, FrameFields
  <2>3. s.planGeneration \in Nat /\ t.planGeneration \in Nat
    BY DEF SessionType
  <2> QED
    BY <2>1, <2>2, <2>3
<1>6. \A i, j \in 1..Len(t.frames) : t.frames[i] = t.frames[j] /\ t.frames[i].generation > 0 => i = j
  <2> SUFFICES ASSUME NEW i \in 1..Len(t.frames), NEW j \in 1..Len(t.frames),
                      t.frames[i] = t.frames[j], t.frames[i].generation > 0
               PROVE  i = j
    OBVIOUS
  <2>1. place[i] = place[j]
    BY <1>2, <1>3, SMTT(30) DEF FramesHold
  <2> QED
    BY <1>2, <1>3, <2>1
<1>7. Len(t.frames) <= FrameCapacity
  BY <1>3, ConstantsAssumption DEF FramesHold
<1> QED
  BY <1>4, <1>5, <1>6, <1>7 DEF FramesHold

LEMMA ReadsSame ==
    ASSUME NEW s \in SessionType, NEW t \in SessionType, ReadsHold(s),
           \A r \in t.reads : r \in s.reads \/ r.kind # "TILE" \/ r.generation <= t.planGeneration,
           t.planGeneration >= s.planGeneration
    PROVE  ReadsHold(t)
<1>1. \A r \in s.reads : r.kind = "TILE" => r.generation \in Nat
  BY ReadFields DEF SessionType
<1>2. s.planGeneration \in Nat /\ t.planGeneration \in Nat
  BY DEF SessionType
<1> QED
  BY <1>1, <1>2 DEF ReadsHold

--------------------------------------------------------------------------------
\* The turn through the operators

LEMMA TurnSame ==
    ASSUME NEW s \in SessionType, NEW t \in SessionType, Turn(s),
           Alike(s.tasks, t.tasks, PermitTasks),
           \A r \in OpenReads : r \in t.reads <=> r \in s.reads,
           t.turn = s.turn, t.turn = "queued" => t.activePlan.readWait
    PROVE  Turn(t)
<1>1. \A x \in s.reads : x \in OpenReads => x \in t.reads
  OBVIOUS
<1>2. \A x \in t.reads : x \in OpenReads => x \in s.reads
  OBVIOUS
<1>3. NoTurn(t) <=> NoTurn(s)
  BY <1>1, <1>2 DEF NoTurn, Absent, Alike
<1>4. AtMostOne(t.tasks, PermitTasks, <<>>, {}, t.reads, OpenReads)
  BY <1>1, <1>2 DEF Turn, AtMostOne, Alike
<1> QED
  BY <1>3, <1>4 DEF Turn

\* Nobody has the turn.
LEMMA TurnFree ==
    ASSUME NEW s \in SessionType, NoTurn(s), s.turn # "held",
           s.turn = "queued" => s.activePlan.readWait
    PROVE  Turn(s)
<1>1. Once(s.tasks, PermitTasks) /\ Once(<<>>, {})
  BY DEF NoTurn, Absent, None, Once
<1> QED
  BY <1>1 DEF Turn, NoTurn, Absent, AtMostOne

\* A plan that ends gives up the turn it waited for, not the one it has.
LEMMA TurnAfterPlan ==
    ASSUME NEW s \in SessionType, NEW t \in SessionType, Turn(s), t.tasks = s.tasks, t.reads = s.reads,
           t.turn = TurnWithout(s)
    PROVE  Turn(t) /\ t.turn # "queued"
<1>1. t.turn # "queued"
  BY DEF Turn, TurnWithout
<1>2. CASE s.turn = "queued"
  <2>1. NoTurn(t) /\ t.turn = "none"
    BY <1>2 DEF Turn, TurnWithout, NoTurn
  <2> QED
    BY <1>1, <2>1, TurnFree
<1>3. CASE s.turn # "queued"
  <2>1. t.turn = s.turn
    BY <1>3 DEF TurnWithout
  <2>2. Alike(s.tasks, t.tasks, PermitTasks)
    BY DEF Alike
  <2> QED
    BY <1>1, <2>1, <2>2, TurnSame
<1> QED
  BY <1>2, <1>3

--------------------------------------------------------------------------------
\* The stages of the plan through the operators

\* The tasks and the frames say the same of the plan of generation g.
AlikeTasks(s, t, g) ==
    /\ Alike(s.tasks, t.tasks, PlanTasks(g)) /\ Alike(s.tasks, t.tasks, DoneTasks(g))
    /\ Alike(s.tasks, t.tasks, TileTasks(g)) /\ Alike(s.tasks, t.tasks, PermitTasksOf(g))

AlikeFrames(s, t, g) ==
    /\ Alike(Waiting(s), Waiting(t), PlanFrames(g))
    /\ Alike(Waiting(s), Waiting(t), DoneFrames(g)) /\ Alike(s.frames, t.frames, DoneFrames(g))
    /\ Alike(s.frames, t.frames, TileFrames(g))

AlikeReads(s, t, g) == \A r \in TileReadsOf(g) : r \in t.reads <=> r \in s.reads

LEMMA AlikeTasksSame ==
    ASSUME NEW s, NEW t, t.tasks = s.tasks, NEW g
    PROVE  AlikeTasks(s, t, g)
BY DEF AlikeTasks, Alike

LEMMA AlikeFramesSame ==
    ASSUME NEW s, NEW t, SameFrames(s, t), NEW g
    PROVE  AlikeFrames(s, t, g)
<1>1. Waiting(t) = Waiting(s)
  BY DEF Waiting, SameFrames
<1> QED
  BY <1>1 DEF AlikeFrames, Alike, SameFrames

\* A frame outside the plan is queued.
LEMMA AlikeFramesGrow ==
    ASSUME NEW s \in SessionType, FramesHold(s), NEW t \in SessionType, NEW frame \in Frame,
           t.frames = Append(s.frames, frame), t.writing = s.writing, NEW g, frame.generation # g
    PROVE  AlikeFrames(s, t, g)
<1>1. frame \notin PlanFrames(g) /\ frame \notin DoneFrames(g) /\ frame \notin TileFrames(g)
  BY DEF PlanFrames, DoneFrames, TileFrames
<1>2. Waiting(t) = Append(Waiting(s), frame) /\ Waiting(s) \in Seq(Frame) /\ s.frames \in Seq(Frame)
  BY WaitingGrows, WaitingFacts DEF SessionType
<1> QED
  BY <1>1, <1>2, AlikeAppend DEF AlikeFrames

LEMMA PlanStageKept ==
    ASSUME NEW s, NEW t, NEW plan, NEW other, PlanStage(s, plan),
           other.generation = plan.generation, other.planCommitted = plan.planCommitted,
           s.closed => t.closed,
           Alike(s.tasks, t.tasks, PlanTasks(plan.generation)),
           Alike(Waiting(s), Waiting(t), PlanFrames(plan.generation))
    PROVE  PlanStage(t, other)
<1>1. PlanAbsent(t, plan.generation) <=> PlanAbsent(s, plan.generation)
  BY DEF PlanAbsent, Absent, Alike
<1>2. AtMostOne(t.tasks, PlanTasks(plan.generation), Waiting(t), PlanFrames(plan.generation), {}, {})
  BY DEF PlanStage, AtMostOne, Alike
<1> QED
  BY <1>1, <1>2 DEF PlanStage

LEMMA DoneStageKept ==
    ASSUME NEW s, NEW t, NEW plan, NEW other, DoneStage(s, plan),
           other.generation = plan.generation, other.doneQueued = plan.doneQueued,
           s.closed => t.closed,
           Alike(s.tasks, t.tasks, DoneTasks(plan.generation)),
           Alike(Waiting(s), Waiting(t), DoneFrames(plan.generation)),
           Alike(s.frames, t.frames, DoneFrames(plan.generation))
    PROVE  DoneStage(t, other)
<1>1. DoneAbsent(t, plan.generation) <=> DoneAbsent(s, plan.generation)
  BY DEF DoneAbsent, Absent, Alike
<1>2. AtMostOne(t.tasks, DoneTasks(plan.generation), Waiting(t), DoneFrames(plan.generation), {}, {})
  BY DEF DoneStage, AtMostOne, Alike
<1>3. None(t.frames, DoneFrames(plan.generation)) <=> None(s.frames, DoneFrames(plan.generation))
  BY DEF Alike
<1> QED
  BY <1>1, <1>2, <1>3 DEF DoneStage

LEMMA TileStageKept ==
    ASSUME NEW s, NEW t, NEW plan, NEW other, TileStage(s, plan),
           other.generation = plan.generation, other.busy = plan.busy,
           s.closed => t.closed,
           Alike(s.tasks, t.tasks, TileTasks(plan.generation)),
           Alike(s.frames, t.frames, TileFrames(plan.generation)),
           AlikeReads(s, t, plan.generation)
    PROVE  TileStage(t, other)
<1> DEFINE g == plan.generation
<1>1. TileAbsent(t, g) <=> TileAbsent(s, g)
  <2>1. (\A x \in t.reads : x \notin TileReadsOf(g)) <=> (\A x \in s.reads : x \notin TileReadsOf(g))
    BY DEF AlikeReads
  <2> QED
    BY <2>1 DEF TileAbsent, Absent, Alike
<1>2. AtMostOne(t.tasks, TileTasks(g), t.frames, TileFrames(g), t.reads, TileReadsOf(g))
  <2>1. (\A x \in t.reads : x \notin TileReadsOf(g)) <=> (\A x \in s.reads : x \notin TileReadsOf(g))
    BY DEF AlikeReads
  <2>2. \A x, y \in t.reads : x \in TileReadsOf(g) /\ y \in TileReadsOf(g) => x = y
    BY DEF AlikeReads, TileStage, AtMostOne
  <2> QED
    BY <2>1, <2>2 DEF TileStage, AtMostOne, Alike
<1> QED
  BY <1>1, <1>2 DEF TileStage

LEMMA TurnStageKept ==
    ASSUME NEW s, NEW t, NEW plan, NEW other, TurnStage(s, plan),
           other.generation = plan.generation, other.readWait = plan.readWait,
           s.closed => t.closed, t.turn = s.turn,
           Alike(s.tasks, t.tasks, PermitTasksOf(plan.generation))
    PROVE  TurnStage(t, other)
BY DEF TurnStage, Alike

\* Nothing changes for the active plan.
LEMMA StageKept ==
    ASSUME NEW s \in SessionType, NEW t \in SessionType, Stages(s), SamePlan(s, t),
           s.closed => t.closed, t.turn = s.turn,
           AlikeTasks(s, t, s.activePlan.generation),
           AlikeFrames(s, t, s.activePlan.generation),
           AlikeReads(s, t, s.activePlan.generation)
    PROVE  Stages(t)
<1> SUFFICES ASSUME s.activePlan # NoPlan PROVE Stage(t)
  BY DEF Stages, SamePlan
<1>1. Stage(s)
  BY DEF Stages
<1>2. t.activePlan = s.activePlan /\ t.planGeneration = s.planGeneration
  BY DEF SamePlan
<1>3. PlanStage(t, s.activePlan)
  BY <1>1, PlanStageKept DEF Stage, AlikeTasks, AlikeFrames
<1>4. DoneStage(t, s.activePlan)
  BY <1>1, DoneStageKept DEF Stage, AlikeTasks, AlikeFrames
<1>5. TileStage(t, s.activePlan)
  BY <1>1, TileStageKept DEF Stage, AlikeTasks, AlikeFrames
<1>6. TurnStage(t, s.activePlan)
  BY <1>1, TurnStageKept DEF Stage, AlikeTasks
<1>7. Progress(s.activePlan, t.closed)
  BY <1>1 DEF Stage, Progress
<1> QED
  BY <1>1, <1>2, <1>3, <1>4, <1>5, <1>6, <1>7 DEF Stage

--------------------------------------------------------------------------------
\* The invariant of the session, through the operators

SessionInv(s) ==
    /\ s \in SessionType
    /\ Account(s) /\ Queues(s) /\ Turn(s) /\ Stages(s)

\* Closing, and a control outside the plan.
LEMMA OnlyEndsHolds ==
    ASSUME NEW s, SessionInv(s), NEW t \in SessionType, OnlyEnds(s, t), s.closed => t.closed
    PROVE  SessionInv(t)
<1>1. /\ s \in SessionType /\ SamePlan(s, t) /\ SameCredit(s, t) /\ SameFrames(s, t)
      /\ t.tasks = s.tasks /\ t.turn = s.turn /\ t.reads = s.reads /\ Ends(s, t)
  BY DEF SessionInv, OnlyEnds, SameTurn
<1>2. /\ s.planGeneration \in Nat /\ t.planGeneration = s.planGeneration
      /\ s.nextDeliveryId \in Nat /\ t.nextDeliveryId = s.nextDeliveryId
  BY <1>1 DEF SessionType, SamePlan, SameCredit
<1>3. Account(t)
  BY <1>1, AccountSame DEF SessionInv, Ends
<1>4. Queues(t)
  BY <1>1, <1>2, TasksSame, FramesSame, ReadsSame DEF SessionInv, Queues
<1>5. Turn(t)
  BY <1>1, TurnSame DEF SessionInv, Alike, Turn, SamePlan
<1>6. Stages(t)
  BY <1>1, StageKept, AlikeTasksSame, AlikeFramesSame DEF SessionInv, AlikeReads
<1> QED
  BY <1>3, <1>4, <1>5, <1>6 DEF SessionInv

LEMMA ClosingHolds ==
    ASSUME NEW s, SessionInv(s)
    PROVE  SessionInv(Closing(s)) /\ Closing(s).closed
BY ClosingEffect, OnlyEndsHolds DEF SessionInv

\* The frames grow by one that is not of the active plan.
LEMMA FrameAddedHolds ==
    ASSUME NEW s, SessionInv(s), NEW t \in SessionType, OnlyFrames(s, t), t.closed = s.closed,
           NEW frame \in Frame, t.frames = Append(s.frames, frame), Len(s.frames) < FrameCapacity,
           frame.generation = 0, frame.id < s.nextDeliveryId
    PROVE  SessionInv(t)
<1>1. /\ s \in SessionType /\ SamePlan(s, t) /\ SameCredit(s, t) /\ t.writing = s.writing
      /\ t.tasks = s.tasks /\ t.turn = s.turn /\ t.reads = s.reads /\ Ends(s, t)
  BY DEF SessionInv, OnlyFrames, SameTurn
<1>2. /\ s.planGeneration \in Nat /\ t.planGeneration = s.planGeneration
      /\ s.nextDeliveryId \in Nat /\ t.nextDeliveryId = s.nextDeliveryId
  BY <1>1 DEF SessionType, SamePlan, SameCredit
<1>3. Account(t)
  BY <1>1, AccountSame DEF SessionInv, Ends
<1>4. FramesHold(s)
  BY DEF SessionInv, Queues
<1>5. FramesHold(t)
  <2>1. frame.generation <= s.planGeneration
    BY <1>2
  <2> QED
    BY <1>1, <1>2, <1>4, <2>1, FramesGrow
<1>6. Queues(t)
  BY <1>1, <1>2, <1>5, TasksSame, ReadsSame DEF SessionInv, Queues
<1>7. Turn(t)
  BY <1>1, TurnSame DEF SessionInv, Alike, Turn, SamePlan
<1>8. Stages(t)
  <2>1. CASE s.activePlan = NoPlan
    BY <1>1, <2>1 DEF Stages, SamePlan
  <2>2. CASE s.activePlan # NoPlan
    <3>1. s.activePlan.generation # 0
      BY <1>1, <2>2 DEF SessionType, ActivePlan
    <3> QED
      BY <1>1, <1>4, <3>1, StageKept, AlikeTasksSame, AlikeFramesGrow DEF SessionInv, AlikeReads
  <2> QED
    BY <2>1, <2>2
<1> QED
  BY <1>3, <1>6, <1>7, <1>8 DEF SessionInv

LEMMA SendHolds ==
    ASSUME NEW s, SessionInv(s), NEW frame \in Frame, frame.generation = 0, frame.id = 0
    PROVE  SessionInv(Send(s, frame))
<1>1. s \in SessionType
  BY DEF SessionInv
<1>2. CASE s.closed
  BY <1>2 DEF Send
<1>3. CASE ~s.closed /\ Refuses(s)
  BY <1>3, ClosingHolds DEF Send
<1>4. CASE ~s.closed /\ ~Refuses(s)
  <2>1. Len(s.frames) < FrameCapacity
    BY <1>1, <1>4, ConstantsAssumption DEF Refuses, SessionType
  <2>2. Send(s, frame) = Queued(s, frame)
    BY <1>4 DEF Send
  <2>3. frame.id < s.nextDeliveryId
    BY DEF SessionInv, Account
  <2> QED
    BY <1>1, <2>1, <2>2, <2>3, QueuedEffect, FrameAddedHolds
<1> QED
  BY <1>2, <1>3, <1>4

LEMMA SendErrorHolds ==
    ASSUME NEW s, SessionInv(s), NEW epoch \in Nat
    PROVE  SessionInv(SendError(s, epoch))
<1>1. /\ Control("ERROR", epoch, NoImage) \in Frame
      /\ Control("ERROR", epoch, NoImage).generation = 0
      /\ Control("ERROR", epoch, NoImage).id = 0
  BY ControlIsFrame DEF PlainKinds, SomeImage
<1> QED
  BY <1>1, SendHolds DEF SendError

\* Only the ledger changes.
LEMMA LedgerHolds ==
    ASSUME NEW s, SessionInv(s), NEW t \in SessionType, Account(t),
           SamePlan(s, t), SameTurn(s, t), SameFrames(s, t), t.tasks = s.tasks, s.closed => t.closed,
           t.nextDeliveryId = s.nextDeliveryId
    PROVE  SessionInv(t)
<1>1. /\ s \in SessionType /\ t.turn = s.turn /\ t.reads = s.reads
      /\ s.planGeneration \in Nat /\ t.planGeneration = s.planGeneration
      /\ s.nextDeliveryId \in Nat
  BY DEF SessionInv, SessionType, SamePlan, SameTurn
<1>2. Queues(t)
  BY <1>1, TasksSame, FramesSame, ReadsSame DEF SessionInv, Queues
<1>3. Turn(t)
  BY <1>1, TurnSame DEF SessionInv, Alike, Turn, SamePlan
<1>4. Stages(t)
  BY <1>1, StageKept, AlikeTasksSame, AlikeFramesSame DEF SessionInv, AlikeReads
<1> QED
  BY <1>2, <1>3, <1>4 DEF SessionInv

LEMMA AcknowledgeHolds ==
    ASSUME NEW s, SessionInv(s), ~s.closed, s.state # "ESPERA_HELLO", NEW ids
    PROVE  /\ SessionInv(Acknowledge(s, ids))
           /\ ~Acknowledge(s, ids).closed /\ Acknowledge(s, ids).state = s.state
<1> DEFINE t == Acknowledge(s, ids)
<1>1. s \in SessionType /\ CreditHolds(s)
  BY AccountLive DEF SessionInv
<1>2. /\ t \in SessionType /\ OnlyCredit(s, t)
      /\ Loses(s.deliveries, t.deliveries, ids)
      /\ CreditHolds(t) /\ t.closed = s.closed
  BY <1>1, AcknowledgeEffect
<1> HIDE DEF t
<1>3. Account(t)
  BY <1>1, <1>2, AccountLoses DEF SessionInv, OnlyCredit
<1>4. SessionInv(t)
  BY <1>2, <1>3, LedgerHolds DEF OnlyCredit
<1>5. t.state = s.state /\ ~t.closed
  BY <1>2 DEF OnlyCredit, Ends
<1> QED
  BY <1>4, <1>5 DEF t

\* A delivery is revised.
LEMMA RevisesHolds ==
    ASSUME NEW s, SessionInv(s), NEW t, NEW id, NEW state, NEW retrying, NEW timer,
           Revises(s, t, id, state, retrying, timer)
    PROVE  /\ SessionInv(t)
           /\ SamePlan(s, t) /\ SameTurn(s, t) /\ SameView(s, t) /\ SameFrames(s, t)
<1>1. s \in SessionType
  BY DEF SessionInv
<1>6. PICK d : /\ Revised(s.deliveries[id], d, state, retrying, timer)
               /\ t = [s EXCEPT !.deliveries[id] = d]
  BY DEF Revises
<1>7. id \in DOMAIN s.deliveries
  BY DEF Revises
<1>2. d \in Delivery /\ d.reservedBytes = s.deliveries[id].reservedBytes
  BY <1>6 DEF Revised
<1>3. /\ t \in SessionType
      /\ SamePlan(s, t) /\ SameTurn(s, t) /\ SameView(s, t) /\ SameFrames(s, t)
      /\ t.tasks = s.tasks /\ t.closed = s.closed /\ t.state = s.state
      /\ t.nextDeliveryId = s.nextDeliveryId
      /\ DOMAIN t.deliveries = DOMAIN s.deliveries
      /\ t.deliveries[id] = d
      /\ \A other \in DOMAIN s.deliveries : other # id => t.deliveries[other] = s.deliveries[other]
      /\ CreditHolds(s) => CreditHolds(t)
  BY <1>1, <1>2, <1>6, <1>7, DeliveryEffect
<1>4. s.deliveries # <<>>
  BY <1>7, EmptyLedger
<1>5. Account(t)
  BY <1>3, <1>4 DEF SessionInv, Account, Gone, SamePlan
<1> QED
  BY <1>3, <1>5, LedgerHolds

LEMMA EmptyDomain ==
    ASSUME NEW ledger \in Ledgers, DOMAIN ledger = {}
    PROVE  ledger = <<>>
<1>1. ledger \in [{} -> Delivery]
  BY LedgerElim
<1> QED
  BY <1>1

LEMMA AccountEnds ==
    ASSUME NEW s \in SessionType, NEW t \in SessionType, Account(s), CreditHolds(s), PlanEnds(s, t)
    PROVE  Account(t)
<1>1. CASE s.closed \/ s.state # "ESPERA_HELLO"
  BY <1>1, AccountLoses DEF PlanEnds
<1>2. CASE ~(s.closed \/ s.state # "ESPERA_HELLO")
  <2>1. s.deliveries = <<>> /\ s.activePlan = NoPlan
    BY <1>2 DEF Account
  <2>2. DOMAIN t.deliveries = {}
    BY <2>1, EmptyLedger DEF PlanEnds, Loses
  <2>3. t.deliveries = <<>>
    BY <2>2, EmptyDomain DEF SessionType
  <2>4. t.activePlan = NoPlan /\ CreditHolds(t) /\ t.nextDeliveryId = s.nextDeliveryId
    BY DEF PlanEnds
  <2> QED
    BY <2>1, <2>3, <2>4 DEF Account
<1> QED
  BY <1>1, <1>2

LEMMA InvalidatePlanHolds ==
    ASSUME NEW s \in SessionType, Account(s), CreditHolds(s), Queues(s), Turn(s)
    PROVE  SessionInv(InvalidatePlan(s))
<1> DEFINE t == InvalidatePlan(s)
<1>1. /\ t \in SessionType /\ PlanEnds(s, t)
      /\ Remains(t.frames, s.frames, Withdrawn(s), Len(s.frames))
  BY InvalidatePlanEffect
<1> HIDE DEF t
<1>2. /\ t.activePlan = NoPlan /\ t.planGeneration = s.planGeneration + 1
      /\ t.turn = TurnWithout(s) /\ t.reads = s.reads
      /\ t.writing = s.writing /\ t.tasks = s.tasks
      /\ t.nextDeliveryId = s.nextDeliveryId
  BY <1>1 DEF PlanEnds
<1>3. t.planGeneration >= s.planGeneration
  BY <1>2 DEF SessionType
<1>4. TasksHold(t) /\ ReadsHold(t)
  BY <1>1, <1>2, <1>3, TasksSame, ReadsSame DEF Queues
<1>5. FramesHold(t)
  BY <1>1, <1>2, <1>3, FramesRemain DEF Queues
<1>6. Turn(t)
  BY <1>1, <1>2, TurnAfterPlan
<1>7. Account(t)
  BY <1>1, AccountEnds
<1>8. Stages(t)
  BY <1>2 DEF Stages
<1> QED
  BY <1>1, <1>4, <1>5, <1>6, <1>7, <1>8 DEF SessionInv, Queues, t

LEMMA FailPlanHolds ==
    ASSUME NEW s \in SessionType, s.activePlan # NoPlan, Account(s), Queues(s), Turn(s)
    PROVE  SessionInv(FailPlan(s))
<1>1. s.activePlan.epoch \in Nat
  BY DEF SessionType, ActivePlan
<1>2. SessionInv(InvalidatePlan(s))
  BY AccountLive, InvalidatePlanHolds
<1> QED
  BY <1>1, <1>2, SendErrorHolds DEF FailPlan

LEMMA DismantleHolds ==
    ASSUME NEW s, SessionInv(s)
    PROVE  SessionInv(Dismantle(s))
<1> DEFINE t == Dismantle(s)
<1>1. /\ t \in SessionType
      /\ t.closed
      /\ t.activePlan = NoPlan /\ t.planGeneration = s.planGeneration
      /\ t.turn = TurnWithout(s) /\ t.reads = s.reads
      /\ SameFrames(s, t) /\ t.tasks = s.tasks
      /\ t.deliveries = <<>> /\ t.freeWindowBytes = 0
      /\ t.nextDeliveryId = s.nextDeliveryId
  BY DismantleEffect DEF SessionInv
<1> HIDE DEF t
<1>2. s \in SessionType /\ s.planGeneration \in Nat /\ s.nextDeliveryId \in Nat
  BY DEF SessionInv, SessionType
<1>3. Queues(t)
  BY <1>1, <1>2, TasksSame, FramesSame, ReadsSame DEF SessionInv, Queues
<1>4. Turn(t)
  BY <1>1, <1>2, TurnAfterPlan DEF SessionInv
<1>5. Account(t)
  <2>1. Cardinality(DOMAIN t.deliveries) = 0
    BY <1>1, EmptyLedger, FS_EmptySet
  <2>2. DOMAIN t.deliveries = {}
    BY <1>1, EmptyLedger
  <2> QED
    BY <1>1, <1>2, <2>1, <2>2, ConstantsAssumption DEF SessionInv, Account, Gone
<1>6. Stages(t)
  BY <1>1 DEF Stages
<1> QED
  BY <1>1, <1>3, <1>4, <1>5, <1>6 DEF SessionInv, t

--------------------------------------------------------------------------------
\* A plan that begins

\* Its stages: the PLAN is the only thing of its generation in the queues.
LEMMA FreshStage ==
    ASSUME NEW s \in SessionType, NEW t \in SessionType, Queues(s),
           NEW rest \in Seq(Frame), Remains(rest, s.frames, Withdrawn(s), Len(s.frames)),
           t.writing = s.writing, t.tasks = s.tasks, t.reads = s.reads,
           t.planGeneration = s.planGeneration + 2, t.nextDeliveryId = s.nextDeliveryId,
           0 < s.nextDeliveryId,
           NEW epoch, Fresh(t.activePlan, t.planGeneration, epoch), Len(rest) < FrameCapacity,
           NEW frame \in Frame, t.frames = Append(rest, frame),
           frame = PlanControl("PLAN", t.activePlan, t.activePlan.tiles)
    PROVE  Stages(t) /\ FramesHold(t)
<1> DEFINE g == t.planGeneration
           old == [s EXCEPT !.frames = rest, !.planGeneration = g]
<1>1. /\ s.planGeneration \in Nat /\ g \in Nat /\ s.planGeneration < g /\ s.nextDeliveryId \in Nat
      /\ t.activePlan.generation = g
  BY DEF SessionType, Fresh
<1> HIDE DEF g
<1>2. /\ old \in SessionType /\ old.frames = rest /\ old.planGeneration = g
      /\ old.writing = s.writing /\ old.tasks = s.tasks /\ old.nextDeliveryId = s.nextDeliveryId
      /\ old.reads = s.reads
  BY <1>1 DEF SessionType
<1> HIDE DEF old
<1>3. FramesHold(old)
  BY <1>1, <1>2, FramesRemain DEF Queues
<1>4. /\ frame.generation = g /\ frame.id = 0 /\ frame.kind = "PLAN"
  BY <1>1 DEF PlanControl
<1>5. \A i \in 1..Len(rest) : rest[i].generation # g
  <2>1. \A i \in 1..Len(s.frames) : s.frames[i].generation # g
    <3> SUFFICES ASSUME NEW i \in 1..Len(s.frames) PROVE s.frames[i].generation # g
      OBVIOUS
    <3>1. s.frames[i].generation <= s.planGeneration /\ s.frames[i] \in Frame
      BY SMTT(30) DEF Queues, FramesHold, SessionType
    <3> QED
      BY <1>1, <3>1, FrameFields
  <2> DEFINE S == {f \in Frame : f.generation = g}
  <2>2. None(s.frames, S)
    BY <2>1 DEF None
  <2> HIDE DEF S
  <2>3. None(rest, S)
    BY <2>2, RemainsTokens DEF SessionType
  <2> QED
    BY <2>3 DEF None, S
<1>6. None(rest, PlanFrames(g)) /\ None(rest, DoneFrames(g)) /\ None(rest, TileFrames(g))
  BY <1>5 DEF None, PlanFrames, DoneFrames, TileFrames
<1>7. frame \in PlanFrames(g) /\ frame \notin DoneFrames(g) /\ frame \notin TileFrames(g)
  BY <1>4 DEF PlanFrames, DoneFrames, TileFrames
<1>8. FramesHold(t)
  <2>1. None(old.frames, {frame})
    BY <1>2, <1>4, <1>5 DEF None
  <2>2. frame.generation <= old.planGeneration /\ frame.id < old.nextDeliveryId
    BY <1>1, <1>2, <1>4
  <2> QED
    BY <1>2, <1>3, <2>1, <2>2, FramesGrow DEF g
<1>9. /\ Waiting(t) = Append(Waiting(old), frame) /\ Waiting(old) \in Seq(Frame)
      /\ None(Waiting(old), PlanFrames(g)) /\ None(Waiting(old), DoneFrames(g))
  BY <1>2, <1>3, <1>6, WaitingGrows, WaitingFacts
<1>10. /\ Once(Waiting(t), PlanFrames(g)) /\ ~None(Waiting(t), PlanFrames(g))
       /\ None(Waiting(t), DoneFrames(g))
       /\ None(t.frames, DoneFrames(g)) /\ None(t.frames, TileFrames(g))
  BY <1>6, <1>7, <1>9, AppendTokens
<1>11. /\ None(t.tasks, PlanTasks(g)) /\ None(t.tasks, DoneTasks(g)) /\ None(t.tasks, TileTasks(g))
       /\ None(t.tasks, PermitTasksOf(g))
  <2> SUFFICES ASSUME NEW i \in 1..Len(s.tasks)
               PROVE  /\ s.tasks[i] \notin PlanTasks(g) /\ s.tasks[i] \notin DoneTasks(g)
                      /\ s.tasks[i] \notin TileTasks(g) /\ s.tasks[i] \notin PermitTasksOf(g)
    BY DEF None
  <2>1. s.tasks[i].kind \in GenerationKinds => s.tasks[i].generation <= s.planGeneration
    BY DEF Queues, TasksHold
  <2>2. s.tasks[i] \in Task
    BY SMTT(30) DEF SessionType
  <2>3. s.tasks[i].kind \in GenerationKinds => s.tasks[i].generation # g
    BY <1>1, <2>1, <2>2, TaskFields
  <2> QED
    BY <2>3 DEF PlanTasks, DoneTasks, TileTasks, PermitTasksOf, GenerationKinds
<1>12. \A x \in t.reads : x \notin TileReadsOf(g)
  <2> SUFFICES ASSUME NEW r \in s.reads PROVE r \notin TileReadsOf(g)
    OBVIOUS
  <2>1. r.kind = "TILE" => r.generation <= s.planGeneration
    BY DEF Queues, ReadsHold
  <2>2. r.kind = "TILE" => r.generation # g
    BY <1>1, <2>1, ReadFields, SMTT(30) DEF SessionType
  <2> QED
    BY <2>2 DEF TileReadsOf
<1>13. PlanStage(t, t.activePlan)
  BY <1>1, <1>10, <1>11 DEF PlanStage, PlanAbsent, Absent, AtMostOne, None, Once, Fresh
<1>14. DoneStage(t, t.activePlan)
  BY <1>1, <1>10, <1>11 DEF DoneStage, DoneAbsent, Absent, AtMostOne, None, Once, Fresh
<1>15. TileStage(t, t.activePlan)
  BY <1>1, <1>10, <1>11, <1>12 DEF TileStage, TileAbsent, Absent, AtMostOne, None, Once, Fresh
<1>16. TurnStage(t, t.activePlan)
  BY <1>1, <1>11 DEF TurnStage, Fresh
<1>17. Progress(t.activePlan, t.closed)
  BY DEF Progress, Fresh, Underway
<1> QED
  BY <1>1, <1>8, <1>13, <1>14, <1>15, <1>16, <1>17 DEF Stages, Stage, g

LEMMA AcceptViewHolds ==
    ASSUME NEW s, SessionInv(s), ~s.closed, s.state # "ESPERA_HELLO", NEW epoch \in Nat
    PROVE  SessionInv(AcceptView(s, epoch))
<1> DEFINE t == AcceptView(s, epoch)
<1>0. /\ s \in SessionType /\ Account(s) /\ Queues(s) /\ Turn(s)
      /\ s.planGeneration \in Nat /\ s.nextDeliveryId \in Nat /\ 0 < s.nextDeliveryId
  BY DEF SessionInv, SessionType, Account
<1>b. t = AcceptView(s, epoch)
  OBVIOUS
<1> HIDE DEF t
<1>1. t \in SessionType /\ Replans(s, t, epoch) /\ \E rest \in Seq(Frame) : Announced(s, t, rest, epoch)
  BY <1>0, <1>b, AcceptViewEffect
<1>2. PICK rest \in Seq(Frame) : Announced(s, t, rest, epoch)
  BY <1>1
<1>a. /\ t.planGeneration = s.planGeneration + 2
      /\ t.turn = TurnWithout(s) /\ t.reads = s.reads
      /\ t.writing = s.writing /\ t.tasks = s.tasks
      /\ t.nextDeliveryId = s.nextDeliveryId
      /\ Loses(s.deliveries, t.deliveries, WithdrawnTiles(s))
      /\ CreditHolds(s) => CreditHolds(t)
  BY <1>1 DEF Replans
<1>3. CreditHolds(t)
  <2>1. CreditHolds(s)
    BY <1>0, AccountLive
  <2> QED
    BY <1>1, <1>a, <2>1
<1>4. Account(t)
  <2>1. Ends(s, t)
    BY <1>0, <1>1, <1>a, <1>2 DEF Ends, Announced, SessionType
  <2> QED
    BY <1>0, <1>1, <1>a, <1>3, <2>1, AccountLoses
<1>5. t.planGeneration >= s.planGeneration
  BY <1>0, <1>1, <1>a
<1>6. TasksHold(t) /\ ReadsHold(t)
  BY <1>0, <1>1, <1>a, <1>5, TasksSame, ReadsSame DEF Queues
<1>7. Turn(t)
  BY <1>0, <1>1, <1>a, TurnAfterPlan
<1>8. Stages(t) /\ FramesHold(t)
  <2>1. CASE t.closed /\ t.activePlan = NoPlan /\ t.frames = rest
    <3>1. FramesHold(t)
      BY <1>0, <1>1, <1>a, <1>2, <1>5, <2>1, FramesRemain DEF Queues, Announced
    <3> QED
      BY <2>1, <3>1 DEF Stages
  <2>2. CASE ~(t.closed /\ t.activePlan = NoPlan /\ t.frames = rest)
    <3> DEFINE frame == PlanControl("PLAN", t.activePlan, t.activePlan.tiles)
    <3>1. /\ Fresh(t.activePlan, t.planGeneration, epoch)
          /\ Len(rest) < FrameCapacity
          /\ frame \in Frame /\ t.frames = Append(rest, frame)
      BY <1>2, <2>2 DEF Announced
    <3> HIDE DEF frame
    <3>2. frame = PlanControl("PLAN", t.activePlan, t.activePlan.tiles)
      BY DEF frame
    <3> QED
      BY <1>0, <1>1, <1>a, <1>2, <3>1, <3>2, FreshStage DEF Announced
  <2> QED
    BY <2>1, <2>2
<1> QED
  BY <1>1, <1>a, <1>4, <1>6, <1>7, <1>8 DEF SessionInv, Queues, t

--------------------------------------------------------------------------------
\* The pump

\* The plan of an open session, with nothing under way.
Idle(s) ==
    /\ ~s.closed /\ s.activePlan # NoPlan
    /\ s.activePlan.planCommitted /\ ~s.activePlan.busy

LEMMA PlanFields ==
    ASSUME NEW s \in SessionType, s.activePlan # NoPlan
    PROVE  /\ s.activePlan \in ActivePlan
           /\ s.activePlan.generation \in Nat \ {0} /\ s.activePlan.epoch \in Nat
           /\ s.activePlan.tiles \in Nat /\ s.activePlan.next \in Nat
           /\ s.activePlan.sentTiles \in Nat /\ s.activePlan.pendingTile \in Nat
           /\ s.activePlan.planCommitted \in BOOLEAN /\ s.activePlan.doneQueued \in BOOLEAN
           /\ s.activePlan.busy \in BOOLEAN /\ s.activePlan.readWait \in BOOLEAN
           /\ s.planGeneration \in Nat /\ s.nextDeliveryId \in Nat
           /\ s.closed \in BOOLEAN
BY DEF SessionType, ActivePlan

\* The session keeps its ledger and is as open as it was.
LEMMA AccountKept ==
    ASSUME NEW s \in SessionType, NEW t \in SessionType, Account(s), s.activePlan # NoPlan,
           SameCredit(s, t), t.closed = s.closed, t.state = s.state
    PROVE  Account(t)
<1>1. CreditHolds(s) /\ (s.closed \/ s.state # "ESPERA_HELLO")
  BY AccountLive
<1> QED
  BY <1>1 DEF Account, SameCredit, CreditHolds

LEMMA StartTileReadHolds ==
    ASSUME NEW s \in SessionType, Account(s), Queues(s), NoTurn(s), s.turn # "queued",
           Stage(s), Idle(s), s.activePlan.pendingTile = 0, ~s.activePlan.readWait,
           s.activePlan.next < s.activePlan.tiles, NEW answer
    PROVE  SessionInv(StartTileRead(s, answer))
<1> DEFINE after == StartTileRead(s, answer)
           plan == s.activePlan
           g == plan.generation
<1>0. /\ plan # NoPlan /\ ~s.closed /\ plan \in ActivePlan /\ ~plan.busy /\ plan.planCommitted
      /\ g \in Nat \ {0} /\ g = s.planGeneration
      /\ plan.tiles \in Nat /\ plan.next \in Nat /\ plan.sentTiles \in Nat
      /\ s.planGeneration \in Nat /\ s.nextDeliveryId \in Nat
  BY PlanFields DEF Idle, Stage
<1>1. CASE \E t \in SessionType : ReadFails(s, t) /\ after = FailPlan(t)
  <2>0. PICK t \in SessionType : ReadFails(s, t) /\ after = FailPlan(t)
    BY <1>1
  <2>1. /\ t.activePlan = [plan EXCEPT !.next = @ + 1]
        /\ t.activePlan \in ActivePlan
        /\ t.planGeneration = s.planGeneration
        /\ t.turn = "none" /\ t.reads = s.reads
        /\ SameCredit(s, t) /\ SameView(s, t) /\ SameFrames(s, t)
        /\ t.tasks = s.tasks /\ t.closed = s.closed /\ t.state = s.state
    BY <2>0 DEF ReadFails
  <2>2. Account(t)
    BY <1>0, <2>1, AccountKept
  <2>3. Queues(t)
    BY <1>0, <2>1, TasksSame, FramesSame, ReadsSame DEF Queues, SameCredit
  <2>4. Turn(t)
    BY <2>1, TurnFree DEF NoTurn
  <2>5. t.activePlan # NoPlan
    BY <1>0, <2>1 DEF ActivePlan, NoPlan
  <2> QED
    BY <2>0, <2>2, <2>3, <2>4, <2>5, FailPlanHolds
<1>2. CASE after \in SessionType /\ ReadStarts(s, after)
  <2> DEFINE read == TileRead(plan)
             next == after.activePlan
  <2>0. /\ after \in SessionType
        /\ after.activePlan = [plan EXCEPT !.next = @ + 1, !.busy = TRUE]
        /\ after.activePlan \in ActivePlan
        /\ after.planGeneration = s.planGeneration
        /\ after.turn = "held" /\ after.reads = s.reads \cup {TileRead(plan)}
        /\ SameCredit(s, after) /\ SameView(s, after) /\ SameFrames(s, after)
        /\ after.tasks = s.tasks /\ after.closed = s.closed /\ after.state = s.state
    BY <1>2 DEF ReadStarts
  <2>1. /\ read.kind = "TILE" /\ read.generation = g /\ ~read.complete
        /\ read \in Read /\ read \in OpenReads /\ read \in TileReadsOf(g)
    BY <1>0 DEF TileRead, Read, OpenReads, TileReadsOf
  <2>2. /\ next.generation = g /\ next.next = plan.next + 1 /\ next.busy
        /\ next.tiles = plan.tiles /\ next.sentTiles = plan.sentTiles
        /\ next.planCommitted = plan.planCommitted /\ next.doneQueued = plan.doneQueued
        /\ next.readWait = plan.readWait /\ next.pendingTile = plan.pendingTile
    BY <1>0, <2>0 DEF ActivePlan
  <2> HIDE DEF read, after
  <2>3. after.reads = s.reads \cup {read} /\ after.tasks = s.tasks /\ SameFrames(s, after)
    BY <2>0 DEF read
  <2>4. Account(after)
    BY <1>0, <2>0, AccountKept
  <2>5. Queues(after)
    <3>1. \A r \in after.reads : r \in s.reads \/ r.kind # "TILE" \/ r.generation <= after.planGeneration
      BY <1>0, <2>0, <2>1, <2>3
    <3>2. after.planGeneration >= s.planGeneration /\ after.nextDeliveryId >= s.nextDeliveryId
      BY <1>0, <2>0 DEF SameCredit
    <3> QED
      BY <2>0, <2>3, <3>1, <3>2, TasksSame, FramesSame, ReadsSame DEF Queues
  <2>6. Turn(after)
    <3>1. None(s.tasks, PermitTasks) /\ None(<<>>, {}) /\ \A r \in s.reads : r \notin OpenReads
      BY DEF NoTurn, Absent
    <3>2. ~NoTurn(after)
      BY <2>1, <2>3 DEF NoTurn, Absent
    <3>3. \A x, y \in after.reads : x \in OpenReads /\ y \in OpenReads => x = y
      BY <2>3, <3>1
    <3>4. AtMostOne(after.tasks, PermitTasks, <<>>, {}, after.reads, OpenReads)
      BY <2>3, <3>1, <3>3 DEF AtMostOne, None, Once
    <3> QED
      BY <2>0, <3>2, <3>4 DEF Turn
  <2>7. PlanStage(after, next)
    BY <2>0, <2>2, <2>3, PlanStageKept, AlikeTasksSame, AlikeFramesSame DEF Stage, AlikeTasks, AlikeFrames
  <2>8. DoneStage(after, next)
    BY <2>0, <2>2, <2>3, DoneStageKept, AlikeTasksSame, AlikeFramesSame DEF Stage, AlikeTasks, AlikeFrames
  <2>9. TileStage(after, next)
    <3>1. TileAbsent(s, g)
      BY <1>0 DEF Stage, TileStage
    <3>2. /\ None(after.tasks, TileTasks(g)) /\ None(after.frames, TileFrames(g))
          /\ \A r \in s.reads : r \notin TileReadsOf(g)
      BY <2>3, <3>1 DEF TileAbsent, Absent, SameFrames
    <3>3. \A x, y \in after.reads : x \in TileReadsOf(g) /\ y \in TileReadsOf(g) => x = y
      BY <2>3, <3>2
    <3>4. ~TileAbsent(after, g)
      BY <2>1, <2>3 DEF TileAbsent, Absent
    <3>5. AtMostOne(after.tasks, TileTasks(g), after.frames, TileFrames(g), after.reads, TileReadsOf(g))
      BY <3>2, <3>3 DEF AtMostOne, None, Once
    <3> QED
      BY <2>2, <3>4, <3>5 DEF TileStage
  <2>10. TurnStage(after, next)
    BY <2>2, <2>3 DEF Stage, TurnStage
  <2>11. Progress(next, after.closed)
    <3>1. Progress(plan, s.closed)
      BY DEF Stage
    <3>2. Underway(plan) = 0 /\ Underway(next) = 1
      BY <1>0, <2>2 DEF Underway
    <3> QED
      BY <1>0, <2>0, <2>2, <3>1, <3>2 DEF Progress
  <2>12. Stages(after)
    BY <1>0, <2>0, <2>2, <2>7, <2>8, <2>9, <2>10, <2>11 DEF Stages, Stage
  <2> QED
    BY <2>0, <2>4, <2>5, <2>6, <2>12 DEF SessionInv, after
<1>3. after = StartTileRead(s, answer)
  OBVIOUS
<1> HIDE DEF after
<1> QED
  BY <1>0, <1>1, <1>2, <1>3, StartTileReadCases

LEMMA RequestTileReadHolds ==
    ASSUME NEW s, SessionInv(s), Idle(s), s.activePlan.pendingTile = 0, ~s.activePlan.readWait,
           s.activePlan.next < s.activePlan.tiles, NEW answer
    PROVE  SessionInv(RequestTileRead(s, answer))
<1>0. /\ s \in SessionType /\ Account(s) /\ Queues(s) /\ Turn(s) /\ Stage(s)
      /\ s.activePlan # NoPlan /\ ~s.closed
  BY DEF SessionInv, Stages, Idle
<1>1. CASE s.turn # "none"
  BY <1>1 DEF RequestTileRead
<1>2. CASE s.turn = "none" /\ answer = "turnsFull"
  BY <1>0, <1>2, FailPlanHolds DEF RequestTileRead
<1>3. CASE s.turn = "none" /\ answer = "queued"
  <2> DEFINE after == [s EXCEPT !.turn = "queued", !.activePlan.readWait = TRUE]
             next == after.activePlan
             plan == s.activePlan
             g == plan.generation
  <2>1. RequestTileRead(s, answer) = after
    BY <1>3 DEF RequestTileRead
  <2>2. /\ after \in SessionType
        /\ next = [plan EXCEPT !.readWait = TRUE]
        /\ next \in ActivePlan
        /\ after.planGeneration = s.planGeneration
        /\ after.turn = "queued" /\ after.reads = s.reads
        /\ SameCredit(s, after) /\ SameView(s, after) /\ SameFrames(s, after)
        /\ after.tasks = s.tasks /\ after.closed = s.closed /\ after.state = s.state
    BY <1>0, TurnQueuedEffect
  <2> HIDE DEF after
  <2>3. /\ next.generation = g /\ next.next = plan.next /\ next.busy = plan.busy
        /\ next.tiles = plan.tiles /\ next.sentTiles = plan.sentTiles
        /\ next.planCommitted = plan.planCommitted /\ next.doneQueued = plan.doneQueued
        /\ next.readWait /\ next.pendingTile = plan.pendingTile
    BY <1>0, <2>2, PlanFields DEF ActivePlan
  <2>4. Account(after)
    BY <1>0, <2>2, AccountKept
  <2>5. Queues(after)
    <3>1. after.planGeneration >= s.planGeneration /\ after.nextDeliveryId >= s.nextDeliveryId
      BY <1>0, <2>2, PlanFields DEF SameCredit
    <3> QED
      BY <1>0, <2>2, <3>1, TasksSame, FramesSame, ReadsSame DEF Queues
  <2>6. Turn(after)
    <3>1. NoTurn(after)
      BY <1>0, <1>3, <2>2 DEF Turn, NoTurn
    <3> QED
      BY <2>2, <2>3, <3>1, TurnFree
  <2>13. AlikeTasks(s, after, g) /\ AlikeFrames(s, after, g)
    BY <2>2, AlikeTasksSame, AlikeFramesSame
  <2>7. PlanStage(after, next)
    BY <1>0, <2>2, <2>3, <2>13, PlanStageKept DEF Stage, AlikeTasks, AlikeFrames
  <2>12. DoneStage(after, next)
    BY <1>0, <2>2, <2>3, <2>13, DoneStageKept DEF Stage, AlikeTasks, AlikeFrames
  <2>8. TileStage(after, next)
    BY <1>0, <2>2, <2>3, <2>13, TileStageKept DEF Stage, AlikeTasks, AlikeFrames, AlikeReads
  <2>9. TurnStage(after, next)
    BY <2>2, <2>3 DEF TurnStage
  <2>10. Progress(next, after.closed)
    <3>1. /\ Progress(plan, s.closed) /\ Underway(plan) = 0 /\ Underway(next) = 0
          /\ plan.planCommitted
      BY <1>0, <2>3 DEF Stage, Idle, Underway
    <3> QED
      BY <2>2, <2>3, <3>1 DEF Progress
  <2>11. Stages(after)
    BY <1>0, <2>2, <2>3, <2>7, <2>8, <2>9, <2>10, <2>12 DEF Stages, Stage
  <2> QED
    BY <2>1, <2>2, <2>4, <2>5, <2>6, <2>11 DEF SessionInv
<1>4. CASE s.turn = "none" /\ answer # "queued" /\ answer # "turnsFull"
  <2>1. NoTurn(s)
    BY <1>0, <1>4 DEF Turn
  <2>2. RequestTileRead(s, answer) = StartTileRead(s, answer)
    BY <1>4 DEF RequestTileRead
  <2> QED
    BY <1>0, <1>4, <2>1, <2>2, StartTileReadHolds
<1> QED
  BY <1>1, <1>2, <1>3, <1>4

\* The DONE of a plan whose tiles were all sent.
LEMMA SendDoneHolds ==
    ASSUME NEW s, SessionInv(s), Idle(s), s.activePlan.pendingTile = 0, ~s.activePlan.doneQueued,
           s.activePlan.next = s.activePlan.tiles
    PROVE  SessionInv(SendDone(s))
<1> DEFINE after == SendDone(s)
           next == after.activePlan
           plan == s.activePlan
           g == plan.generation
           frame == PlanControl("DONE", plan, plan.sentTiles)
<1>0. /\ s \in SessionType /\ Account(s) /\ Queues(s) /\ Turn(s) /\ Stage(s)
      /\ plan # NoPlan /\ ~s.closed /\ plan \in ActivePlan /\ ~plan.busy /\ plan.planCommitted
      /\ g \in Nat \ {0} /\ g = s.planGeneration
      /\ plan.tiles \in Nat /\ plan.next \in Nat /\ plan.sentTiles \in Nat
      /\ s.planGeneration \in Nat /\ s.nextDeliveryId \in Nat /\ 0 < s.nextDeliveryId
  BY PlanFields DEF SessionInv, Stages, Stage, Idle, Account
<1>1. /\ after \in SessionType
      /\ after.planGeneration = s.planGeneration
      /\ SameTurn(s, after) /\ SameView(s, after) /\ SameCredit(s, after)
      /\ after.tasks = s.tasks /\ after.writing = s.writing
      /\ \/ /\ after.closed /\ after.activePlan = NoPlan /\ after.frames = s.frames
         \/ /\ ~s.closed /\ ~after.closed /\ after.state = s.state
            /\ after.activePlan = [plan EXCEPT !.doneQueued = TRUE]
            /\ after.activePlan \in ActivePlan
            /\ Len(s.frames) < FrameCapacity
            /\ frame \in Frame /\ after.frames = Append(s.frames, frame)
  BY <1>0, SendDoneEffect
<1> HIDE DEF after, frame
<1>2. /\ s.turn # "queued" /\ Underway(plan) = 0
  BY <1>0 DEF Turn, Stage, Progress, Underway
<1>3. Turn(after)
  <2>1. Alike(s.tasks, after.tasks, PermitTasks)
    BY <1>1 DEF Alike
  <2> QED
    BY <1>0, <1>1, <1>2, <2>1, TurnSame DEF SameTurn
<1>4. after.planGeneration >= s.planGeneration /\ after.nextDeliveryId >= s.nextDeliveryId
  BY <1>0, <1>1 DEF SameCredit
<1>5. TasksHold(after) /\ ReadsHold(after)
  BY <1>0, <1>1, <1>4, TasksSame, ReadsSame DEF Queues, SameTurn
<1>6. Account(after)
  <2>1. CreditHolds(s) /\ s.state # "ESPERA_HELLO"
    BY <1>0, AccountLive
  <2> QED
    BY <1>0, <1>1, <2>1 DEF Account, SameCredit, CreditHolds
<1>7. CASE after.closed /\ after.activePlan = NoPlan /\ after.frames = s.frames
  <2>1. FramesHold(after)
    BY <1>0, <1>1, <1>4, <1>7, FramesSame DEF Queues, SameFrames
  <2> QED
    BY <1>1, <1>3, <1>5, <1>6, <1>7, <2>1 DEF SessionInv, Queues, Stages, after
<1>8. CASE ~(after.closed /\ after.activePlan = NoPlan /\ after.frames = s.frames)
  <2>1. /\ ~after.closed
        /\ next = [plan EXCEPT !.doneQueued = TRUE]
        /\ next \in ActivePlan
        /\ Len(s.frames) < FrameCapacity
        /\ frame \in Frame /\ after.frames = Append(s.frames, frame)
    BY <1>1, <1>8
  <2>2. /\ next.generation = g /\ next.next = plan.next /\ next.busy = plan.busy
        /\ next.tiles = plan.tiles /\ next.sentTiles = plan.sentTiles
        /\ next.planCommitted = plan.planCommitted /\ next.doneQueued
        /\ next.readWait = plan.readWait /\ next.pendingTile = plan.pendingTile
    BY <1>0, <2>1 DEF ActivePlan
  <2>3. /\ frame.generation = g /\ frame.id = 0 /\ frame.kind = "DONE"
        /\ frame \in DoneFrames(g) /\ frame \notin PlanFrames(g) /\ frame \notin TileFrames(g)
    BY <2>1 DEF frame, PlanControl, DoneFrames, PlanFrames, TileFrames
  <2>4. DoneAbsent(s, g) /\ None(s.frames, DoneFrames(g))
    BY <1>0 DEF Stage, DoneStage
  <2>5. FramesHold(after)
    <3>1. None(s.frames, {frame})
      BY <2>3, <2>4 DEF None
    <3>2. frame.generation <= s.planGeneration /\ frame.id < s.nextDeliveryId
      BY <1>0, <2>3
    <3> QED
      BY <1>0, <1>1, <2>1, <3>1, <3>2, FramesGrow DEF Queues, SameCredit
  <2>6. Waiting(after) = Append(Waiting(s), frame) /\ Waiting(s) \in Seq(Frame) /\ s.frames \in Seq(Frame)
    <3>1. FramesHold(s) /\ s.frames \in Seq(Frame)
      BY <1>0 DEF Queues, SessionType
    <3>2. Waiting(after) = Append(Waiting(s), frame)
      BY <1>0, <1>1, <2>1, <3>1, WaitingGrows
    <3> QED
      BY <1>0, <3>1, <3>2, WaitingFacts
  <2>7. PlanStage(after, next)
    <3>1. Alike(Waiting(s), Waiting(after), PlanFrames(g))
      BY <2>1, <2>3, <2>6, AlikeAppend
    <3>2. Alike(s.tasks, after.tasks, PlanTasks(g))
      BY <1>1 DEF Alike
    <3> QED
      BY <1>0, <2>2, <3>1, <3>2, PlanStageKept DEF Stage
  <2>8. DoneStage(after, next)
    <3>1. None(Waiting(s), DoneFrames(g)) /\ None(s.tasks, DoneTasks(g))
      BY <2>4 DEF DoneAbsent, Absent
    <3>2. Once(Waiting(after), DoneFrames(g)) /\ ~None(Waiting(after), DoneFrames(g))
      BY <2>1, <2>3, <2>6, <3>1, AppendTokens
    <3>3. AtMostOne(after.tasks, DoneTasks(g), Waiting(after), DoneFrames(g), {}, {})
      BY <1>1, <3>1, <3>2 DEF AtMostOne, None, Once
    <3>4. ~DoneAbsent(after, g)
      BY <3>2 DEF DoneAbsent, Absent
    <3> QED
      BY <2>2, <3>3, <3>4 DEF DoneStage
  <2>9. TileStage(after, next)
    <3>1. Alike(s.frames, after.frames, TileFrames(g))
      BY <2>1, <2>3, <2>6, AlikeAppend
    <3>2. Alike(s.tasks, after.tasks, TileTasks(g))
      BY <1>1 DEF Alike
    <3>3. AlikeReads(s, after, g)
      BY <1>1 DEF AlikeReads, SameTurn
    <3> QED
      BY <1>0, <2>2, <3>1, <3>2, <3>3, TileStageKept DEF Stage
  <2>10. TurnStage(after, next)
    <3>1. Alike(s.tasks, after.tasks, PermitTasksOf(g))
      BY <1>1 DEF Alike
    <3> QED
      BY <1>0, <1>1, <2>2, <3>1, TurnStageKept DEF Stage, SameTurn
  <2>11. Progress(next, after.closed)
    <3>1. Progress(plan, s.closed) /\ Underway(next) = 0
      BY <1>0, <1>2, <2>2 DEF Stage, Underway
    <3> QED
      BY <1>0, <1>2, <2>1, <2>2, <3>1 DEF Progress
  <2>12. Stages(after)
    BY <1>0, <1>1, <2>2, <2>7, <2>8, <2>9, <2>10, <2>11 DEF Stages, Stage
  <2> QED
    BY <1>1, <1>3, <1>5, <1>6, <2>5, <2>12 DEF SessionInv, Queues, after
<1> QED
  BY <1>7, <1>8

\* The tile pending is reserved and queued, or the session closes without it.
LEMMA SendTileHolds ==
    ASSUME NEW s, SessionInv(s), ~s.closed, s.activePlan # NoPlan, ~s.activePlan.busy,
           s.activePlan.pendingTile > 0, ~LacksCredit(s), s.nextDeliveryId <= MaxDeliveryId,
           Cardinality(DOMAIN s.deliveries) < MaxInFlight
    PROVE  SessionInv(SendTile(Reserve(s)))
<1> DEFINE r == Reserve(s)
           after == SendTile(r)
           plan == s.activePlan
           g == plan.generation
<1>0. /\ s \in SessionType /\ Account(s) /\ Queues(s) /\ Turn(s) /\ Stage(s)
      /\ g \in Nat \ {0} /\ g = s.planGeneration
      /\ plan \in ActivePlan
      /\ plan.tiles \in Nat /\ plan.next \in Nat /\ plan.sentTiles \in Nat /\ plan.pendingTile \in Nat
      /\ s.planGeneration \in Nat /\ s.nextDeliveryId \in Nat /\ 0 < s.nextDeliveryId
  BY PlanFields DEF SessionInv, Stages, Stage, Account
<1>1. s.nextDeliveryId \notin DOMAIN s.deliveries
  BY <1>0 DEF Account
<1>2. r \in SessionType
  BY <1>0, <1>1, ReserveEffect
<1>3. r.activePlan = [plan EXCEPT !.pendingTile = 0, !.busy = TRUE] /\ r.activePlan \in ActivePlan
  BY <1>0, <1>1, ReserveEffect
<1>4. /\ r.planGeneration = s.planGeneration
      /\ SameTurn(s, r) /\ SameFrames(s, r)
      /\ r.tasks = s.tasks /\ Ends(s, r)
      /\ r.nextDeliveryId = s.nextDeliveryId + 1
      /\ DOMAIN r.deliveries = DOMAIN s.deliveries \cup {s.nextDeliveryId}
  BY <1>0, <1>1, ReserveEffect DEF Adds
<1>6. r.activePlan # NoPlan
  BY <1>0, <1>3 DEF ActivePlan, NoPlan
<1>14. r = Reserve(s)
  OBVIOUS
<1> HIDE DEF r
<1>5. Account(r) /\ r.closed = s.closed /\ CreditHolds(r)
  BY <1>0, <1>2, <1>14, AccountReserves
<1>7. r.nextDeliveryId - 1 = s.nextDeliveryId /\ r.nextDeliveryId - 1 \in DOMAIN r.deliveries
  BY <1>0, <1>4
<1> DEFINE busy == r.activePlan
<1>8. /\ busy.generation = g /\ busy.next = plan.next /\ busy.busy
      /\ busy.tiles = plan.tiles /\ busy.sentTiles = plan.sentTiles
      /\ busy.planCommitted = plan.planCommitted /\ busy.doneQueued = plan.doneQueued
      /\ busy.readWait = plan.readWait /\ busy.pendingTile = 0
  BY <1>0, <1>3 DEF ActivePlan
<1>9. Progress(plan, s.closed) /\ Underway(plan) = 1
  BY <1>0 DEF Stage, Underway
<1>10. CASE /\ after \in SessionType /\ after.closed
            /\ after.activePlan = [busy EXCEPT !.busy = FALSE]
            /\ after.planGeneration = r.planGeneration
            /\ SameTurn(r, after) /\ SameFrames(r, after)
            /\ after.tasks = r.tasks
            /\ after.nextDeliveryId = r.nextDeliveryId
            /\ Loses(r.deliveries, after.deliveries, {r.nextDeliveryId - 1})
            /\ CreditHolds(after)
  <2> DEFINE next == after.activePlan
  <2> HIDE DEF after
  <2>1. /\ next.generation = g /\ next.next = plan.next /\ ~next.busy
        /\ next.tiles = plan.tiles /\ next.sentTiles = plan.sentTiles
        /\ next.planCommitted = plan.planCommitted /\ next.doneQueued = plan.doneQueued
        /\ next.readWait = plan.readWait /\ next.pendingTile = 0
    BY <1>3, <1>8, <1>10 DEF ActivePlan
  <2>2. Account(after)
    <3>1. r.closed \/ r.state # "ESPERA_HELLO"
      BY <1>2, <1>5, <1>6, AccountLive
    <3>2. Ends(r, after)
      BY <1>10 DEF Ends
    <3> QED
      BY <1>2, <1>5, <1>10, <3>1, <3>2, AccountLoses
  <2>3. SameTurn(s, after) /\ SameFrames(s, after) /\ after.tasks = s.tasks
    BY <1>4, <1>10 DEF SameTurn, SameFrames
  <2>4. /\ after.planGeneration = s.planGeneration /\ after.planGeneration >= s.planGeneration
        /\ after.nextDeliveryId >= s.nextDeliveryId
    BY <1>0, <1>4, <1>10
  <2>5. Queues(after)
    BY <1>0, <1>10, <2>3, <2>4, TasksSame, FramesSame, ReadsSame DEF Queues, SameTurn
  <2>6. Turn(after)
    <3>1. Alike(s.tasks, after.tasks, PermitTasks)
      BY <2>3 DEF Alike
    <3>2. s.turn = "queued" => next.readWait
      BY <1>0, <2>1 DEF Turn
    <3> QED
      BY <1>0, <1>10, <2>3, <3>1, <3>2, TurnSame DEF SameTurn
  <2>7. AlikeTasks(s, after, g) /\ AlikeFrames(s, after, g) /\ AlikeReads(s, after, g)
    BY <2>3, AlikeTasksSame, AlikeFramesSame DEF SameTurn, AlikeReads
  <2>8. PlanStage(after, next)
    BY <1>0, <1>10, <2>1, <2>7, PlanStageKept DEF Stage, AlikeTasks, AlikeFrames
  <2>9. DoneStage(after, next)
    BY <1>0, <1>10, <2>1, <2>7, DoneStageKept DEF Stage, AlikeTasks, AlikeFrames
  <2>10. TileStage(after, next)
    <3>1. next.busy = plan.busy
      BY <1>0, <1>3, <1>10, <2>1 DEF ActivePlan
    <3> QED
      BY <1>0, <1>10, <2>1, <2>7, <3>1, TileStageKept DEF Stage, AlikeTasks, AlikeFrames
  <2>11. TurnStage(after, next)
    BY <1>0, <1>10, <2>1, <2>3, <2>7, TurnStageKept DEF Stage, AlikeTasks, SameTurn
  <2>12. Progress(next, after.closed)
    <3>1. Underway(next) = 0
      BY <2>1 DEF Underway
    <3> QED
      BY <1>0, <1>9, <1>10, <2>1, <3>1 DEF Progress
  <2>13. Stages(after)
    BY <1>0, <2>1, <2>4, <2>8, <2>9, <2>10, <2>11, <2>12 DEF Stages, Stage
  <2> QED
    BY <1>10, <2>2, <2>5, <2>6, <2>13 DEF SessionInv, after, r
<1>11. CASE /\ after \in SessionType /\ ~after.closed
            /\ OnlyFrames(r, after)
            /\ Len(r.frames) < FrameCapacity
            /\ \E image \in SomeImage :
                  LET frame == TileFrame("TILE", busy.epoch, busy.generation, r.nextDeliveryId - 1, image)
                  IN frame \in Frame /\ after.frames = Append(r.frames, frame)
  <2> HIDE DEF after
  <2>1. PICK image \in SomeImage :
                  LET frame == TileFrame("TILE", busy.epoch, busy.generation, r.nextDeliveryId - 1, image)
                  IN frame \in Frame /\ after.frames = Append(r.frames, frame)
    BY <1>11
  <2> DEFINE frame == TileFrame("TILE", busy.epoch, busy.generation, r.nextDeliveryId - 1, image)
             next == after.activePlan
  <2>2. /\ frame \in Frame /\ after.frames = Append(s.frames, frame) /\ after.writing = s.writing
        /\ SamePlan(r, after) /\ SameTurn(s, after) /\ SameCredit(r, after) /\ after.tasks = s.tasks
        /\ Len(s.frames) < FrameCapacity /\ s.frames \in Seq(Frame)
    BY <1>0, <1>4, <1>11, <2>1 DEF OnlyFrames, SameTurn, SameFrames, SessionType
  <2>3. /\ frame.generation = g /\ frame.id = s.nextDeliveryId /\ frame.kind = "TILE"
        /\ frame \in TileFrames(g) /\ frame \notin PlanFrames(g) /\ frame \notin DoneFrames(g)
    BY <1>7, <1>8, <2>2 DEF TileFrame, DoneFrames, PlanFrames, TileFrames
  <2> HIDE DEF frame
  <2>4. /\ next = busy /\ after.planGeneration = s.planGeneration
        /\ after.nextDeliveryId = s.nextDeliveryId + 1
    BY <1>4, <2>2 DEF SamePlan, SameCredit
  <2>5. Account(after)
    BY <1>2, <1>5, <1>11, <2>2, AccountSame DEF OnlyFrames, Ends
  <2>6. TileAbsent(s, g)
    BY <1>0 DEF Stage, TileStage
  <2>7. FramesHold(after)
    <3>1. None(r.frames, {frame})
      BY <1>4, <2>3, <2>6, <2>2 DEF None, TileAbsent, Absent, SameFrames
    <3>2. r.planGeneration >= s.planGeneration /\ r.nextDeliveryId >= s.nextDeliveryId
      BY <1>0, <1>4
    <3>3. FramesHold(r)
      BY <1>0, <1>2, <1>4, <3>2, FramesSame DEF Queues
    <3>4. frame.generation <= r.planGeneration /\ frame.id < r.nextDeliveryId
      BY <1>0, <1>4, <2>3
    <3>5. after.frames = Append(r.frames, frame)
      BY <1>4, <2>2 DEF SameFrames
    <3> QED
      BY <1>2, <1>4, <1>11, <2>2, <2>4, <3>1, <3>3, <3>4, <3>5, FramesGrow
  <2>8. TasksHold(after) /\ ReadsHold(after)
    BY <1>0, <1>11, <2>2, <2>4, TasksSame, ReadsSame DEF Queues, SameTurn
  <2>9. Turn(after)
    <3>1. Alike(s.tasks, after.tasks, PermitTasks)
      BY <2>2 DEF Alike
    <3>2. s.turn = "queued" => next.readWait
      BY <1>0, <1>8, <2>4 DEF Turn
    <3> QED
      BY <1>0, <1>11, <2>2, <3>1, <3>2, TurnSame DEF SameTurn
  <2>10. Waiting(after) = Append(Waiting(s), frame) /\ Waiting(s) \in Seq(Frame)
    <3>1. FramesHold(s)
      BY <1>0 DEF Queues
    <3>2. Waiting(after) = Append(Waiting(s), frame)
      BY <1>0, <1>11, <2>2, <3>1, WaitingGrows
    <3> QED
      BY <1>0, <3>1, <3>2, WaitingFacts
  <2>11. AlikeTasks(s, after, g) /\ AlikeReads(s, after, g)
    BY <2>2, AlikeTasksSame DEF SameTurn, AlikeReads
  <2>12. /\ Alike(Waiting(s), Waiting(after), PlanFrames(g))
         /\ Alike(Waiting(s), Waiting(after), DoneFrames(g))
         /\ Alike(s.frames, after.frames, DoneFrames(g))
    BY <2>2, <2>3, <2>10, AlikeAppend
  <2>13. PlanStage(after, next)
    BY <1>0, <1>8, <2>4, <2>11, <2>12, PlanStageKept DEF Stage, AlikeTasks
  <2>14. DoneStage(after, next)
    BY <1>0, <1>8, <2>4, <2>11, <2>12, DoneStageKept DEF Stage, AlikeTasks
  <2>15. TileStage(after, next)
    <3>1. /\ None(after.tasks, TileTasks(g)) /\ None(s.frames, TileFrames(g))
          /\ \A x \in after.reads : x \notin TileReadsOf(g)
      BY <2>2, <2>6 DEF TileAbsent, Absent, SameTurn
    <3>2. Once(after.frames, TileFrames(g)) /\ ~None(after.frames, TileFrames(g))
      BY <2>2, <2>3, <3>1, AppendTokens
    <3>3. ~TileAbsent(after, g)
      BY <3>2 DEF TileAbsent, Absent
    <3>4. AtMostOne(after.tasks, TileTasks(g), after.frames, TileFrames(g), after.reads, TileReadsOf(g))
      BY <3>1, <3>2 DEF AtMostOne, None, Once
    <3> QED
      BY <1>8, <2>4, <3>3, <3>4 DEF TileStage
  <2>16. TurnStage(after, next)
    BY <1>0, <1>8, <2>2, <2>4, <2>11, TurnStageKept DEF Stage, AlikeTasks, SameTurn
  <2>17. Progress(next, after.closed)
    <3>1. Underway(next) = 1
      BY <1>8, <2>4 DEF Underway
    <3> QED
      BY <1>0, <1>8, <1>9, <2>4, <3>1 DEF Progress
  <2>18. Stages(after)
    BY <1>0, <1>8, <2>4, <2>13, <2>14, <2>15, <2>16, <2>17 DEF Stages, Stage
  <2> QED
    BY <1>11, <2>5, <2>7, <2>8, <2>9, <2>18 DEF SessionInv, Queues, after, r
<1>12. after = SendTile(r)
  OBVIOUS
<1> HIDE DEF after
<1>13. \/ r.closed
       \/ /\ after \in SessionType /\ after.closed
          /\ after.activePlan = [busy EXCEPT !.busy = FALSE]
          /\ after.planGeneration = r.planGeneration
          /\ SameTurn(r, after) /\ SameFrames(r, after)
          /\ after.tasks = r.tasks
          /\ after.nextDeliveryId = r.nextDeliveryId
          /\ Loses(r.deliveries, after.deliveries, {r.nextDeliveryId - 1})
          /\ CreditHolds(r) => CreditHolds(after)
       \/ /\ after \in SessionType /\ ~after.closed
          /\ OnlyFrames(r, after)
          /\ Len(r.frames) < FrameCapacity
          /\ \E image \in SomeImage :
                LET frame == TileFrame("TILE", busy.epoch, busy.generation, r.nextDeliveryId - 1, image)
                IN frame \in Frame /\ after.frames = Append(r.frames, frame)
  BY <1>2, <1>6, <1>7, <1>12, SendTileEffect
<1> QED
  BY <1>5, <1>10, <1>11, <1>13 DEF after, r

LEMMA TrySendPendingHolds ==
    ASSUME NEW s, SessionInv(s), ~s.closed, s.activePlan # NoPlan, ~s.activePlan.busy,
           s.activePlan.pendingTile > 0, NEW answer
    PROVE  SessionInv(TrySendPending(s, answer))
<1> DEFINE plan == s.activePlan
           after == TrySendPending(s, answer)
<1>1. /\ s \in SessionType /\ Account(s) /\ Queues(s) /\ Turn(s)
      /\ plan.epoch \in Nat /\ s.nextDeliveryId \in Nat
  BY PlanFields DEF SessionInv
<1>2. CASE Cardinality(DOMAIN s.deliveries) >= MaxInFlight
  BY <1>2 DEF TrySendPending
<1>3. CASE ~(Cardinality(DOMAIN s.deliveries) >= MaxInFlight)
  <2>1. Cardinality(DOMAIN s.deliveries) < MaxInFlight
    <3>1. Cardinality(DOMAIN s.deliveries) \in Nat
      BY <1>1, LedgerElim, FS_CardinalityType DEF SessionType
    <3> QED
      BY <1>3, <3>1, ConstantsAssumption
  <2>2. CASE s.nextDeliveryId > MaxDeliveryId
    <3>1. after = Closing(SendError(s, plan.epoch))
      BY <1>3, <2>2 DEF TrySendPending
    <3>2. SessionInv(SendError(s, plan.epoch))
      BY <1>1, SendErrorHolds
    <3> QED
      BY <3>1, <3>2, ClosingHolds
  <2>3. CASE ~(s.nextDeliveryId > MaxDeliveryId)
    <3>1. s.nextDeliveryId <= MaxDeliveryId
      BY <1>1, <2>3, ConstantsAssumption
    <3>2. after \in {FailPlan(s), s} \/ (after = SendTile(Reserve(s)) /\ ~LacksCredit(s))
      BY <1>3, <2>3 DEF TrySendPending
    <3> HIDE DEF after
    <3>3. SessionInv(FailPlan(s))
      BY <1>1, FailPlanHolds
    <3>4. ~LacksCredit(s) => SessionInv(SendTile(Reserve(s)))
      BY <2>1, <3>1, SendTileHolds
    <3> QED
      BY <3>2, <3>3, <3>4 DEF after
  <2> QED
    BY <2>2, <2>3
<1> QED
  BY <1>2, <1>3

LEMMA PumpHolds ==
    ASSUME NEW s, SessionInv(s), NEW answer
    PROVE  SessionInv(Pump(s, answer))
<1> DEFINE plan == s.activePlan
           after == Pump(s, answer)
<1>1. CASE s.closed \/ plan = NoPlan \/ plan.busy \/ ~plan.planCommitted
  BY <1>1 DEF Pump
<1>2. CASE ~(s.closed \/ plan = NoPlan \/ plan.busy \/ ~plan.planCommitted)
  <2>1. Idle(s) /\ plan # NoPlan /\ ~s.closed /\ ~plan.busy
    BY <1>2 DEF Idle
  <2>2. plan.pendingTile \in Nat /\ plan.next \in Nat /\ plan.tiles \in Nat /\ plan.next <= plan.tiles
    BY <2>1, PlanFields DEF SessionInv, Stages, Stage, Progress
  <2>3. CASE plan.pendingTile > 0
    BY <1>2, <2>1, <2>3, TrySendPendingHolds DEF Pump
  <2>4. CASE ~(plan.pendingTile > 0) /\ plan.next = plan.tiles
    <3>1. after = IF plan.doneQueued THEN s ELSE SendDone(s)
      BY <1>2, <2>4 DEF Pump
    <3>2. ~plan.doneQueued => SessionInv(SendDone(s))
      BY <2>1, <2>2, <2>4, SendDoneHolds
    <3> QED
      BY <3>1, <3>2
  <2>5. CASE ~(plan.pendingTile > 0) /\ plan.next # plan.tiles
    <3>1. after = s \/ (~plan.readWait /\ after = RequestTileRead(s, answer))
      BY <1>2, <2>5 DEF Pump
    <3>2. plan.pendingTile = 0 /\ plan.next < plan.tiles
      BY <2>2, <2>5
    <3>3. ~plan.readWait => SessionInv(RequestTileRead(s, answer))
      BY <2>1, <3>2, RequestTileReadHolds
    <3> QED
      BY <3>1, <3>3
  <2> QED
    BY <2>3, <2>4, <2>5
<1> QED
  BY <1>1, <1>2

--------------------------------------------------------------------------------
\* Recoveries

LEMMA RecoveryFailedHolds ==
    ASSUME NEW s, SessionInv(s), NEW id \in DOMAIN s.deliveries
    PROVE  SessionInv(RecoveryFailed(s, id))
<1>1. s \in SessionType /\ s.deliveries[id] \in Delivery
  BY DeliveryField DEF SessionInv
<1>2. PICK t : /\ Revises(s, t, id, s.deliveries[id].state, FALSE, TRUE)
               /\ RecoveryFailed(s, id) = SendError(t, s.deliveries[id].epoch)
  BY <1>1, RecoveryFailedEffect
<1>3. SessionInv(t)
  BY <1>2, RevisesHolds
<1>4. s.deliveries[id].epoch \in Nat
  BY <1>1 DEF Delivery
<1> QED
  BY <1>2, <1>3, <1>4, SendErrorHolds

LEMMA SendAgainHolds ==
    ASSUME NEW s, SessionInv(s), NEW id \in DOMAIN s.deliveries,
           NEW after, after = SendAgain(s, id)
    PROVE  SessionInv(after)
<1> DEFINE frame == TileFrame("RETRY", s.deliveries[id].epoch, 0, id, NoImage)
<1>1. s \in SessionType /\ id < s.nextDeliveryId
  BY DEF SessionInv, Account
<1>2. ASSUME NEW t, Revises(s, t, id, s.deliveries[id].state, FALSE, s.deliveries[id].releaseTimer),
             after = Closing(t)
      PROVE  SessionInv(after)
  <2>1. SessionInv(t)
    BY <1>2, RevisesHolds
  <2> QED
    BY <1>2, <2>1, ClosingHolds
<1>3. CASE /\ ~s.closed /\ Len(s.frames) < FrameCapacity
           /\ frame \in Frame /\ after = Queued(s, frame)
  <2>1. frame.generation = 0 /\ frame.id = id
    BY DEF TileFrame
  <2> HIDE DEF frame
  <2>2. /\ after \in SessionType /\ OnlyFrames(s, after)
        /\ after.frames = Append(s.frames, frame) /\ after.closed = s.closed
    BY <1>1, <1>3, QueuedEffect
  <2> QED
    BY <1>1, <1>3, <2>1, <2>2, FrameAddedHolds
<1>4. \/ \E t : /\ Revises(s, t, id, s.deliveries[id].state, FALSE, s.deliveries[id].releaseTimer)
                /\ after = Closing(t)
      \/ /\ ~s.closed /\ Len(s.frames) < FrameCapacity
         /\ frame \in Frame /\ after = Queued(s, frame)
  BY <1>1, SendAgainEffect
<1> QED
  BY <1>2, <1>3, <1>4

LEMMA WrittenHolds ==
    ASSUME NEW s, SessionInv(s), NEW id
    PROVE  SessionInv(Written(s, id)) /\ SamePlan(s, Written(s, id))
<1>1. s \in SessionType
  BY DEF SessionInv
<1>2. CASE Written(s, id) = s
  BY <1>2 DEF SamePlan
<1>3. CASE Written(s, id) # s
  <2>1. Revises(s, Written(s, id), id, "WRITTEN_AWAITING_RELEASE", s.deliveries[id].retryInProgress, TRUE)
    BY <1>1, <1>3, WrittenEffect
  <2> QED
    BY <2>1, RevisesHolds
<1> QED
  BY <1>2, <1>3

\* Only the reads of recoveries grow.
LEMMA RetryReadHolds ==
    ASSUME NEW s, SessionInv(s), NEW t, NEW id, Rereads(s, t, id)
    PROVE  SessionInv(t)
<1> DEFINE reads == s.reads \cup {RetryRead(id)}
<1>1. /\ s \in SessionType /\ s.planGeneration \in Nat /\ s.nextDeliveryId \in Nat
      /\ Account(s) /\ Queues(s) /\ Turn(s) /\ Stages(s)
  BY DEF SessionInv, SessionType
<1>2. RetryRead(id).kind = "RETRY"
  BY DEF RetryRead
<1>8. t = [s EXCEPT !.reads = reads] /\ reads \in SUBSET Read
  BY DEF Rereads
<1> HIDE DEF reads
<1>3. /\ t \in SessionType /\ t.reads = reads /\ t.turn = s.turn
      /\ SamePlan(s, t) /\ SameCredit(s, t) /\ SameView(s, t)
      /\ SameFrames(s, t) /\ t.tasks = s.tasks
      /\ t.closed = s.closed /\ t.state = s.state
  BY <1>1, <1>8, ReadsEffect
<1>4. Account(t)
  BY <1>1, <1>3, AccountSame
<1>5. Queues(t)
  <2>1. \A r \in t.reads : r \in s.reads \/ r.kind # "TILE" \/ r.generation <= t.planGeneration
    BY <1>2, <1>3 DEF reads
  <2>2. t.planGeneration >= s.planGeneration /\ t.nextDeliveryId >= s.nextDeliveryId
    BY <1>1, <1>3 DEF SamePlan, SameCredit
  <2> QED
    BY <1>1, <1>3, <2>1, <2>2, TasksSame, FramesSame, ReadsSame DEF Queues
<1>6. Turn(t)
  <2>1. \A r \in OpenReads : r \in t.reads <=> r \in s.reads
    BY <1>2, <1>3 DEF OpenReads, reads
  <2>2. Alike(s.tasks, t.tasks, PermitTasks)
    BY <1>3 DEF Alike
  <2>3. t.turn = "queued" => t.activePlan.readWait
    BY <1>1, <1>3 DEF Turn, SamePlan
  <2> QED
    BY <1>1, <1>3, <2>1, <2>2, <2>3, TurnSame
<1>7. Stages(t)
  <2> DEFINE g == s.activePlan.generation
  <2>1. AlikeReads(s, t, g)
    BY <1>2, <1>3 DEF AlikeReads, TileReadsOf, reads
  <2>2. AlikeTasks(s, t, g) /\ AlikeFrames(s, t, g)
    BY <1>3, AlikeTasksSame, AlikeFramesSame
  <2> QED
    BY <1>1, <1>3, <2>1, <2>2, StageKept
<1> QED
  BY <1>3, <1>4, <1>5, <1>6, <1>7 DEF SessionInv

LEMMA RetransmitHolds ==
    ASSUME NEW s, SessionInv(s), ~s.closed, s.state # "ESPERA_HELLO",
           NEW epoch \in Nat, NEW id, NEW answer,
           NEW after, after = RequestSelectiveRetransmit(s, epoch, id, answer)
    PROVE  SessionInv(after)
<1>1. s \in SessionType
  BY DEF SessionInv
<1>2. SessionInv(Acknowledge(s, {id}))
  BY AcknowledgeHolds
<1>3. CASE after = SendError(Acknowledge(s, {id}), epoch)
  BY <1>2, <1>3, SendErrorHolds
<1>4. ASSUME NEW t, Revises(s, t, id, "WRITTEN_AWAITING_RELEASE", FALSE, TRUE),
             after = SendError(t, epoch)
      PROVE  SessionInv(after)
  <2>1. SessionInv(t)
    BY <1>4, RevisesHolds
  <2> QED
    BY <1>4, <2>1, SendErrorHolds
<1>5. ASSUME NEW t, Revises(s, t, id, "WRITTEN_AWAITING_RELEASE", TRUE, FALSE), Rereads(t, after, id)
      PROVE  SessionInv(after)
  <2>1. SessionInv(t)
    BY <1>5, RevisesHolds
  <2> QED
    BY <1>5, <2>1, RetryReadHolds
<1> QED
  BY <1>1, <1>2, <1>3, <1>4, <1>5, RetransmitCases

--------------------------------------------------------------------------------
\* A task leaves the queue

\* The next task is of the active plan.
ForPlan(s) ==
    LET g == s.activePlan.generation IN
    /\ s.activePlan # NoPlan
    /\ Head(s.tasks) \in PlanTasks(g) \cup DoneTasks(g) \cup TileTasks(g)

LEMMA RanFacts ==
    ASSUME NEW s, SessionInv(s), s.tasks # <<>>, NEW t, t = Ran(s)
    PROVE  /\ t \in SessionType /\ Account(t) /\ Queues(t)
           /\ SamePlan(s, t) /\ SameTurn(s, t) /\ SameFrames(s, t) /\ SameCredit(s, t)
           /\ Head(s.tasks) \notin PermitTasks => Turn(t)
<1>1. /\ s \in SessionType /\ Account(s) /\ Queues(s) /\ Turn(s)
      /\ s.planGeneration \in Nat /\ s.nextDeliveryId \in Nat /\ s.tasks \in Seq(Task)
  BY DEF SessionInv, SessionType
<1>2. /\ t \in SessionType
      /\ SamePlan(s, t) /\ SameTurn(s, t) /\ SameCredit(s, t)
      /\ SameFrames(s, t) /\ t.closed = s.closed /\ t.state = s.state
      /\ t.tasks = Tail(s.tasks)
  BY <1>1, RanEffect
<1>3. t.planGeneration = s.planGeneration /\ t.nextDeliveryId = s.nextDeliveryId /\ t.reads = s.reads
  BY <1>2 DEF SamePlan, SameCredit, SameTurn
<1>4. Account(t)
  BY <1>1, <1>2, AccountSame
<1>5. TasksHold(t)
  BY <1>1, <1>2, <1>3, TasksShrink DEF Queues
<1>6. FramesHold(t)
  <2>1. t.planGeneration >= s.planGeneration /\ t.nextDeliveryId >= s.nextDeliveryId
    BY <1>1, <1>3
  <2> QED
    BY <1>1, <1>2, <2>1, FramesSame DEF Queues
<1>7. ReadsHold(t)
  BY <1>1, <1>2, <1>3, ReadsSame DEF Queues
<1>8. ASSUME Head(s.tasks) \notin PermitTasks PROVE Turn(t)
  <2>1. Alike(s.tasks, t.tasks, PermitTasks)
    BY <1>1, <1>2, <1>8, AlikeTail
  <2>2. t.turn = s.turn /\ (t.turn = "queued" => t.activePlan.readWait)
    BY <1>1, <1>2 DEF SameTurn, SamePlan, Turn
  <2> QED
    BY <1>1, <1>2, <1>3, <2>1, <2>2, TurnSame
<1> QED
  BY <1>2, <1>4, <1>5, <1>6, <1>7, <1>8 DEF Queues

LEMMA RanHolds ==
    ASSUME NEW s, SessionInv(s), s.tasks # <<>>, Head(s.tasks) \notin PermitTasks, ~ForPlan(s)
    PROVE  SessionInv(Ran(s))
<1> DEFINE t == Ran(s)
           g == s.activePlan.generation
<1>0. t = Ran(s)
  OBVIOUS
<1> HIDE DEF t
<1>1. /\ t \in SessionType /\ Account(t) /\ Queues(t) /\ Turn(t)
      /\ SamePlan(s, t) /\ SameTurn(s, t) /\ SameFrames(s, t)
  BY <1>0, RanFacts
<1>2. s \in SessionType /\ s.tasks \in Seq(Task) /\ Stages(s)
  BY DEF SessionInv, SessionType
<1>3. t.tasks = Tail(s.tasks) /\ t.closed = s.closed /\ t.turn = s.turn /\ t.reads = s.reads
  BY <1>0, <1>1, <1>2, RanEffect DEF SameTurn
<1>4. Stages(t)
  <2>1. CASE s.activePlan = NoPlan
    BY <1>1, <2>1 DEF Stages, SamePlan
  <2>2. CASE s.activePlan # NoPlan
    <3>1. /\ Head(s.tasks) \notin PlanTasks(g) /\ Head(s.tasks) \notin DoneTasks(g)
          /\ Head(s.tasks) \notin TileTasks(g) /\ Head(s.tasks) \notin PermitTasksOf(g)
      BY <2>2 DEF ForPlan, PermitTasks, PermitTasksOf
    <3>2. AlikeTasks(s, t, g)
      BY <1>2, <1>3, <3>1, AlikeTail DEF AlikeTasks
    <3>3. AlikeFrames(s, t, g) /\ AlikeReads(s, t, g)
      BY <1>1, <1>3, AlikeFramesSame DEF AlikeReads
    <3> QED
      BY <1>1, <1>2, <1>3, <3>2, <3>3, StageKept
  <2> QED
    BY <2>1, <2>2
<1> QED
  BY <1>1, <1>4 DEF SessionInv, t

\* The task of a control, of a timer or of a recovery.
LEMMA RanOtherHolds ==
    ASSUME NEW s, SessionInv(s), s.tasks # <<>>, Head(s.tasks).kind \notin GenerationKinds
    PROVE  SessionInv(Ran(s))
<1>1. Head(s.tasks) \notin PermitTasks /\ ~ForPlan(s)
  BY DEF PermitTasks, ForPlan, PlanTasks, DoneTasks, TileTasks, GenerationKinds
<1> QED
  BY <1>1, RanHolds

--------------------------------------------------------------------------------
\* Handlers of controls, of timers and of recoveries

LEMMA OpenedHolds ==
    ASSUME NEW s, SessionInv(s), NEW epoch \in Nat, NEW image \in SomeImage,
           NEW t, t = [s EXCEPT !.opened = image, !.thumbnailCommittedForOpen = FALSE,
                                !.currentEpoch = epoch, !.state = "IMAGEN_ABIERTA"]
    PROVE  SessionInv(t)
<1>1. s \in SessionType
  BY DEF SessionInv
<1>2. /\ t \in SessionType /\ t.state = "IMAGEN_ABIERTA" /\ t.tasks = s.tasks /\ t.closed = s.closed
  BY <1>1 DEF SessionType, States
<1>3. SamePlan(s, t) /\ SameTurn(s, t) /\ SameFrames(s, t) /\ SameCredit(s, t)
  BY <1>1 DEF SessionType, SamePlan, SameTurn, SameFrames, SameCredit
<1>4. Account(t)
  BY <1>1, <1>2, <1>3, AccountSame DEF SessionInv
<1> QED
  BY <1>2, <1>3, <1>4, LedgerHolds DEF SameCredit

\* HELLO opens the window.
LEMMA GreetedHolds ==
    ASSUME NEW s, SessionInv(s), ~s.closed, s.state = "ESPERA_HELLO",
           NEW t, t = [s EXCEPT !.helloTimer = FALSE, !.state = "LISTA",
                                !.negotiatedWindowBytes = Window, !.freeWindowBytes = Window]
    PROVE  SessionInv(t)
<1>1. s \in SessionType /\ s.deliveries = <<>>
  BY DEF SessionInv, Account
<1>2. Window \in Nat /\ Window \in Int
  BY ConstantsAssumption
<1>3. /\ t \in SessionType /\ t.state = "LISTA" /\ t.tasks = s.tasks /\ t.closed = s.closed
      /\ t.deliveries = s.deliveries /\ t.nextDeliveryId = s.nextDeliveryId
      /\ t.negotiatedWindowBytes = Window /\ t.freeWindowBytes = Window
  BY <1>1, <1>2 DEF SessionType, States
<1>4. SamePlan(s, t) /\ SameTurn(s, t) /\ SameFrames(s, t)
  BY <1>1 DEF SessionType, SamePlan, SameTurn, SameFrames
<1>5. CreditHolds(t)
  BY <1>1, <1>2, <1>3, EmptyLedger DEF CreditHolds
<1>6. Account(t)
  BY <1>3, <1>5 DEF SessionInv, Account
<1> QED
  BY <1>3, <1>4, <1>6, LedgerHolds

LEMMA TaskRuns ==
    ASSUME SessionInv(session), NEW kind, Running(kind)
    PROVE  /\ session.tasks # <<>> /\ task.kind = kind /\ task \in Task
           /\ kind \notin GenerationKinds => SessionInv(Ran(session))
<1>1. session.tasks # <<>> /\ task.kind = kind
  BY DEF Running, task
<1>2. task \in Task
  BY <1>1, TailFacts DEF SessionInv, SessionType, task
<1>3. kind \notin GenerationKinds => SessionInv(Ran(session))
  BY <1>1, RanOtherHolds DEF task
<1> QED
  BY <1>1, <1>2, <1>3

LEMMA HandleHelloHolds ==
    ASSUME SessionInv(session), NEW answer, HandleHello(answer)
    PROVE  SessionInv(session')
<1> DEFINE s == Ran(session)
           greeted == [s EXCEPT !.helloTimer = FALSE, !.state = "LISTA",
                                !.negotiatedWindowBytes = Window, !.freeWindowBytes = Window]
           welcome == Control("WELCOME", 0, NoImage)
<1>1. SessionInv(s)
  BY TaskRuns DEF HandleHello, GenerationKinds
<1>2. \/ session' = s
      \/ session' = Closing(s)
      \/ session' = SendError(s, 0)
      \/ session' = Closing(SendError(s, 0))
      \/ ~s.closed /\ s.state = "ESPERA_HELLO" /\ session' = Send(greeted, welcome)
  BY DEF HandleHello, Becomes
<1> HIDE DEF s
<1>3. SessionInv(SendError(s, 0))
  BY <1>1, SendErrorHolds
<1>4. CASE ~s.closed /\ s.state = "ESPERA_HELLO" /\ session' = Send(greeted, welcome)
  <2>1. SessionInv(greeted)
    BY <1>1, <1>4, GreetedHolds
  <2>2. welcome \in Frame /\ welcome.generation = 0 /\ welcome.id = 0
    BY ControlIsFrame DEF PlainKinds, SomeImage
  <2> HIDE DEF greeted, welcome
  <2> QED
    BY <1>4, <2>1, <2>2, SendHolds
<1> QED
  BY <1>1, <1>2, <1>3, <1>4, ClosingHolds

LEMMA HandleOpenHolds ==
    ASSUME SessionInv(session), NEW answer, HandleOpen(answer)
    PROVE  SessionInv(session')
<1> DEFINE s == Ran(session)
<1>1. SessionInv(s) /\ task.epoch \in Nat
  BY TaskRuns, TaskFields DEF HandleOpen, GenerationKinds
<1>2. session' = s \/ session' = Closing(s) \/ session' = SendError(s, task.epoch)
  BY DEF HandleOpen
<1> HIDE DEF s
<1> QED
  BY <1>1, <1>2, ClosingHolds, SendErrorHolds

LEMMA OnOpenResolvedHolds ==
    ASSUME SessionInv(session), OnOpenResolved
    PROVE  SessionInv(session')
<1> DEFINE s == Ran(session)
           opened == [InvalidatePlan(s) EXCEPT
                         !.opened = task.image, !.thumbnailCommittedForOpen = FALSE,
                         !.currentEpoch = task.epoch, !.state = "IMAGEN_ABIERTA"]
           manifest == Control("MANIFEST", task.epoch, task.image)
<1>1. SessionInv(s) /\ task.epoch \in Nat /\ task.image \in SomeImage
  BY TaskRuns, TaskFields DEF OnOpenResolved, GenerationKinds
<1>2. \/ session' = s
      \/ session' = SendError(s, task.epoch)
      \/ ~s.closed /\ session' = Send(opened, manifest)
  BY DEF OnOpenResolved, Becomes
<1> HIDE DEF s
<1>3. CASE ~s.closed /\ session' = Send(opened, manifest)
  <2>1. SessionInv(InvalidatePlan(s))
    BY <1>1, <1>3, AccountLive, InvalidatePlanHolds DEF SessionInv
  <2>2. SessionInv(opened)
    BY <1>1, <2>1, OpenedHolds
  <2>3. manifest \in Frame /\ manifest.generation = 0 /\ manifest.id = 0
    BY <1>1, ControlIsFrame DEF PlainKinds
  <2> HIDE DEF opened, manifest
  <2> QED
    BY <1>3, <2>2, <2>3, SendHolds
<1> QED
  BY <1>1, <1>2, <1>3, SendErrorHolds

LEMMA HandleViewHolds ==
    ASSUME SessionInv(session), NEW answer, HandleView(answer)
    PROVE  SessionInv(session')
<1> DEFINE s == Ran(session)
<1>1. SessionInv(s) /\ task.epoch \in Nat
  BY TaskRuns, TaskFields DEF HandleView, GenerationKinds
<1>2. \/ session' = s
      \/ session' = Closing(s)
      \/ session' = SendError(s, task.epoch)
      \/ ~s.closed /\ s.state = "IMAGEN_ABIERTA" /\ session' = AcceptView(s, task.epoch)
  BY DEF HandleView, Becomes
<1> HIDE DEF s
<1> QED
  BY <1>1, <1>2, ClosingHolds, SendErrorHolds, AcceptViewHolds

LEMMA HandleReleaseHolds ==
    ASSUME SessionInv(session), NEW answer, HandleRelease(answer)
    PROVE  SessionInv(session')
<1> DEFINE s == Ran(session)
<1>1. SessionInv(s)
  BY TaskRuns DEF HandleRelease, GenerationKinds
<1>2. \/ session' = s
      \/ session' = Closing(s)
      \/ ~s.closed /\ s.state # "ESPERA_HELLO" /\ session' = Pump(Acknowledge(s, {task.id}), answer)
  BY DEF HandleRelease, Becomes
<1> HIDE DEF s
<1>3. ~s.closed /\ s.state # "ESPERA_HELLO" => SessionInv(Acknowledge(s, {task.id}))
  BY <1>1, AcknowledgeHolds
<1>4. SessionInv(Acknowledge(s, {task.id})) => SessionInv(Pump(Acknowledge(s, {task.id}), answer))
  BY PumpHolds
<1> QED
  BY <1>1, <1>2, <1>3, <1>4, ClosingHolds

LEMMA HandleAckStateHolds ==
    ASSUME SessionInv(session), NEW answer, HandleAckState(answer)
    PROVE  SessionInv(session')
<1> DEFINE s == Ran(session)
<1>1. SessionInv(s) /\ task.epoch \in Nat
  BY TaskRuns, TaskFields DEF HandleAckState, GenerationKinds
<1>2. \/ session' = s
      \/ session' = Closing(s)
      \/ /\ ~s.closed /\ s.state # "ESPERA_HELLO"
         /\ \E received : session' = Pump(RequestSelectiveRetransmit(Acknowledge(s, received),
                                              task.epoch, task.missing, answer), answer)
  BY DEF HandleAckState, Becomes
<1> HIDE DEF s
<1>3. ASSUME ~s.closed, s.state # "ESPERA_HELLO", NEW received,
             session' = Pump(RequestSelectiveRetransmit(Acknowledge(s, received),
                                 task.epoch, task.missing, answer), answer)
      PROVE  SessionInv(session')
  <2> DEFINE acknowledged == Acknowledge(s, received)
             asked == RequestSelectiveRetransmit(acknowledged, task.epoch, task.missing, answer)
  <2>1. SessionInv(acknowledged) /\ ~acknowledged.closed /\ acknowledged.state # "ESPERA_HELLO"
    BY <1>1, <1>3, AcknowledgeHolds
  <2> HIDE DEF acknowledged
  <2>2. SessionInv(asked)
    BY <1>1, <2>1, RetransmitHolds
  <2>3. session' = Pump(asked, answer)
    BY <1>3 DEF acknowledged
  <2> HIDE DEF asked
  <2> QED
    BY <2>2, <2>3, PumpHolds
<1> QED
  BY <1>1, <1>2, <1>3, ClosingHolds

LEMMA OnSelectiveTileReadHolds ==
    ASSUME SessionInv(session), NEW answer, OnSelectiveTileRead(answer)
    PROVE  SessionInv(session')
<1> DEFINE s == Ran(session)
<1>1. SessionInv(s)
  BY TaskRuns DEF OnSelectiveTileRead, GenerationKinds
<1>2. \/ session' = s
      \/ /\ task.id \in DOMAIN s.deliveries
         /\ session' = RecoveryFailed(s, task.id) \/ session' = SendAgain(s, task.id)
  BY DEF OnSelectiveTileRead, Becomes
<1> HIDE DEF s
<1> QED
  BY <1>1, <1>2, RecoveryFailedHolds, SendAgainHolds

LEMMA OnSelectiveTileWrittenHolds ==
    ASSUME SessionInv(session), OnSelectiveTileWritten
    PROVE  SessionInv(session')
<1> DEFINE s == Ran(session)
           id == task.id
           d == [s.deliveries[id] EXCEPT !.retryInProgress = FALSE, !.releaseTimer = TRUE,
                                         !.state = "WRITTEN_AWAITING_RELEASE"]
<1>1. SessionInv(s)
  BY TaskRuns DEF OnSelectiveTileWritten, GenerationKinds
<1>2. CASE id \notin DOMAIN s.deliveries
  BY <1>1, <1>2 DEF OnSelectiveTileWritten, Becomes
<1>3. CASE id \in DOMAIN s.deliveries
  <2>1. session' = [s EXCEPT !.deliveries[id] =
                       [@ EXCEPT !.retryInProgress = FALSE, !.releaseTimer = TRUE,
                                 !.state = "WRITTEN_AWAITING_RELEASE"]]
    BY <1>3 DEF OnSelectiveTileWritten, Becomes
  <2> HIDE DEF s
  <2>2. s \in SessionType /\ s.deliveries[id] \in Delivery
    BY <1>1, <1>3, DeliveryField DEF SessionInv
  <2>3. session' = [s EXCEPT !.deliveries[id] = d]
    BY <2>1, <2>2 DEF SessionType
  <2>4. Revised(s.deliveries[id], d, "WRITTEN_AWAITING_RELEASE", FALSE, TRUE)
    BY <2>2 DEF Revised, Delivery
  <2> HIDE DEF d
  <2>5. Revises(s, session', id, "WRITTEN_AWAITING_RELEASE", FALSE, TRUE)
    BY <1>3, <2>3, <2>4, Zenon DEF Revises
  <2> QED
    BY <1>1, <2>5, RevisesHolds
<1> QED
  BY <1>2, <1>3

LEMMA OnTileCommittedHolds ==
    ASSUME SessionInv(session), OnTileCommitted
    PROVE  SessionInv(session')
<1> DEFINE s == Ran(session)
           id == task.id
           d == [s.deliveries[id] EXCEPT !.state = "COMMITTED"]
           u == [s EXCEPT !.deliveries[id] = d]
           committed == s.thumbnailCommittedForOpen \/ s.deliveries[id].openingThumbnail
<1>1. SessionInv(s)
  BY TaskRuns DEF OnTileCommitted, GenerationKinds
<1>2. CASE id \notin DOMAIN s.deliveries \/ s.deliveries[id].state # "RESERVED_QUEUED"
  BY <1>1, <1>2 DEF OnTileCommitted, Becomes
<1>3. CASE ~(id \notin DOMAIN s.deliveries \/ s.deliveries[id].state # "RESERVED_QUEUED")
  <2>1. session' = [s EXCEPT !.deliveries[id].state = "COMMITTED",
                             !.thumbnailCommittedForOpen = @ \/ s.deliveries[id].openingThumbnail]
    BY <1>3 DEF OnTileCommitted, Becomes
  <2> HIDE DEF s
  <2>2. s \in SessionType /\ s.deliveries[id] \in Delivery /\ id \in DOMAIN s.deliveries
    BY <1>1, <1>3, DeliveryField DEF SessionInv
  <2>3. /\ d \in Delivery
        /\ Revised(s.deliveries[id], d, "COMMITTED", s.deliveries[id].retryInProgress, s.deliveries[id].releaseTimer)
    BY <2>2 DEF Revised, Delivery
  <2>4. session' = [u EXCEPT !.thumbnailCommittedForOpen = committed]
    BY <2>1, <2>2 DEF SessionType
  <2>5. committed \in BOOLEAN
    BY <2>2 DEF SessionType, Delivery
  <2> HIDE DEF d, committed
  <2>6. Revises(s, u, id, "COMMITTED", s.deliveries[id].retryInProgress, s.deliveries[id].releaseTimer)
    BY <2>2, <2>3, Zenon DEF Revises
  <2>7. SessionInv(u)
    BY <1>1, <2>6, RevisesHolds
  <2> HIDE DEF u
  <2>8. u \in SessionType
    BY <2>7 DEF SessionInv
  <2>9. session' \in SessionType /\ session'.tasks = u.tasks /\ session'.closed = u.closed
        /\ session'.state = u.state
    BY <2>4, <2>5, <2>8 DEF SessionType
  <2>10. SamePlan(u, session') /\ SameTurn(u, session') /\ SameFrames(u, session') /\ SameCredit(u, session')
    BY <2>4, <2>8 DEF SessionType, SamePlan, SameTurn, SameFrames, SameCredit
  <2>11. Account(session')
    BY <2>7, <2>8, <2>9, <2>10, AccountSame DEF SessionInv
  <2> QED
    BY <2>7, <2>9, <2>10, <2>11, LedgerHolds DEF SameCredit
<1> QED
  BY <1>2, <1>3

LEMMA OnReleaseTimeoutHolds ==
    ASSUME SessionInv(session), OnReleaseTimeout
    PROVE  SessionInv(session')
<1> DEFINE s == Ran(session)
<1>1. SessionInv(s)
  BY TaskRuns DEF OnReleaseTimeout, GenerationKinds
<1>2. session' = s \/ session' = Dismantle(s)
  BY DEF OnReleaseTimeout, Becomes
<1> HIDE DEF s
<1> QED
  BY <1>1, <1>2, DismantleHolds

LEMMA OnHelloTimeoutHolds ==
    ASSUME SessionInv(session), OnHelloTimeout
    PROVE  SessionInv(session')
<1> DEFINE s == Ran(session)
<1>1. SessionInv(s)
  BY TaskRuns DEF OnHelloTimeout, GenerationKinds
<1>2. session' = s \/ session' = Dismantle(s)
  BY DEF OnHelloTimeout, Becomes
<1> HIDE DEF s
<1> QED
  BY <1>1, <1>2, DismantleHolds

LEMMA CleanupHolds ==
    ASSUME SessionInv(session), Cleanup
    PROVE  SessionInv(session')
<1> DEFINE s == Ran(session)
<1>1. SessionInv(s)
  BY TaskRuns DEF Cleanup, GenerationKinds
<1>2. session' = Dismantle(s)
  BY DEF Cleanup, Becomes
<1> HIDE DEF s
<1> QED
  BY <1>1, <1>2, DismantleHolds

--------------------------------------------------------------------------------
\* Callbacks of the active plan

\* A stale callback changes nothing, the other is of the active plan.
LEMMA CallbackRuns ==
    ASSUME SessionInv(session), NEW kind \in {"PLAN_COMMITTED", "DONE_COMMITTED", "TILE_WRITTEN", "TILE_READ"},
           Running(kind)
    PROVE  /\ task.generation \in Nat \ {0}
           /\ session.activePlan.generation # task.generation => SessionInv(Ran(session))
           /\ session.activePlan.generation = task.generation =>
                session.activePlan # NoPlan /\ Stage(session)
           /\ Ran(session).activePlan = session.activePlan
<1>1. /\ session.tasks # <<>> /\ task.kind = kind /\ task \in Task
      /\ task = Head(session.tasks)
  BY TaskRuns DEF task
<1>2. task.generation \in Nat \ {0}
  BY <1>1, TaskFields DEF GenerationKinds
<1>3. NoPlan.generation = 0
  BY DEF NoPlan
<1>4. ASSUME session.activePlan.generation # task.generation PROVE SessionInv(Ran(session))
  <2>1. task \notin PermitTasks /\ ~ForPlan(session)
    BY <1>1, <1>4 DEF PermitTasks, ForPlan, PlanTasks, DoneTasks, TileTasks
  <2> QED
    BY <1>1, <2>1, RanHolds
<1>5. Ran(session).activePlan = session.activePlan
  BY <1>1, RanEffect DEF SessionInv, SamePlan
<1> QED
  BY <1>2, <1>3, <1>4, <1>5 DEF SessionInv, Stages

\* The task at the head leaves the queue, and the active plan changes.
Progresses(s, t, plan) ==
    /\ t \in SessionType /\ Account(t) /\ Queues(t)
    /\ Head(s.tasks).kind # "PERMIT" => Turn(t)
    /\ t.activePlan = plan /\ t.planGeneration = s.planGeneration
    /\ t.tasks = Tail(s.tasks) /\ SameTurn(s, t) /\ SameFrames(s, t)
    /\ Waiting(t) = Waiting(s)
    /\ t.closed = s.closed /\ t.state = s.state /\ SameCredit(s, t)

LEMMA PlanChanges ==
    ASSUME NEW s, SessionInv(s), s.tasks # <<>>, s.activePlan # NoPlan,
           NEW plan \in ActivePlan \cup {NoPlan},
           s.turn = "queued" => plan.readWait,
           NEW t, t = [Ran(s) EXCEPT !.activePlan = plan]
    PROVE  Progresses(s, t, plan)
<1> DEFINE r == Ran(s)
<1>1. Head(s.tasks).kind # "PERMIT" => Head(s.tasks) \notin PermitTasks
  BY DEF PermitTasks
<1>2. s \in SessionType /\ s.planGeneration \in Nat /\ s.nextDeliveryId \in Nat
  BY DEF SessionInv, SessionType
<1>3. /\ r \in SessionType /\ Account(r) /\ Queues(r)
      /\ Head(s.tasks).kind # "PERMIT" => Turn(r)
      /\ SamePlan(s, r) /\ SameTurn(s, r) /\ SameFrames(s, r) /\ SameCredit(s, r)
  BY <1>1, RanFacts
<1>4. r.tasks = Tail(s.tasks) /\ r.closed = s.closed /\ r.state = s.state
  BY <1>2, RanEffect
<1>5. t = [r EXCEPT !.activePlan = plan]
  OBVIOUS
<1> HIDE DEF r
<1>6. /\ t \in SessionType /\ t.activePlan = plan
      /\ t.planGeneration = r.planGeneration
      /\ SameCredit(r, t) /\ SameTurn(r, t) /\ SameFrames(r, t)
      /\ t.tasks = r.tasks /\ t.closed = r.closed /\ t.state = r.state
  BY <1>3, <1>5 DEF SessionType, SameCredit, SameTurn, SameFrames
<1>7. t.planGeneration = s.planGeneration /\ t.nextDeliveryId = s.nextDeliveryId
  BY <1>3, <1>6 DEF SamePlan, SameCredit
<1>8. Account(t)
  <2>1. r.activePlan # NoPlan
    BY <1>3 DEF SamePlan
  <2> QED
    BY <1>3, <1>6, <2>1, AccountKept
<1>9. Queues(t)
  <2>1. /\ t.planGeneration >= r.planGeneration /\ t.nextDeliveryId >= r.nextDeliveryId
        /\ t.reads = r.reads
    BY <1>2, <1>3, <1>6, <1>7 DEF SamePlan, SameCredit, SameTurn
  <2> QED
    BY <1>3, <1>6, <2>1, TasksSame, FramesSame, ReadsSame DEF Queues
<1>10. ASSUME Head(s.tasks).kind # "PERMIT" PROVE Turn(t)
  <2>1. Alike(r.tasks, t.tasks, PermitTasks) /\ t.reads = r.reads /\ t.turn = r.turn
    BY <1>6 DEF Alike, SameTurn
  <2>2. t.turn = "queued" => t.activePlan.readWait
    BY <1>3, <1>6, <2>1 DEF SameTurn
  <2> QED
    BY <1>3, <1>6, <1>10, <2>1, <2>2, TurnSame
<1>11. SameTurn(s, t) /\ SameFrames(s, t) /\ SameCredit(s, t)
  BY <1>3, <1>6 DEF SameTurn, SameFrames, SameCredit
<1> QED
  BY <1>4, <1>6, <1>7, <1>8, <1>9, <1>10, <1>11 DEF Progresses, Waiting, SameFrames

\* The stages the task does not touch.
LEMMA OtherStages ==
    ASSUME NEW s \in SessionType, NEW t \in SessionType, Stage(s), s.tasks # <<>>,
           t.tasks = Tail(s.tasks), SameTurn(s, t), SameFrames(s, t), t.closed = s.closed,
           NEW plan \in ActivePlan, t.activePlan = plan,
           NEW g, g = s.activePlan.generation, plan.generation = g
    PROVE  /\ /\ Head(s.tasks) \notin PlanTasks(g)
              /\ plan.planCommitted = s.activePlan.planCommitted
              => PlanStage(t, plan)
           /\ /\ Head(s.tasks) \notin DoneTasks(g)
              /\ plan.doneQueued = s.activePlan.doneQueued
              => DoneStage(t, plan)
           /\ /\ Head(s.tasks) \notin TileTasks(g)
              /\ plan.busy = s.activePlan.busy
              => TileStage(t, plan)
           /\ /\ Head(s.tasks) \notin PermitTasksOf(g)
              /\ plan.readWait = s.activePlan.readWait
              => TurnStage(t, plan)
<1>1. s.tasks \in Seq(Task) /\ t.turn = s.turn /\ t.reads = s.reads
  BY DEF SessionType, SameTurn
<1>2. AlikeFrames(s, t, g) /\ AlikeReads(s, t, g)
  BY <1>1, AlikeFramesSame DEF AlikeReads
<1>3. \A S : Head(s.tasks) \notin S => Alike(s.tasks, t.tasks, S)
  BY <1>1, AlikeTail
<1>4. /\ PlanStage(s, s.activePlan) /\ DoneStage(s, s.activePlan)
      /\ TileStage(s, s.activePlan) /\ TurnStage(s, s.activePlan)
  BY DEF Stage
<1>5. ASSUME Head(s.tasks) \notin PlanTasks(g), plan.planCommitted = s.activePlan.planCommitted
      PROVE  PlanStage(t, plan)
  <2>1. Alike(s.tasks, t.tasks, PlanTasks(g)) /\ Alike(Waiting(s), Waiting(t), PlanFrames(g))
    BY <1>2, <1>3, <1>5 DEF AlikeFrames
  <2> QED
    BY <1>4, <1>5, <2>1, PlanStageKept
<1>6. ASSUME Head(s.tasks) \notin DoneTasks(g), plan.doneQueued = s.activePlan.doneQueued
      PROVE  DoneStage(t, plan)
  <2>1. /\ Alike(s.tasks, t.tasks, DoneTasks(g)) /\ Alike(Waiting(s), Waiting(t), DoneFrames(g))
        /\ Alike(s.frames, t.frames, DoneFrames(g))
    BY <1>2, <1>3, <1>6 DEF AlikeFrames
  <2> QED
    BY <1>4, <1>6, <2>1, DoneStageKept
<1>7. ASSUME Head(s.tasks) \notin TileTasks(g), plan.busy = s.activePlan.busy
      PROVE  TileStage(t, plan)
  <2>1. Alike(s.tasks, t.tasks, TileTasks(g)) /\ Alike(s.frames, t.frames, TileFrames(g))
    BY <1>2, <1>3, <1>7 DEF AlikeFrames
  <2> QED
    BY <1>2, <1>4, <1>7, <2>1, TileStageKept
<1>8. ASSUME Head(s.tasks) \notin PermitTasksOf(g), plan.readWait = s.activePlan.readWait
      PROVE  TurnStage(t, plan)
  <2>1. Alike(s.tasks, t.tasks, PermitTasksOf(g))
    BY <1>3, <1>8
  <2> QED
    BY <1>1, <1>4, <1>8, <2>1, TurnStageKept
<1> QED
  BY <1>5, <1>6, <1>7, <1>8

\* The PLAN was sent: the pump may run.
LEMMA PlanCommittedHolds ==
    ASSUME SessionInv(session), Running("PLAN_COMMITTED"),
           session.activePlan.generation = task.generation,
           NEW t, t = [Ran(session) EXCEPT
                          !.activePlan = [session.activePlan EXCEPT !.planCommitted = TRUE]]
    PROVE  SessionInv(t)
<1> DEFINE s == session
           g == s.activePlan.generation
           plan == [s.activePlan EXCEPT !.planCommitted = TRUE]
<1>1. /\ task.kind = "PLAN_COMMITTED" /\ task \in Task
      /\ s.tasks # <<>> /\ task = Head(s.tasks)
  BY TaskRuns DEF task
<1>2. s.activePlan # NoPlan /\ Stage(s) /\ s \in SessionType
  BY CallbackRuns DEF SessionInv
<1>3. /\ plan \in ActivePlan /\ plan.generation = g /\ plan.planCommitted
      /\ plan.busy = s.activePlan.busy /\ plan.doneQueued = s.activePlan.doneQueued
      /\ plan.readWait = s.activePlan.readWait /\ plan.next = s.activePlan.next
      /\ plan.tiles = s.activePlan.tiles /\ plan.sentTiles = s.activePlan.sentTiles
      /\ plan.pendingTile = s.activePlan.pendingTile
  BY <1>2, PlanFields DEF ActivePlan
<1>4. t = [Ran(s) EXCEPT !.activePlan = plan]
  OBVIOUS
<1> HIDE DEF plan
<1>5. s.turn = "queued" => plan.readWait
  BY <1>3 DEF SessionInv, Turn
<1>6. /\ t \in SessionType /\ Account(t) /\ Queues(t) /\ Turn(t)
      /\ t.activePlan = plan /\ t.planGeneration = s.planGeneration
      /\ t.tasks = Tail(s.tasks) /\ SameTurn(s, t) /\ SameFrames(s, t)
      /\ Waiting(t) = Waiting(s) /\ t.closed = s.closed
  <2>1. Progresses(s, t, plan)
    BY <1>1, <1>2, <1>3, <1>4, <1>5, PlanChanges
  <2> QED
    BY <1>1, <2>1 DEF Progresses
<1>7. Head(s.tasks) \in PlanTasks(g)
  BY <1>1 DEF PlanTasks
<1>8. DoneStage(t, plan) /\ TileStage(t, plan) /\ TurnStage(t, plan)
  <2>1. /\ Head(s.tasks) \notin DoneTasks(g) /\ Head(s.tasks) \notin TileTasks(g)
        /\ Head(s.tasks) \notin PermitTasksOf(g)
    BY <1>1 DEF DoneTasks, TileTasks, PermitTasksOf
  <2> QED
    BY <1>1, <1>2, <1>3, <1>6, <2>1, OtherStages
<1>9. PlanStage(s, s.activePlan) /\ Progress(s.activePlan, s.closed)
  BY <1>2 DEF Stage
<1>10. ~None(s.tasks, PlanTasks(g)) /\ s.tasks \in Seq(Task)
  BY <1>1, <1>2, <1>7, TailFacts DEF None, SessionType
<1>11. None(t.tasks, PlanTasks(g)) /\ Once(t.tasks, PlanTasks(g)) /\ None(Waiting(t), PlanFrames(g))
  BY <1>1, <1>6, <1>7, <1>9, <1>10, TailTokens DEF PlanStage, AtMostOne
<1>12. ~s.activePlan.planCommitted
  BY <1>9, <1>10 DEF PlanStage, PlanAbsent, Absent
<1>13. PlanStage(t, plan)
  BY <1>3, <1>11 DEF PlanStage, PlanAbsent, Absent, AtMostOne, None, Once
<1>14. Progress(plan, t.closed)
  BY <1>3, <1>6, <1>9, <1>12 DEF Progress, Underway
<1> QED
  BY <1>2, <1>3, <1>6, <1>8, <1>13, <1>14 DEF SessionInv, Stages, Stage

LEMMA OnPlanCommittedHolds ==
    ASSUME SessionInv(session), NEW answer, OnPlanCommitted(answer)
    PROVE  SessionInv(session')
<1> DEFINE s == session
           plan == [s.activePlan EXCEPT !.planCommitted = TRUE]
           t == [Ran(s) EXCEPT !.activePlan = plan]
<1>1. Running("PLAN_COMMITTED") /\ s.tasks # <<>>
  BY TaskRuns DEF OnPlanCommitted
<1>2. CASE s.activePlan.generation # task.generation
  <2>1. SessionInv(Ran(s)) /\ session' = Ran(s)
    BY <1>1, <1>2, CallbackRuns DEF OnPlanCommitted, Becomes
  <2> QED
    BY <2>1
<1>3. CASE s.activePlan.generation = task.generation
  <2>1. s.activePlan # NoPlan /\ Ran(s).activePlan = s.activePlan
    BY <1>1, <1>3, CallbackRuns
  <2>2. /\ Ran(s) \in SessionType
        /\ session' = Pump([Ran(s) EXCEPT !.activePlan.planCommitted = TRUE], answer)
    BY <1>1, <1>3, <2>1, RanFacts DEF OnPlanCommitted, Becomes
  <2>3. session' = Pump(t, answer)
    BY <2>1, <2>2 DEF SessionType
  <2>4. SessionInv(t)
    BY <1>1, <1>3, PlanCommittedHolds
  <2> HIDE DEF t
  <2> QED
    BY <2>3, <2>4, PumpHolds
<1> QED
  BY <1>2, <1>3

LEMMA OnDoneCommittedHolds ==
    ASSUME SessionInv(session), OnDoneCommitted
    PROVE  SessionInv(session')
<1> DEFINE s == session
           g == s.activePlan.generation
           t == [Ran(s) EXCEPT !.activePlan = NoPlan]
<1>1. /\ Running("DONE_COMMITTED") /\ task.kind = "DONE_COMMITTED" /\ task \in Task
      /\ s.tasks # <<>> /\ task = Head(s.tasks)
  BY TaskRuns DEF OnDoneCommitted, task
<1>2. CASE g # task.generation
  <2>1. SessionInv(Ran(s)) /\ session' = Ran(s)
    BY <1>1, <1>2, CallbackRuns DEF OnDoneCommitted, Becomes
  <2> QED
    BY <2>1
<1>3. CASE g = task.generation
  <2>1. s.activePlan # NoPlan /\ Stage(s) /\ Ran(s).activePlan = s.activePlan /\ s \in SessionType
    BY <1>1, <1>3, CallbackRuns DEF SessionInv
  <2>2. session' = t
    BY <1>1, <1>3, <2>1 DEF OnDoneCommitted, Becomes
  <2>3. t = [Ran(s) EXCEPT !.activePlan = NoPlan]
    OBVIOUS
  <2> HIDE DEF t
  <2>4. s.turn # "queued"
    <3>1. Head(s.tasks) \in DoneTasks(g)
      BY <1>1, <1>3 DEF DoneTasks
    <3>2. ~None(s.tasks, DoneTasks(g))
      BY <1>1, <2>1, <3>1, TailFacts DEF None, SessionType
    <3>3. s.activePlan.doneQueued
      BY <2>1, <3>2 DEF Stage, DoneStage, DoneAbsent, Absent
    <3>4. ~s.activePlan.readWait
      BY <2>1, <3>3, PlanFields DEF Stage, Progress
    <3> QED
      BY <3>4 DEF SessionInv, Turn
  <2>5. Progresses(s, t, NoPlan)
    BY <1>1, <2>1, <2>3, <2>4, PlanChanges
  <2> QED
    BY <1>1, <2>2, <2>5 DEF Progresses, SessionInv, Stages
<1> QED
  BY <1>2, <1>3

\* The delivery that was written and the task that says so.
LEMMA WrittenRan ==
    ASSUME NEW s \in SessionType, s.tasks # <<>>, NEW id
    PROVE  Written(Ran(s), id) = Ran(Written(s, id)) /\ Written(s, id).tasks = s.tasks
<1> DEFINE r == Ran(s)
           written(u) == [u EXCEPT !.deliveries[id].state = "WRITTEN_AWAITING_RELEASE",
                                   !.deliveries[id].releaseTimer = TRUE]
           d == [s.deliveries[id] EXCEPT !.state = "WRITTEN_AWAITING_RELEASE", !.releaseTimer = TRUE]
           u == [s EXCEPT !.deliveries[id] = d]
<1>1. r \in SessionType /\ r.deliveries = s.deliveries
  BY RanEffect DEF SameCredit
<1>2. CASE id \in DOMAIN s.deliveries /\ s.deliveries[id].state # "WRITTEN_AWAITING_RELEASE"
  <2>1. s.deliveries \in [DOMAIN s.deliveries -> Delivery] /\ s.deliveries[id] \in Delivery
    BY <1>2, LedgerElim DEF SessionType
  <2>2. Written(s, id) = u
    <3>1. written(s) = u
      BY <1>2, <2>1 DEF SessionType, Delivery
    <3> QED
      BY <1>2, <3>1, Zenon DEF Written
  <2>3. Written(r, id) = [r EXCEPT !.deliveries[id] = d]
    <3>1. written(r) = [r EXCEPT !.deliveries[id] = d]
      BY <1>1, <1>2, <2>1 DEF SessionType, Delivery
    <3>2. Written(r, id) = written(r)
      BY <1>1, <1>2, Zenon DEF Written
    <3> QED
      BY <3>1, <3>2
  <2> HIDE DEF d
  <2>4. [r EXCEPT !.deliveries[id] = d] = Ran(u) /\ u.tasks = s.tasks
    BY DEF SessionType, Ran
  <2> QED
    BY <2>2, <2>3, <2>4
<1>3. CASE ~(id \in DOMAIN s.deliveries /\ s.deliveries[id].state # "WRITTEN_AWAITING_RELEASE")
  <2>1. Written(s, id) = s
    BY <1>3 DEF Written
  <2>2. Written(r, id) = r
    BY <1>1, <1>3 DEF Written
  <2> QED
    BY <2>1, <2>2
<1> QED
  BY <1>2, <1>3

\* The task of the tile under way leaves the queue: nothing is under way.
LEMMA TileEnds ==
    ASSUME NEW s, SessionInv(s), Stage(s), s.activePlan # NoPlan, s.tasks # <<>>,
           Head(s.tasks) \in TileTasks(s.activePlan.generation),
           NEW t, t.tasks = Tail(s.tasks), SameTurn(s, t), SameFrames(s, t),
           NEW plan, plan.generation = s.activePlan.generation, ~plan.busy
    PROVE  /\ s.activePlan.busy /\ s.activePlan.pendingTile = 0
           /\ ~s.activePlan.doneQueued /\ ~s.activePlan.readWait
           /\ TileStage(t, plan)
<1> DEFINE g == s.activePlan.generation
<1>1. s \in SessionType /\ s.tasks \in Seq(Task) /\ TileStage(s, s.activePlan) /\ Progress(s.activePlan, s.closed)
  BY DEF SessionInv, SessionType, Stage
<1>2. ~None(s.tasks, TileTasks(g))
  BY <1>1, TailFacts DEF None
<1>3. s.activePlan.busy
  BY <1>1, <1>2 DEF TileStage, TileAbsent, Absent
<1>4. /\ s.activePlan.pendingTile = 0
      /\ ~s.activePlan.doneQueued /\ ~s.activePlan.readWait
  BY <1>1, <1>3 DEF Progress, Underway
<1>5. /\ Once(t.tasks, TileTasks(g)) /\ None(t.tasks, TileTasks(g))
      /\ None(s.frames, TileFrames(g)) /\ Once(s.frames, TileFrames(g))
      /\ \A x \in s.reads : x \notin TileReadsOf(g)
  BY <1>1, <1>2, TailTokens DEF TileStage, AtMostOne
<1>6. TileAbsent(t, g)
  BY <1>5 DEF TileAbsent, Absent, SameFrames, SameTurn
<1>7. AtMostOne(t.tasks, TileTasks(g), t.frames, TileFrames(g), t.reads, TileReadsOf(g))
  BY <1>5 DEF AtMostOne, SameFrames, SameTurn
<1> QED
  BY <1>3, <1>4, <1>6, <1>7 DEF TileStage

\* The tile under way was sent: the pump may run again.
LEMMA TileSentHolds ==
    ASSUME NEW s, SessionInv(s), s.activePlan # NoPlan, s.tasks # <<>>,
           Head(s.tasks).kind = "TILE_WRITTEN", Head(s.tasks).generation = s.activePlan.generation,
           Head(s.tasks) \in Task,
           NEW t, t = [Ran(s) EXCEPT
                          !.activePlan = [s.activePlan EXCEPT !.busy = FALSE,
                                             !.sentTiles = s.activePlan.sentTiles + 1]]
    PROVE  SessionInv(t)
<1> DEFINE g == s.activePlan.generation
           plan == [s.activePlan EXCEPT !.busy = FALSE, !.sentTiles = s.activePlan.sentTiles + 1]
<1>1. Stage(s) /\ s \in SessionType
  BY DEF SessionInv, Stages
<1>2. s.activePlan \in ActivePlan
  BY <1>1, PlanFields
<1>3. /\ plan \in ActivePlan /\ plan.generation = g /\ ~plan.busy
      /\ plan.planCommitted = s.activePlan.planCommitted /\ plan.doneQueued = s.activePlan.doneQueued
      /\ plan.readWait = s.activePlan.readWait /\ plan.next = s.activePlan.next
      /\ plan.tiles = s.activePlan.tiles /\ plan.sentTiles = s.activePlan.sentTiles + 1
      /\ plan.pendingTile = s.activePlan.pendingTile
  <2>1. s.activePlan.sentTiles + 1 \in Nat
    BY <1>2 DEF ActivePlan
  <2> QED
    BY <1>2, <2>1 DEF ActivePlan
<1>4. t = [Ran(s) EXCEPT !.activePlan = plan]
  OBVIOUS
<1> HIDE DEF plan
<1>5. s.turn = "queued" => plan.readWait
  BY <1>3 DEF SessionInv, Turn
<1>6. /\ t \in SessionType /\ Account(t) /\ Queues(t) /\ Turn(t)
      /\ t.activePlan = plan /\ t.planGeneration = s.planGeneration
      /\ t.tasks = Tail(s.tasks) /\ SameTurn(s, t) /\ SameFrames(s, t)
      /\ t.closed = s.closed
  <2>1. Progresses(s, t, plan)
    BY <1>3, <1>4, <1>5, PlanChanges
  <2> QED
    BY <2>1 DEF Progresses
<1>7. Head(s.tasks) \in TileTasks(g)
  BY DEF TileTasks
<1>8. /\ s.activePlan.busy /\ s.activePlan.pendingTile = 0
      /\ ~s.activePlan.doneQueued /\ ~s.activePlan.readWait
      /\ TileStage(t, plan)
  BY <1>1, <1>3, <1>6, <1>7, TileEnds
<1>9. PlanStage(t, plan) /\ DoneStage(t, plan) /\ TurnStage(t, plan)
  <2>1. /\ Head(s.tasks) \notin DoneTasks(g) /\ Head(s.tasks) \notin PlanTasks(g)
        /\ Head(s.tasks) \notin PermitTasksOf(g)
    BY DEF DoneTasks, PlanTasks, PermitTasksOf
  <2> QED
    BY <1>1, <1>3, <1>6, <2>1, OtherStages
<1>10. Progress(plan, t.closed)
  <2>1. /\ Progress(s.activePlan, s.closed)
        /\ s.activePlan.sentTiles \in Nat /\ s.activePlan.next \in Nat
    BY <1>1, PlanFields DEF Stage
  <2>2. Underway(s.activePlan) = 1 /\ Underway(plan) = 0
    BY <1>3, <1>8 DEF Underway
  <2> QED
    BY <1>3, <1>6, <1>8, <2>1, <2>2 DEF Progress
<1> QED
  BY <1>3, <1>6, <1>8, <1>9, <1>10 DEF SessionInv, Stages, Stage

LEMMA OnTileWrittenHolds ==
    ASSUME SessionInv(session), NEW answer, OnTileWritten(answer)
    PROVE  SessionInv(session')
<1> DEFINE s == Written(session, task.id)
           r == Written(Ran(session), task.id)
           plan == [s.activePlan EXCEPT !.busy = FALSE, !.sentTiles = s.activePlan.sentTiles + 1]
           t == [r EXCEPT !.activePlan = plan]
<1>1. /\ task.kind = "TILE_WRITTEN" /\ task \in Task
      /\ session.tasks # <<>> /\ task = Head(session.tasks)
  BY TaskRuns DEF OnTileWritten, task
<1>2. SessionInv(s) /\ SamePlan(session, s)
  BY WrittenHolds
<1>3. r = Ran(s) /\ s.tasks = session.tasks
  BY <1>1, WrittenRan DEF SessionInv
<1>4. \/ ~BelongsToPlan(r, task.generation) /\ session' = r
      \/ /\ BelongsToPlan(r, task.generation)
         /\ session' = Pump([r EXCEPT !.activePlan.busy = FALSE,
                                      !.activePlan.sentTiles = @ + 1], answer)
  BY DEF OnTileWritten, Becomes
<1> HIDE DEF s, r
<1>5. /\ s.tasks # <<>> /\ task = Head(s.tasks) /\ s \in SessionType
      /\ r \in SessionType /\ r.activePlan = s.activePlan
  BY <1>1, <1>2, <1>3, RanEffect DEF SessionInv, SamePlan
<1>6. CASE ~BelongsToPlan(r, task.generation)
  <2>1. task \notin PermitTasks /\ ~ForPlan(s)
    BY <1>1, <1>5, <1>6 DEF PermitTasks, ForPlan, PlanTasks, DoneTasks, TileTasks, BelongsToPlan
  <2>2. SessionInv(r)
    BY <1>2, <1>3, <1>5, <2>1, RanHolds
  <2> QED
    BY <1>4, <1>6, <2>2
<1>7. CASE BelongsToPlan(r, task.generation)
  <2>1. s.activePlan # NoPlan /\ s.activePlan.generation = task.generation
    BY <1>5, <1>7 DEF BelongsToPlan
  <2>2. s.activePlan \in ActivePlan
    BY <1>5, <2>1, PlanFields
  <2>3. session' = Pump(t, answer)
    <3>1. [r EXCEPT !.activePlan.busy = FALSE, !.activePlan.sentTiles = @ + 1] = t
      BY <1>5, <2>2 DEF SessionType, ActivePlan
    <3>2. session' = Pump([r EXCEPT !.activePlan.busy = FALSE,
                                    !.activePlan.sentTiles = @ + 1], answer)
      BY <1>4, <1>7
    <3> QED
      BY <3>1, <3>2, Zenon
  <2>4. t = [Ran(s) EXCEPT !.activePlan = plan]
    BY <1>3
  <2> HIDE DEF t
  <2>5. SessionInv(t)
    BY <1>1, <1>2, <1>5, <2>1, <2>4, TileSentHolds
  <2> QED
    BY <2>3, <2>5, PumpHolds
<1> QED
  BY <1>6, <1>7

\* The tile read is pending.
LEMMA TileKeptHolds ==
    ASSUME NEW s, SessionInv(s), s.activePlan # NoPlan, s.tasks # <<>>,
           Head(s.tasks).kind = "TILE_READ", Head(s.tasks).generation = s.activePlan.generation,
           NEW bytes \in Nat \ {0},
           NEW t, t = [Ran(s) EXCEPT
                          !.activePlan = [s.activePlan EXCEPT !.busy = FALSE, !.pendingTile = bytes]]
    PROVE  SessionInv(t)
<1> DEFINE g == s.activePlan.generation
           plan == [s.activePlan EXCEPT !.busy = FALSE, !.pendingTile = bytes]
<1>1. Stage(s) /\ s \in SessionType
  BY DEF SessionInv, Stages
<1>2. s.activePlan \in ActivePlan
  BY <1>1, PlanFields
<1>3. /\ plan \in ActivePlan /\ plan.generation = g /\ ~plan.busy
      /\ plan.planCommitted = s.activePlan.planCommitted /\ plan.doneQueued = s.activePlan.doneQueued
      /\ plan.readWait = s.activePlan.readWait /\ plan.next = s.activePlan.next
      /\ plan.tiles = s.activePlan.tiles /\ plan.sentTiles = s.activePlan.sentTiles
      /\ plan.pendingTile = bytes
  BY <1>2 DEF ActivePlan
<1>4. t = [Ran(s) EXCEPT !.activePlan = plan]
  OBVIOUS
<1> HIDE DEF plan
<1>5. s.turn = "queued" => plan.readWait
  BY <1>3 DEF SessionInv, Turn
<1>6. /\ t \in SessionType /\ Account(t) /\ Queues(t) /\ Turn(t)
      /\ t.activePlan = plan /\ t.planGeneration = s.planGeneration
      /\ t.tasks = Tail(s.tasks) /\ SameTurn(s, t) /\ SameFrames(s, t)
      /\ t.closed = s.closed
  <2>1. Progresses(s, t, plan)
    BY <1>3, <1>4, <1>5, PlanChanges
  <2> QED
    BY <2>1 DEF Progresses
<1>7. Head(s.tasks) \in TileTasks(g)
  <2>1. Head(s.tasks) \in Task
    BY <1>1, TailFacts DEF SessionType
  <2> QED
    BY <2>1 DEF TileTasks
<1>8. /\ s.activePlan.busy /\ s.activePlan.pendingTile = 0
      /\ ~s.activePlan.doneQueued /\ ~s.activePlan.readWait
      /\ TileStage(t, plan)
  BY <1>1, <1>3, <1>6, <1>7, TileEnds
<1>9. PlanStage(t, plan) /\ DoneStage(t, plan) /\ TurnStage(t, plan)
  <2>1. /\ Head(s.tasks) \notin DoneTasks(g) /\ Head(s.tasks) \notin PlanTasks(g)
        /\ Head(s.tasks) \notin PermitTasksOf(g)
    BY DEF DoneTasks, PlanTasks, PermitTasksOf
  <2> QED
    BY <1>1, <1>3, <1>6, <2>1, OtherStages
<1>10. Progress(plan, t.closed)
  <2>1. Progress(s.activePlan, s.closed)
    BY <1>1 DEF Stage
  <2>2. Underway(s.activePlan) = 1 /\ Underway(plan) = 1
    BY <1>3, <1>8 DEF Underway
  <2> QED
    BY <1>3, <1>6, <1>8, <2>1, <2>2 DEF Progress
<1> QED
  BY <1>3, <1>6, <1>8, <1>9, <1>10 DEF SessionInv, Stages, Stage

LEMMA OnTileReadHolds ==
    ASSUME SessionInv(session), NEW answer, OnTileRead(answer)
    PROVE  SessionInv(session')
<1> DEFINE s == session
           r == Ran(s)
           idle == [s.activePlan EXCEPT !.busy = FALSE]
           t == [r EXCEPT !.activePlan = idle]
           plan == [s.activePlan EXCEPT !.busy = FALSE, !.pendingTile = task.bytes]
           u == [r EXCEPT !.activePlan = plan]
<1>1. /\ task.kind = "TILE_READ" /\ task \in Task
      /\ s.tasks # <<>> /\ task = Head(s.tasks) /\ task.bytes \in Nat
  BY TaskRuns, TaskFields DEF OnTileRead, task
<1>2. s \in SessionType /\ r \in SessionType /\ r.activePlan = s.activePlan
  BY <1>1, RanEffect DEF SessionInv, SamePlan
<1>3. CASE ~BelongsToPlan(r, task.generation)
  <2>1. task \notin PermitTasks /\ ~ForPlan(s)
    BY <1>1, <1>2, <1>3 DEF PermitTasks, ForPlan, PlanTasks, DoneTasks, TileTasks, BelongsToPlan
  <2>2. SessionInv(r)
    BY <1>1, <2>1, RanHolds
  <2>3. session' = Pump(r, answer)
    BY <1>3 DEF OnTileRead, Becomes, StaleResult
  <2> QED
    BY <2>2, <2>3, PumpHolds
<1>4. CASE BelongsToPlan(r, task.generation)
  <2>1. s.activePlan # NoPlan /\ s.activePlan.generation = task.generation
    BY <1>2, <1>4 DEF BelongsToPlan
  <2>2. s.activePlan \in ActivePlan
    BY <1>2, <2>1, PlanFields
  <2>3. \/ task.bytes = 0 /\ session' = FailPlan(t)
        \/ task.bytes # 0 /\ session' = IF u.closed THEN u ELSE TrySendPending(u, answer)
    <3>1. t = [r EXCEPT !.activePlan.busy = FALSE]
      BY <1>2, <2>2 DEF SessionType
    <3>2. u = [t EXCEPT !.activePlan.pendingTile = task.bytes]
      BY <1>2, <2>2 DEF SessionType, ActivePlan
    <3> DEFINE v == [r EXCEPT !.activePlan.busy = FALSE]
               w == [v EXCEPT !.activePlan.pendingTile = task.bytes]
    <3>3. \/ task.bytes = 0 /\ session' = FailPlan(v)
          \/ task.bytes # 0 /\ session' = IF w.closed THEN w ELSE TrySendPending(w, answer)
      BY <1>4 DEF OnTileRead, Becomes
    <3>4. t = v
      BY <3>1
    <3> HIDE DEF t, v
    <3>5. u = w
      BY <3>2, <3>4
    <3> HIDE DEF u, w
    <3> QED
      BY <3>3, <3>4, <3>5
  <2>4. idle \in ActivePlan /\ idle.readWait = s.activePlan.readWait /\ idle # NoPlan
    BY <2>2 DEF ActivePlan, NoPlan
  <2>5. /\ plan \in ActivePlan /\ plan # NoPlan /\ ~plan.busy /\ plan.pendingTile = task.bytes
    BY <1>1, <2>2 DEF ActivePlan, NoPlan
  <2>6. t = [Ran(s) EXCEPT !.activePlan = idle] /\ u = [Ran(s) EXCEPT !.activePlan = plan]
    OBVIOUS
  <2>7. CASE task.bytes = 0
    <3> HIDE DEF t, idle
    <3>1. s.turn = "queued" => idle.readWait
      BY <2>4 DEF SessionInv, Turn
    <3>2. Progresses(s, t, idle)
      BY <1>1, <2>1, <2>4, <2>6, <3>1, PlanChanges
    <3>3. t \in SessionType /\ Account(t) /\ Queues(t) /\ Turn(t) /\ t.activePlan = idle
      BY <1>1, <3>2 DEF Progresses
    <3> QED
      BY <2>3, <2>4, <2>7, <3>3, FailPlanHolds
  <2>8. CASE task.bytes # 0
    <3> HIDE DEF u
    <3>1. SessionInv(u)
      BY <1>1, <2>1, <2>6, <2>8, TileKeptHolds
    <3>2. u.activePlan = plan
      BY <1>2, <2>6 DEF SessionType
    <3> HIDE DEF plan
    <3>3. u.activePlan # NoPlan /\ ~u.activePlan.busy /\ u.activePlan.pendingTile > 0
      BY <1>1, <2>5, <2>8, <3>2
    <3>4. ~u.closed => SessionInv(TrySendPending(u, answer))
      BY <3>1, <3>3, TrySendPendingHolds
    <3> QED
      BY <2>3, <2>8, <3>1, <3>4
  <2> QED
    BY <2>7, <2>8
<1> QED
  BY <1>3, <1>4

\* The permit at the head leaves the queue: nobody has the turn any more.
LEMMA PermitUsed ==
    ASSUME NEW s, SessionInv(s), s.tasks # <<>>, Head(s.tasks) \in PermitTasks,
           NEW t, t.tasks = Tail(s.tasks), t.reads = s.reads
    PROVE  s.turn = "held" /\ NoTurn(t)
<1>1. s.tasks \in Seq(Task) /\ Turn(s)
  BY DEF SessionInv, SessionType
<1>2. ~None(s.tasks, PermitTasks)
  BY <1>1, TailFacts DEF None
<1>3. s.turn = "held"
  BY <1>1, <1>2 DEF Turn, NoTurn, Absent
<1>4. None(t.tasks, PermitTasks) /\ \A x \in s.reads : x \notin OpenReads
  BY <1>1, <1>2, TailTokens DEF Turn, AtMostOne
<1>5. NoTurn(t)
  <2>1. None(<<>>, {})
    BY DEF None
  <2> QED
    BY <1>4, <2>1 DEF NoTurn, Absent
<1> QED
  BY <1>3, <1>5

\* A permit given back: the turn is free.
LEMMA PermitReturnedHolds ==
    ASSUME SessionInv(session), Running("PERMIT"),
           session.closed \/ ~BelongsToPlan(Ran(session), task.generation),
           NEW returned, returned = [Ran(session) EXCEPT !.turn = "none"]
    PROVE  SessionInv(returned)
<1> DEFINE s == session
           r == Ran(s)
           g == s.activePlan.generation
<1>1. /\ Running("PERMIT") /\ task.kind = "PERMIT" /\ task \in Task
      /\ s.tasks # <<>> /\ task = Head(s.tasks) /\ task.generation \in Nat \ {0}
      /\ Head(s.tasks) \in PermitTasks
  BY TaskRuns, TaskFields DEF task, GenerationKinds, PermitTasks
<1>2. /\ s \in SessionType /\ Stages(s) /\ s.tasks \in Seq(Task)
      /\ s.planGeneration \in Nat /\ s.nextDeliveryId \in Nat
  BY DEF SessionInv, SessionType
<1>3. /\ r \in SessionType /\ r.tasks = Tail(s.tasks) /\ r.closed = s.closed
      /\ Account(r) /\ Queues(r) /\ SamePlan(s, r) /\ SameTurn(s, r) /\ SameFrames(s, r)
  BY <1>1, <1>2, RanEffect, RanFacts
<1>4. returned = [r EXCEPT !.turn = "none"]
  OBVIOUS
<1> HIDE DEF r
<1>5. /\ returned \in SessionType /\ returned.turn = "none" /\ returned.reads = r.reads
      /\ SamePlan(r, returned) /\ SameCredit(r, returned)
      /\ SameFrames(r, returned) /\ returned.tasks = r.tasks
      /\ returned.closed = r.closed /\ returned.state = r.state
  BY <1>3, <1>4 DEF SessionType, SamePlan, SameCredit, SameFrames
<1>6. /\ SamePlan(s, returned) /\ SameFrames(s, returned) /\ returned.reads = s.reads
      /\ returned.tasks = Tail(s.tasks) /\ returned.closed = s.closed
  BY <1>3, <1>5 DEF SamePlan, SameFrames, SameTurn
<1>7. Account(returned)
  BY <1>3, <1>5, AccountSame
<1>8. Queues(returned)
  <2>1. /\ returned.planGeneration >= r.planGeneration /\ returned.nextDeliveryId >= r.nextDeliveryId
    BY <1>3, <1>5, SMTT(30) DEF SamePlan, SameCredit, SessionType
  <2> QED
    BY <1>3, <1>5, <2>1, TasksSame, FramesSame, ReadsSame DEF Queues
<1>9. Turn(returned)
  <2>1. NoTurn(returned)
    BY <1>1, <1>6, PermitUsed
  <2> QED
    BY <1>5, <2>1, TurnFree
<1>10. Stages(returned)
  <2> SUFFICES ASSUME s.activePlan # NoPlan PROVE Stage(returned)
    BY <1>6 DEF Stages, SamePlan
  <2>1. Stage(s) /\ s.activePlan \in ActivePlan
    BY <1>2, PlanFields DEF Stages
  <2>2. /\ Head(s.tasks) \notin PlanTasks(g) /\ Head(s.tasks) \notin DoneTasks(g)
        /\ Head(s.tasks) \notin TileTasks(g)
    BY <1>1 DEF PlanTasks, DoneTasks, TileTasks
  <2>3. /\ Alike(s.tasks, returned.tasks, PlanTasks(g)) /\ Alike(s.tasks, returned.tasks, DoneTasks(g))
        /\ Alike(s.tasks, returned.tasks, TileTasks(g))
    BY <1>1, <1>2, <1>6, <2>2, AlikeTail
  <2>4. AlikeFrames(s, returned, g) /\ AlikeReads(s, returned, g)
    BY <1>6, AlikeFramesSame DEF AlikeReads
  <2>5. PlanStage(returned, s.activePlan)
    BY <1>6, <2>1, <2>3, <2>4, PlanStageKept DEF Stage, AlikeFrames
  <2>6. DoneStage(returned, s.activePlan)
    BY <1>6, <2>1, <2>3, <2>4, DoneStageKept DEF Stage, AlikeFrames
  <2>7. TileStage(returned, s.activePlan)
    BY <1>6, <2>1, <2>3, <2>4, TileStageKept DEF Stage, AlikeFrames
  <2>8. TurnStage(returned, s.activePlan)
    <3>1. TurnStage(s, s.activePlan) /\ s.turn = "held"
      BY <1>1, <2>1, PermitUsed, <1>6 DEF Stage
    <3>2. CASE s.closed
      <4>1. None(s.tasks, PermitTasksOf(g)) => None(returned.tasks, PermitTasksOf(g))
        BY <1>1, <1>2, <1>6, TailTokens
      <4> QED
        BY <1>6, <3>1, <3>2, <4>1 DEF TurnStage
    <3>3. CASE ~s.closed
      <4>1. ~BelongsToPlan(r, task.generation) /\ r.activePlan = s.activePlan
        BY <1>3, <3>3 DEF SamePlan, r
      <4>2. Head(s.tasks) \notin PermitTasksOf(g)
        BY <1>1, <4>1 DEF BelongsToPlan, PermitTasksOf
      <4>3. Alike(s.tasks, returned.tasks, PermitTasksOf(g))
        BY <1>1, <1>2, <1>6, <4>2, AlikeTail
      <4> QED
        BY <1>6, <3>1, <4>3 DEF TurnStage, Alike
    <3> QED
      BY <3>2, <3>3
  <2>9. Progress(s.activePlan, returned.closed)
    BY <1>6, <2>1 DEF Stage
  <2> QED
    BY <1>6, <2>1, <2>5, <2>6, <2>7, <2>8, <2>9 DEF Stage, SamePlan
<1> QED
  BY <1>3, <1>5, <1>7, <1>8, <1>9, <1>10 DEF SessionInv

LEMMA OnReadPermitGrantedHolds ==
    ASSUME SessionInv(session), NEW answer, OnReadPermitGranted(answer)
    PROVE  SessionInv(session')
<1> DEFINE s == session
           r == Ran(s)
           g == s.activePlan.generation
           returned == [r EXCEPT !.turn = "none"]
           plan == [s.activePlan EXCEPT !.readWait = FALSE]
           t == [r EXCEPT !.activePlan = plan]
<1>1. /\ Running("PERMIT") /\ task.kind = "PERMIT" /\ task \in Task
      /\ s.tasks # <<>> /\ task = Head(s.tasks) /\ task.generation \in Nat \ {0}
      /\ Head(s.tasks) \in PermitTasks
  BY TaskRuns, TaskFields DEF OnReadPermitGranted, task, GenerationKinds, PermitTasks
<1>2. /\ s \in SessionType /\ Stages(s) /\ s.tasks \in Seq(Task)
      /\ s.planGeneration \in Nat /\ s.nextDeliveryId \in Nat
  BY DEF SessionInv, SessionType
<1>3. /\ r \in SessionType /\ r.tasks = Tail(s.tasks) /\ r.closed = s.closed
      /\ Account(r) /\ Queues(r) /\ SamePlan(s, r) /\ SameTurn(s, r) /\ SameFrames(s, r)
  BY <1>1, <1>2, RanEffect, RanFacts
<1>4. CASE r.closed \/ ~BelongsToPlan(r, task.generation)
  <2>1. session' = Pump(returned, answer)
    BY <1>4 DEF OnReadPermitGranted, Becomes, PermitReturned
  <2>2. session.closed \/ ~BelongsToPlan(Ran(session), task.generation)
    BY <1>3, <1>4
  <2> HIDE DEF r
  <2>3. SessionInv(returned)
    BY <1>1, <2>2, PermitReturnedHolds DEF r
  <2> HIDE DEF returned
  <2> QED
    BY <2>1, <2>3, PumpHolds
<1>5. CASE ~(r.closed \/ ~BelongsToPlan(r, task.generation))
  <2>1. /\ s.activePlan # NoPlan /\ Stage(s) /\ g = task.generation /\ ~s.closed
        /\ r.activePlan = s.activePlan
    BY <1>2, <1>3, <1>5 DEF Stages, BelongsToPlan, SamePlan
  <2>2. s.activePlan \in ActivePlan
    BY <1>2, <2>1, PlanFields
  <2>3. session' = StartTileRead(t, answer)
    <3>1. t = [r EXCEPT !.activePlan.readWait = FALSE]
      BY <1>3, <2>1, <2>2 DEF SessionType
    <3>2. session' = StartTileRead([r EXCEPT !.activePlan.readWait = FALSE], answer)
      BY <1>5 DEF OnReadPermitGranted, Becomes
    <3> HIDE DEF t
    <3> QED
      BY <3>1, <3>2, Zenon
  <2>4. /\ plan \in ActivePlan /\ plan.generation = g /\ ~plan.readWait
        /\ plan.planCommitted = s.activePlan.planCommitted /\ plan.doneQueued = s.activePlan.doneQueued
        /\ plan.busy = s.activePlan.busy /\ plan.next = s.activePlan.next
        /\ plan.tiles = s.activePlan.tiles /\ plan.sentTiles = s.activePlan.sentTiles
        /\ plan.pendingTile = s.activePlan.pendingTile
    BY <2>2 DEF ActivePlan
  <2>5. t = [Ran(s) EXCEPT !.activePlan = plan]
    OBVIOUS
  <2> HIDE DEF t, plan
  <2>6. s.turn = "held"
    BY <1>1, <1>3, PermitUsed DEF SameTurn
  <2>7. Progresses(s, t, plan)
    BY <1>1, <2>1, <2>4, <2>5, <2>6, PlanChanges
  <2>8. /\ t \in SessionType /\ Account(t) /\ Queues(t)
        /\ t.activePlan = plan /\ t.planGeneration = s.planGeneration
        /\ t.tasks = Tail(s.tasks) /\ SameTurn(s, t) /\ SameFrames(s, t)
        /\ t.closed = s.closed /\ t.turn = s.turn /\ t.reads = s.reads
    BY <2>7 DEF Progresses, SameTurn
  <2>9. NoTurn(t)
    BY <1>1, <2>8, PermitUsed
  <2>10. s.activePlan.readWait
    <3>1. ~None(s.tasks, PermitTasksOf(g))
      BY <1>1, <1>2, <2>1, TailFacts DEF None, PermitTasksOf, PermitTasks
    <3> QED
      BY <2>1, <3>1 DEF Stage, TurnStage
  <2>11. /\ s.activePlan.planCommitted /\ ~s.activePlan.busy /\ s.activePlan.pendingTile = 0
         /\ s.activePlan.next < s.activePlan.tiles
         /\ Progress(s.activePlan, s.closed)
    BY <2>1, <2>2, <2>10 DEF Stage, Progress, Underway, ActivePlan
  <2>12. PlanStage(t, plan) /\ DoneStage(t, plan) /\ TileStage(t, plan)
    <3>1. /\ Head(s.tasks) \notin DoneTasks(g) /\ Head(s.tasks) \notin PlanTasks(g)
          /\ Head(s.tasks) \notin TileTasks(g)
      BY <1>1 DEF DoneTasks, PlanTasks, TileTasks
    <3> QED
      BY <1>1, <1>2, <2>1, <2>4, <2>8, <3>1, OtherStages
  <2>13. TurnStage(t, plan)
    <3>1. None(t.tasks, PermitTasks)
      BY <2>9 DEF NoTurn, Absent
    <3>2. None(t.tasks, PermitTasksOf(g))
      BY <3>1 DEF None, PermitTasks, PermitTasksOf
    <3> QED
      BY <2>4, <3>2 DEF TurnStage
  <2>14. Progress(plan, t.closed)
    BY <2>4, <2>8, <2>11 DEF Progress, Underway
  <2>15. Stage(t)
    BY <2>1, <2>4, <2>8, <2>12, <2>13, <2>14 DEF Stage
  <2>16. Idle(t)
    <3>1. plan # NoPlan
      BY <2>4 DEF ActivePlan, NoPlan
    <3> QED
      BY <2>1, <2>4, <2>8, <2>11, <3>1 DEF Idle
  <2>17. /\ t.activePlan.pendingTile = 0 /\ ~t.activePlan.readWait
         /\ t.activePlan.next < t.activePlan.tiles /\ t.turn # "queued"
    BY <2>4, <2>6, <2>8, <2>11
  <2> QED
    BY <2>3, <2>8, <2>9, <2>15, <2>16, <2>17, StartTileReadHolds
<1> QED
  BY <1>4, <1>5

--------------------------------------------------------------------------------
\* The other threads queue a task

\* The tasks grow by one of those in tasks, unless the queue is full or the
\* session closed, or there is nothing to queue.
Gains(s, t, tasks) ==
    \/ \E new \in tasks : t.tasks = Append(s.tasks, new) /\ Len(s.tasks) < TaskCapacity
    \/ t.tasks = s.tasks /\ (t.closed \/ tasks = {})

\* A task outside the plan is queued.
LEMMA TaskAddedHolds ==
    ASSUME NEW s, SessionInv(s), NEW t \in SessionType,
           SamePlan(s, t), SameTurn(s, t), SameCredit(s, t), SameFrames(s, t), Ends(s, t),
           NEW new \in Task, new.kind \notin GenerationKinds,
           \/ t.tasks = Append(s.tasks, new) /\ Len(s.tasks) < TaskCapacity
           \/ t.tasks = s.tasks /\ t.closed
    PROVE  SessionInv(t)
<1>1. /\ s \in SessionType /\ s.planGeneration \in Nat /\ t.planGeneration = s.planGeneration
      /\ s.nextDeliveryId \in Nat /\ t.nextDeliveryId = s.nextDeliveryId
      /\ t.turn = s.turn /\ t.reads = s.reads /\ s.tasks \in Seq(Task)
      /\ s.closed => t.closed
  BY DEF SessionInv, SessionType, SamePlan, SameCredit, SameTurn, Ends
<1>2. Account(t)
  BY <1>1, AccountSame DEF SessionInv, Ends
<1>3. Queues(t)
  <2>1. TasksHold(t)
    BY <1>1, TasksGrow DEF SessionInv, Queues
  <2> QED
    BY <1>1, <2>1, FramesSame, ReadsSame DEF SessionInv, Queues
<1>4. \A S : new \notin S => Alike(s.tasks, t.tasks, S)
  <2> SUFFICES ASSUME NEW S, new \notin S PROVE Alike(s.tasks, t.tasks, S)
    OBVIOUS
  <2>1. CASE t.tasks = s.tasks
    BY <2>1 DEF Alike
  <2>2. CASE t.tasks # s.tasks
    BY <1>1, <2>2, AlikeAppend
  <2> QED
    BY <2>1, <2>2
<1>5. Turn(t)
  <2>1. Alike(s.tasks, t.tasks, PermitTasks)
    BY <1>4 DEF PermitTasks, GenerationKinds
  <2>2. t.turn = "queued" => t.activePlan.readWait
    BY <1>1 DEF SessionInv, Turn, SamePlan
  <2> QED
    BY <1>1, <2>1, <2>2, TurnSame DEF SessionInv
<1>6. Stages(t)
  <2> DEFINE g == s.activePlan.generation
  <2>1. AlikeTasks(s, t, g)
    BY <1>4 DEF AlikeTasks, PlanTasks, DoneTasks, TileTasks, PermitTasksOf, GenerationKinds
  <2>2. AlikeFrames(s, t, g) /\ AlikeReads(s, t, g)
    BY <1>1, AlikeFramesSame DEF AlikeReads
  <2> QED
    BY <1>1, <2>1, <2>2, StageKept DEF SessionInv
<1> QED
  BY <1>2, <1>3, <1>5, <1>6 DEF SessionInv

LEMMA EnqueueHolds ==
    ASSUME NEW s, SessionInv(s), NEW new \in Task, new.kind \notin GenerationKinds,
           NEW t, t = Enqueue(s, new)
    PROVE  SessionInv(t)
<1>1. /\ t \in SessionType
      /\ SamePlan(s, t) /\ SameTurn(s, t) /\ SameCredit(s, t)
      /\ SameFrames(s, t) /\ Ends(s, t)
      /\ \/ t.tasks = Append(s.tasks, new) /\ Len(s.tasks) < TaskCapacity
         \/ t.tasks = s.tasks /\ t.closed
  BY EnqueueEffect DEF SessionInv
<1> QED
  BY <1>1, TaskAddedHolds

LEMMA SubmitHolds ==
    ASSUME NEW s, SessionInv(s), NEW new \in Task, new.kind \notin GenerationKinds,
           NEW t, t = Submit(s, new)
    PROVE  SessionInv(t)
BY EnqueueHolds DEF Submit

LEMMA OpenResolvesHolds ==
    ASSUME SessionInv(session), NEW open, open.epoch \in Nat, open.image \in SomeImage, NEW ok \in BOOLEAN,
           OpenResolves(open, ok)
    PROVE  SessionInv(session')
<1> DEFINE new == [kind |-> "OPENED", epoch |-> open.epoch, image |-> open.image, ok |-> ok]
<1>1. new \in Task /\ new.kind \notin GenerationKinds
  BY DEF Task, GenerationKinds
<1>2. session' = Submit(session, new)
  BY DEF OpenResolves
<1> HIDE DEF new
<1> QED
  BY <1>1, <1>2, SubmitHolds

LEMMA HelloTimerHolds ==
    ASSUME SessionInv(session), HelloTimer
    PROVE  SessionInv(session')
<1> DEFINE new == [kind |-> "HELLO_TIMEOUT"]
           s == session
           t == [s EXCEPT !.helloTimer = FALSE]
<1>1. new \in Task /\ new.kind \notin GenerationKinds
  BY DEF Task, GenerationKinds
<1>2. session' = Submit(t, new)
  BY DEF HelloTimer
<1>3. /\ t \in SessionType /\ t.state = s.state /\ t.tasks = s.tasks /\ t.closed = s.closed
      /\ SamePlan(s, t) /\ SameTurn(s, t) /\ SameFrames(s, t) /\ SameCredit(s, t)
  BY DEF SessionInv, SessionType, SamePlan, SameTurn, SameFrames, SameCredit
<1> HIDE DEF new, t
<1>4. Account(t)
  BY <1>3, AccountSame DEF SessionInv
<1>5. SessionInv(t)
  BY <1>3, <1>4, LedgerHolds DEF SameCredit
<1> QED
  BY <1>1, <1>2, <1>5, SubmitHolds

LEMMA ReleaseTimerHolds ==
    ASSUME SessionInv(session), NEW id \in DOMAIN session.deliveries, ReleaseTimer(id)
    PROVE  SessionInv(session')
<1> DEFINE new == [kind |-> "RELEASE_TIMEOUT", id |-> id]
           s == session
           d == [s.deliveries[id] EXCEPT !.releaseTimer = FALSE]
           t == [s EXCEPT !.deliveries[id] = d]
<1>1. s \in SessionType /\ s.deliveries[id] \in Delivery /\ id \in Nat
  BY DeliveryField DEF SessionInv
<1>2. new \in Task /\ new.kind \notin GenerationKinds
  BY <1>1 DEF Task, GenerationKinds
<1>3. Revised(s.deliveries[id], d, s.deliveries[id].state, s.deliveries[id].retryInProgress, FALSE)
  BY <1>1 DEF Revised, Delivery
<1>4. session' = Submit(t, new)
  <2>1. [s EXCEPT !.deliveries[id].releaseTimer = FALSE] = t
    BY <1>1 DEF SessionType
  <2>2. session' = Submit([s EXCEPT !.deliveries[id].releaseTimer = FALSE], new)
    BY DEF ReleaseTimer
  <2> HIDE DEF t, new
  <2> QED
    BY <2>1, <2>2, Zenon
<1> HIDE DEF new, d
<1>5. Revises(s, t, id, s.deliveries[id].state, s.deliveries[id].retryInProgress, FALSE)
  BY <1>3, Zenon DEF Revises
<1> HIDE DEF t
<1>6. SessionInv(t)
  BY <1>5, RevisesHolds
<1> QED
  BY <1>2, <1>4, <1>6, SubmitHolds

LEMMA RecoveryResultHolds ==
    ASSUME SessionInv(session), NEW read \in session.reads, NEW ok \in BOOLEAN, RecoveryResult(read, ok)
    PROVE  SessionInv(session')
<1> DEFINE new == [kind |-> "RETRY_READ", id |-> read.id, ok |-> ok]
           s == session
           reads == s.reads \ {read}
           t == [s EXCEPT !.reads = reads]
<1>1. /\ s \in SessionType /\ s.planGeneration \in Nat /\ s.nextDeliveryId \in Nat
      /\ Account(s) /\ Queues(s) /\ Turn(s) /\ Stages(s) /\ reads \in SUBSET Read
      /\ read \in Read
  BY DEF SessionInv, SessionType
<1>2. read.kind = "RETRY" /\ session' = Enqueue(t, new)
  BY DEF RecoveryResult
<1>3. new \in Task /\ new.kind \notin GenerationKinds
  BY <1>1, <1>2, ReadFields DEF Task, GenerationKinds
<1>8. t = [s EXCEPT !.reads = reads]
  OBVIOUS
<1>9. \A r : r.kind = "TILE" => (r \in reads <=> r \in s.reads)
  BY <1>2
<1> HIDE DEF reads, t, new
<1>4. /\ t \in SessionType /\ t.reads = reads /\ t.turn = s.turn
      /\ SamePlan(s, t) /\ SameCredit(s, t) /\ SameView(s, t)
      /\ SameFrames(s, t) /\ t.tasks = s.tasks
      /\ t.closed = s.closed /\ t.state = s.state
  BY <1>1, <1>8, ReadsEffect
<1>5. Account(t)
  BY <1>1, <1>4, AccountSame
<1>6. Queues(t)
  <2>1. \A r \in t.reads : r \in s.reads \/ r.kind # "TILE" \/ r.generation <= t.planGeneration
    BY <1>4, <1>9
  <2>2. t.planGeneration >= s.planGeneration /\ t.nextDeliveryId >= s.nextDeliveryId
    BY <1>1, <1>4 DEF SamePlan, SameCredit
  <2> QED
    BY <1>1, <1>4, <2>1, <2>2, TasksSame, FramesSame, ReadsSame DEF Queues
<1>7. Turn(t)
  <2>1. \A r \in OpenReads : r \in t.reads <=> r \in s.reads
    BY <1>4, <1>9 DEF OpenReads
  <2>2. Alike(s.tasks, t.tasks, PermitTasks)
    BY <1>4 DEF Alike
  <2>3. t.turn = "queued" => t.activePlan.readWait
    BY <1>1, <1>4 DEF Turn, SamePlan
  <2> QED
    BY <1>1, <1>4, <2>1, <2>2, <2>3, TurnSame
<1>10. Stages(t)
  <2> DEFINE g == s.activePlan.generation
  <2>1. AlikeReads(s, t, g)
    BY <1>4, <1>9 DEF AlikeReads, TileReadsOf
  <2>2. AlikeTasks(s, t, g) /\ AlikeFrames(s, t, g)
    BY <1>4, AlikeTasksSame, AlikeFramesSame
  <2> QED
    BY <1>1, <1>4, <2>1, <2>2, StageKept
<1>11. SessionInv(t)
  BY <1>4, <1>5, <1>6, <1>7, <1>10 DEF SessionInv
<1> QED
  BY <1>2, <1>3, <1>11, EnqueueHolds

LEMMA TransportClosesHolds ==
    ASSUME SessionInv(session), TransportCloses
    PROVE  SessionInv(session')
<1> DEFINE new == [kind |-> "CLEANUP"]
           s == session
           ledger == [id \in DOMAIN s.deliveries |-> [s.deliveries[id] EXCEPT !.releaseTimer = FALSE]]
           t == [s EXCEPT !.closed = TRUE, !.state = "CERRADA", !.helloTimer = FALSE,
                          !.deliveries = ledger, !.frames = <<>>, !.writing = FALSE]
<1>1. new \in Task /\ new.kind \notin GenerationKinds
  BY DEF Task, GenerationKinds
<1>2. /\ s \in SessionType /\ s.deliveries \in Ledgers
      /\ s.planGeneration \in Nat /\ s.nextDeliveryId \in Nat
  BY DEF SessionInv, SessionType
<1>3. session' = Enqueue(t, new)
  BY <1>2 DEF TransportCloses, Closing, SessionType
<1>4. s.deliveries \in [DOMAIN s.deliveries -> Delivery]
  BY <1>2, LedgerElim
<1>5. /\ ledger \in [DOMAIN s.deliveries -> Delivery]
      /\ \A id \in DOMAIN s.deliveries : ledger[id].reservedBytes = s.deliveries[id].reservedBytes
  BY <1>4 DEF Delivery
<1> HIDE DEF new, ledger
<1>6. ledger \in Ledgers /\ ReservedBytes(ledger) = ReservedBytes(s.deliveries)
      /\ DOMAIN ledger = DOMAIN s.deliveries
  BY <1>2, <1>5, LedgerSameBytes
<1>7. /\ t.closed /\ t.deliveries = ledger /\ t.frames = <<>> /\ ~t.writing
      /\ t.tasks = s.tasks /\ t.freeWindowBytes = s.freeWindowBytes
      /\ t.negotiatedWindowBytes = s.negotiatedWindowBytes /\ t.nextDeliveryId = s.nextDeliveryId
      /\ SamePlan(s, t) /\ SameTurn(s, t)
  BY <1>2 DEF SessionType, SamePlan, SameTurn
<1>8. t \in SessionType
  <2> DEFINE a == [s EXCEPT !.closed = TRUE, !.state = "CERRADA", !.helloTimer = FALSE]
             b == [a EXCEPT !.deliveries = ledger]
  <2>1. a \in SessionType
    BY <1>2 DEF SessionType, States
  <2>2. t = [b EXCEPT !.frames = <<>>, !.writing = FALSE]
    BY <1>2 DEF SessionType
  <2> HIDE DEF a
  <2>3. b \in SessionType
    BY <1>6, <2>1 DEF SessionType
  <2> HIDE DEF b
  <2>4. <<>> \in Seq(Frame)
    OBVIOUS
  <2> HIDE DEF t
  <2> QED
    BY <2>2, <2>3, <2>4 DEF SessionType
<1> HIDE DEF t
<1>9. Account(t)
  <2>1. CASE CreditHolds(s)
    BY <1>6, <1>7, <2>1 DEF SessionInv, Account, CreditHolds
  <2>2. CASE Gone(s)
    <3>1. DOMAIN ledger = {}
      BY <1>6, <2>2, EmptyLedger DEF Gone
    <3>2. ledger = <<>>
      BY <1>6, <3>1, EmptyDomain
    <3>3. Gone(t)
      BY <1>7, <2>2, <3>2 DEF Gone, SamePlan
    <3> QED
      BY <1>6, <1>7, <3>3 DEF SessionInv, Account
  <2> QED
    BY <2>1, <2>2 DEF SessionInv, Account
<1>10. Queues(t)
  <2>1. t.planGeneration >= s.planGeneration /\ t.reads = s.reads
    BY <1>2, <1>7 DEF SamePlan, SameTurn
  <2>2. FramesHold(t)
    BY <1>7, ConstantsAssumption DEF FramesHold
  <2> QED
    BY <1>2, <1>7, <1>8, <2>1, <2>2, TasksSame, ReadsSame DEF SessionInv, Queues
<1>11. Turn(t)
  BY <1>2, <1>7, <1>8, TurnSame DEF SessionInv, Alike, Turn, SamePlan, SameTurn
<1>12. Stages(t)
  <2> SUFFICES ASSUME s.activePlan # NoPlan PROVE Stage(t)
    BY <1>7 DEF Stages, SamePlan
  <2> DEFINE g == s.activePlan.generation
  <2>1. Stage(s) /\ t.activePlan = s.activePlan /\ t.planGeneration = s.planGeneration
    BY <1>7 DEF SessionInv, Stages, SamePlan
  <2>2. Waiting(t) = <<>> /\ t.frames = <<>> /\ t.reads = s.reads /\ t.turn = s.turn
    BY <1>7 DEF Waiting, SameTurn
  <2>3. \A S : Once(<<>>, S) /\ None(<<>>, S)
    BY DEF Once, None
  <2>4. /\ PlanStage(s, s.activePlan) /\ DoneStage(s, s.activePlan)
        /\ TileStage(s, s.activePlan) /\ TurnStage(s, s.activePlan)
        /\ Progress(s.activePlan, s.closed)
    BY <2>1 DEF Stage
  <2>5. PlanStage(t, s.activePlan)
    BY <1>7, <2>2, <2>3, <2>4 DEF PlanStage, PlanAbsent, Absent, AtMostOne
  <2>6. DoneStage(t, s.activePlan)
    BY <1>7, <2>2, <2>3, <2>4 DEF DoneStage, DoneAbsent, Absent, AtMostOne
  <2>7. TileStage(t, s.activePlan)
    BY <1>7, <2>2, <2>3, <2>4 DEF TileStage, TileAbsent, Absent, AtMostOne
  <2>8. TurnStage(t, s.activePlan)
    BY <1>7, <2>4 DEF TurnStage
  <2>9. Progress(s.activePlan, t.closed)
    BY <1>7, <2>4 DEF Progress
  <2> QED
    BY <2>1, <2>5, <2>6, <2>7, <2>8, <2>9 DEF Stage
<1>13. SessionInv(t)
  BY <1>8, <1>9, <1>10, <1>11, <1>12 DEF SessionInv
<1> QED
  BY <1>1, <1>3, <1>13, EnqueueHolds

\* One task more at most, and one of T.
GrowsIn(tasks, more, T) ==
    \/ \E new \in Task : new \in T /\ more = Append(tasks, new)
    \/ more = tasks

\* What stands at the head of the frames becomes a task.
BecomesTask(tasks, more, T, frames, F, reads, R) ==
    /\ AtMostOne(more, T, Tail(frames), F, reads, R)
    /\ ~None(frames, F) /\ None(tasks, T) /\ None(Tail(frames), F)
    /\ \A x \in reads : x \notin R
    /\ None(more, T) => more = tasks

LEMMA HeadBecomesTask ==
    ASSUME NEW tasks \in Seq(Task), NEW frames \in Seq(Frame), frames # <<>>,
           NEW T, NEW F, NEW reads, NEW R, AtMostOne(tasks, T, frames, F, reads, R),
           Head(frames) \in F, NEW more, GrowsIn(tasks, more, T)
    PROVE  BecomesTask(tasks, more, T, frames, F, reads, R)
<1>1. ~None(frames, F)
  BY TailFacts DEF None
<1>2. None(tasks, T) /\ (\A x \in reads : x \notin R) /\ Once(frames, F)
  BY <1>1 DEF AtMostOne
<1>3. None(Tail(frames), F) /\ Once(Tail(frames), F)
  BY <1>2, TailTokens
<1>4. Once(more, T) /\ (None(more, T) => more = tasks)
  <2>1. CASE more = tasks
    BY <2>1 DEF AtMostOne
  <2>2. CASE more # tasks
    <3>1. PICK new \in Task : new \in T /\ more = Append(tasks, new)
      BY <2>2 DEF GrowsIn
    <3> QED
      BY <1>2, <3>1, AppendTokens
  <2> QED
    BY <2>1, <2>2
<1> QED
  BY <1>1, <1>2, <1>3, <1>4 DEF AtMostOne, BecomesTask

\* The callbacks that are queued.
LEMMA SubmitAnyEffect ==
    ASSUME NEW s \in SessionType, NEW tasks \in SUBSET Task, tasks = {} \/ \E new : tasks = {new},
           NEW t, t = SubmitAny(s, tasks)
    PROVE  /\ t \in SessionType
           /\ SamePlan(s, t) /\ SameTurn(s, t) /\ SameCredit(s, t)
           /\ SameView(s, t) /\ SameFrames(s, t) /\ Ends(s, t)
           /\ Gains(s, t, tasks)
<1>1. CASE tasks = {}
  BY <1>1 DEF SubmitAny, Gains, SamePlan, SameTurn, SameCredit, SameView, SameFrames, Ends
<1>2. CASE tasks # {}
  <2>1. PICK new : tasks = {new}
    BY <1>2
  <2>2. new \in Task /\ t = Submit(s, new)
    BY <1>2, <2>1 DEF SubmitAny
  <2>3. /\ t \in SessionType
        /\ SamePlan(s, t) /\ SameTurn(s, t) /\ SameCredit(s, t)
        /\ SameView(s, t) /\ SameFrames(s, t) /\ Ends(s, t)
        /\ \/ t.tasks = Append(s.tasks, new) /\ Len(s.tasks) < TaskCapacity
           \/ t.tasks = s.tasks /\ t.closed
    BY <2>2, SubmitEffect
  <2> QED
    BY <2>1, <2>3 DEF Gains
<1> QED
  BY <1>1, <1>2

LEMMA CallbackTasks ==
    ASSUME NEW frame \in Frame
    PROVE  /\ CommitTask(frame) \in SUBSET Task
           /\ CommitTask(frame) = {} \/ \E new : CommitTask(frame) = {new}
           /\ \A new \in CommitTask(frame) :
                 /\ new \notin PermitTasks
                 /\ new.kind \in GenerationKinds => new.generation = frame.generation
                 /\ \A g : /\ new \notin TileTasks(g)
                           /\ new \in PlanTasks(g) <=> frame \in PlanFrames(g)
                           /\ new \in DoneTasks(g) <=> frame \in DoneFrames(g)
           /\ CommitTask(frame) = {} =>
                 \A g : frame \notin PlanFrames(g) /\ frame \notin DoneFrames(g)
           /\ WrittenTask(frame) \in SUBSET Task
           /\ WrittenTask(frame) = {} \/ \E new : WrittenTask(frame) = {new}
           /\ \A new \in WrittenTask(frame) :
                 /\ new \notin PermitTasks
                 /\ new.kind \in GenerationKinds => new.generation = frame.generation
                 /\ \A g : /\ new \notin PlanTasks(g) /\ new \notin DoneTasks(g)
                           /\ new \in TileTasks(g) <=> frame \in TileFrames(g)
           /\ WrittenTask(frame) = {} => \A g : frame \notin TileFrames(g)
<1>1. /\ frame.kind \in PlainKinds \cup PlanKinds
      /\ frame.kind \in PlanKinds <=> frame.generation \in Nat \ {0}
      /\ frame.id \in Nat
  BY FrameFields
<1>2. CASE frame.kind = "PLAN"
  <2>1. CommitTask(frame) = {[kind |-> "PLAN_COMMITTED", generation |-> frame.generation]}
        /\ WrittenTask(frame) = {}
    BY <1>2 DEF CommitTask, WrittenTask
  <2>2. [kind |-> "PLAN_COMMITTED", generation |-> frame.generation] \in Task
    BY <1>1, <1>2 DEF Task, PlanKinds
  <2> QED
    BY <1>2, <2>1, <2>2 DEF PermitTasks, GenerationKinds, TileTasks, PlanTasks, DoneTasks, TileFrames,
                            PlanFrames, DoneFrames
<1>3. CASE frame.kind = "DONE"
  <2>1. CommitTask(frame) = {[kind |-> "DONE_COMMITTED", generation |-> frame.generation]}
        /\ WrittenTask(frame) = {}
    BY <1>3 DEF CommitTask, WrittenTask
  <2>2. [kind |-> "DONE_COMMITTED", generation |-> frame.generation] \in Task
    BY <1>1, <1>3 DEF Task, PlanKinds
  <2> QED
    BY <1>3, <2>1, <2>2 DEF PermitTasks, GenerationKinds, TileTasks, PlanTasks, DoneTasks, TileFrames,
                            PlanFrames, DoneFrames
<1>4. CASE frame.kind = "TILE"
  <2> DEFINE c == [kind |-> "TILE_COMMITTED", id |-> frame.id]
             w == [kind |-> "TILE_WRITTEN", generation |-> frame.generation, id |-> frame.id]
  <2>1. CommitTask(frame) = {c} /\ WrittenTask(frame) = {w}
    BY <1>4 DEF CommitTask, WrittenTask
  <2>2. /\ c \in Task /\ w \in Task
        /\ c.kind = "TILE_COMMITTED"
        /\ w.kind = "TILE_WRITTEN" /\ w.generation = frame.generation
    BY <1>1, <1>4 DEF Task, PlanKinds
  <2> HIDE DEF c, w
  <2>3. /\ c \notin PermitTasks /\ c.kind \notin GenerationKinds
        /\ \A g : /\ c \notin TileTasks(g) /\ c \notin PlanTasks(g) /\ c \notin DoneTasks(g)
                  /\ frame \notin PlanFrames(g) /\ frame \notin DoneFrames(g)
    BY <1>4, <2>2 DEF PermitTasks, GenerationKinds, TileTasks, PlanTasks, DoneTasks, PlanFrames, DoneFrames
  <2>4. /\ w \notin PermitTasks
        /\ \A g : /\ w \notin PlanTasks(g) /\ w \notin DoneTasks(g)
                  /\ w \in TileTasks(g) <=> frame \in TileFrames(g)
    BY <1>4, <2>2 DEF PermitTasks, TileTasks, PlanTasks, DoneTasks, TileFrames
  <2> QED
    BY <2>1, <2>2, <2>3, <2>4
<1>5. CASE frame.kind = "RETRY"
  <2>1. CommitTask(frame) = {} /\ WrittenTask(frame) = {[kind |-> "RETRY_WRITTEN", id |-> frame.id]}
    BY <1>5 DEF CommitTask, WrittenTask
  <2>2. [kind |-> "RETRY_WRITTEN", id |-> frame.id] \in Task
    BY <1>1 DEF Task
  <2> QED
    BY <1>5, <2>1, <2>2 DEF PermitTasks, GenerationKinds, TileTasks, PlanTasks, DoneTasks, TileFrames,
                            PlanFrames, DoneFrames
<1>6. CASE frame.kind \notin {"PLAN", "DONE", "TILE", "RETRY"}
  <2>1. CommitTask(frame) = {} /\ WrittenTask(frame) = {}
    BY <1>6 DEF CommitTask, WrittenTask
  <2> QED
    BY <1>6, <2>1 DEF TileFrames, PlanFrames, DoneFrames
<1> QED
  BY <1>2, <1>3, <1>4, <1>5, <1>6

\* The tasks that gained some: what they show of S, and their bounds.
GainsOnly(s, t, tasks) ==
    /\ \A S : (\A new \in tasks : new \notin S) => Alike(s.tasks, t.tasks, S)
    /\ \A S : (\A new \in tasks : new \in S) => GrowsIn(s.tasks, t.tasks, S)
    /\ tasks # {} /\ t.tasks = s.tasks => t.closed
    /\ /\ TasksHold(s) /\ t.planGeneration = s.planGeneration
       /\ \A new \in tasks : new.kind \in GenerationKinds => new.generation <= s.planGeneration
       => TasksHold(t)

LEMMA GainsFacts ==
    ASSUME NEW s \in SessionType, NEW t \in SessionType, NEW tasks \in SUBSET Task, Gains(s, t, tasks)
    PROVE  GainsOnly(s, t, tasks)
<1>0. s.tasks \in Seq(Task)
  BY DEF SessionType
<1>1. CASE t.tasks = s.tasks
  <2>1. t.planGeneration = s.planGeneration => t.planGeneration >= s.planGeneration
    BY DEF SessionType
  <2>2. \A new \in Task : Append(s.tasks, new) # s.tasks
    <3> SUFFICES ASSUME NEW new \in Task PROVE Append(s.tasks, new) # s.tasks
      OBVIOUS
    <3>1. Len(Append(s.tasks, new)) = Len(s.tasks) + 1 /\ Len(s.tasks) \in Nat
      BY <1>0, AppendFacts
    <3> QED
      BY <3>1
  <2>3. tasks # {} => t.closed
    BY <1>1, <2>2 DEF Gains
  <2>4. TasksHold(s) /\ t.planGeneration = s.planGeneration => TasksHold(t)
    BY <1>1, <2>1, TasksSame
  <2> QED
    BY <1>1, <2>3, <2>4 DEF Alike, GainsOnly, GrowsIn
<1>2. CASE t.tasks # s.tasks
  <2>1. PICK new \in tasks : t.tasks = Append(s.tasks, new) /\ Len(s.tasks) < TaskCapacity
    BY <1>2 DEF Gains
  <2>2. new \in Task
    OBVIOUS
  <2>3. \A S : new \notin S => Alike(s.tasks, t.tasks, S)
    BY <1>0, <2>1, <2>2, AlikeAppend
  <2>4. /\ TasksHold(s) /\ t.planGeneration = s.planGeneration
        /\ new.kind \in GenerationKinds => new.generation <= s.planGeneration
        => TasksHold(t)
    BY <2>1, <2>2, TasksGrow
  <2> QED
    BY <1>2, <2>1, <2>2, <2>3, <2>4 DEF GainsOnly, GrowsIn
<1> QED
  BY <1>1, <1>2

LEMMA CommitHeadHolds ==
    ASSUME SessionInv(session), CommitHead
    PROVE  SessionInv(session')
<1> DEFINE s == session
           t == session'
           u == [s EXCEPT !.writing = TRUE]
           frame == Head(s.frames)
           tasks == CommitTask(frame)
           g == s.activePlan.generation
<1>1. s.frames # <<>> /\ ~s.writing /\ t = SubmitAny(u, tasks)
  BY DEF CommitHead
<1>2. /\ s \in SessionType /\ s.frames \in Seq(Frame) /\ s.tasks \in Seq(Task) /\ frame \in Frame
      /\ s.planGeneration \in Nat /\ s.nextDeliveryId \in Nat
      /\ Account(s) /\ Queues(s) /\ Turn(s) /\ Stages(s)
      /\ frame = s.frames[1] /\ 1 \in 1..Len(s.frames)
  BY <1>1, TailFacts DEF SessionInv, SessionType
<1>3. /\ u \in SessionType /\ SamePlan(s, u) /\ SameTurn(s, u) /\ SameCredit(s, u)
      /\ u.frames = s.frames /\ u.writing /\ u.tasks = s.tasks
      /\ u.closed = s.closed /\ u.state = s.state
  BY <1>2 DEF SessionType, SamePlan, SameTurn, SameCredit
<1> HIDE DEF u
<1>4. /\ t \in SessionType
      /\ SamePlan(u, t) /\ SameTurn(u, t) /\ SameCredit(u, t)
      /\ SameFrames(u, t) /\ Ends(u, t)
      /\ Gains(u, t, tasks)
  BY <1>1, <1>2, <1>3, CallbackTasks, SubmitAnyEffect
<1> HIDE DEF t
<1>5. /\ SamePlan(s, t) /\ SameTurn(s, t) /\ SameCredit(s, t) /\ Ends(s, t) /\ Gains(s, t, tasks)
      /\ t.frames = s.frames /\ t.writing /\ t.turn = s.turn /\ t.reads = s.reads
      /\ t.planGeneration = s.planGeneration /\ t.nextDeliveryId = s.nextDeliveryId
      /\ s.closed => t.closed
  BY <1>3, <1>4 DEF SamePlan, SameTurn, SameCredit, SameFrames, Ends, Gains
<1>6. Waiting(s) = s.frames /\ Waiting(t) = Tail(s.frames)
  BY <1>1, <1>5 DEF Waiting
<1>7. Account(t)
  BY <1>2, <1>4, <1>5, AccountSame DEF Ends
<1>12. GainsOnly(s, t, tasks)
  BY <1>2, <1>4, <1>5, CallbackTasks, GainsFacts
<1>8. /\ \A S : (\A new \in tasks : new \notin S) => Alike(s.tasks, t.tasks, S)
      /\ \A S : (\A new \in tasks : new \in S) => GrowsIn(s.tasks, t.tasks, S)
      /\ tasks # {} /\ t.tasks = s.tasks => t.closed
  BY <1>12 DEF GainsOnly
<1>9. Queues(t)
  <2>1. TasksHold(t)
    <3>1. frame.generation <= s.planGeneration
      BY <1>2 DEF Queues, FramesHold
    <3>2. \A new \in tasks : new.kind \in GenerationKinds => new.generation <= s.planGeneration
      BY <1>2, <3>1, CallbackTasks
    <3> QED
      BY <1>2, <1>5, <1>12, <3>2 DEF Queues, GainsOnly
  <2>2. FramesHold(t)
    BY <1>1, <1>2, <1>5 DEF Queues, FramesHold
  <2>3. ReadsHold(t)
    BY <1>2, <1>4, <1>5, ReadsSame DEF Queues
  <2> QED
    BY <2>1, <2>2, <2>3 DEF Queues
<1>10. Turn(t)
  <2>1. Alike(s.tasks, t.tasks, PermitTasks)
    BY <1>2, <1>8, CallbackTasks
  <2>2. t.turn = "queued" => t.activePlan.readWait
    BY <1>2, <1>5 DEF Turn, SamePlan
  <2> QED
    BY <1>2, <1>4, <1>5, <2>1, <2>2, TurnSame
<1>11. Stages(t)
  <2> SUFFICES ASSUME s.activePlan # NoPlan PROVE Stage(t)
    BY <1>5 DEF Stages, SamePlan
  <2>1. Stage(s) /\ t.activePlan = s.activePlan
    BY <1>2, <1>5 DEF Stages, SamePlan
  <2>2. /\ PlanStage(s, s.activePlan) /\ DoneStage(s, s.activePlan)
        /\ TileStage(s, s.activePlan) /\ TurnStage(s, s.activePlan)
        /\ Progress(s.activePlan, s.closed)
    BY <2>1 DEF Stage
  <2>3. PlanStage(t, s.activePlan)
    <3>1. CASE frame \in PlanFrames(g)
      <4>1. GrowsIn(s.tasks, t.tasks, PlanTasks(g))
        BY <1>2, <1>8, <3>1, CallbackTasks
      <4>2. AtMostOne(s.tasks, PlanTasks(g), s.frames, PlanFrames(g), {}, {})
        BY <1>6, <2>2 DEF PlanStage
      <4>3. /\ AtMostOne(t.tasks, PlanTasks(g), Tail(s.frames), PlanFrames(g), {}, {})
            /\ ~None(s.frames, PlanFrames(g))
            /\ None(t.tasks, PlanTasks(g)) => t.tasks = s.tasks
        <5>1. BecomesTask(s.tasks, t.tasks, PlanTasks(g), s.frames, PlanFrames(g), {}, {})
          BY <1>1, <1>2, <3>1, <4>1, <4>2, HeadBecomesTask
        <5> QED
          BY <5>1 DEF BecomesTask
      <4>4. ~s.activePlan.planCommitted
        BY <1>6, <2>2, <4>3 DEF PlanStage, PlanAbsent, Absent
      <4>5. t.tasks = s.tasks => t.closed
        <5>1. tasks # {}
          BY <1>2, <3>1, CallbackTasks
        <5> QED
          BY <1>8, <5>1
      <4> QED
        BY <1>6, <4>3, <4>4, <4>5 DEF PlanStage, PlanAbsent, Absent
    <3>2. CASE frame \notin PlanFrames(g)
      <4>1. Alike(s.tasks, t.tasks, PlanTasks(g))
        BY <1>2, <1>8, <3>2, CallbackTasks
      <4>2. Alike(Waiting(s), Waiting(t), PlanFrames(g))
        BY <1>1, <1>2, <1>6, <3>2, AlikeTail
      <4> QED
        BY <1>5, <2>2, <4>1, <4>2, PlanStageKept
    <3> QED
      BY <3>1, <3>2
  <2>4. DoneStage(t, s.activePlan)
    <3>1. CASE frame \in DoneFrames(g)
      <4>1. GrowsIn(s.tasks, t.tasks, DoneTasks(g))
        BY <1>2, <1>8, <3>1, CallbackTasks
      <4>2. AtMostOne(s.tasks, DoneTasks(g), s.frames, DoneFrames(g), {}, {})
        BY <1>6, <2>2 DEF DoneStage
      <4>3. /\ AtMostOne(t.tasks, DoneTasks(g), Tail(s.frames), DoneFrames(g), {}, {})
            /\ ~None(s.frames, DoneFrames(g))
            /\ None(t.tasks, DoneTasks(g)) => t.tasks = s.tasks
        <5>1. BecomesTask(s.tasks, t.tasks, DoneTasks(g), s.frames, DoneFrames(g), {}, {})
          BY <1>1, <1>2, <3>1, <4>1, <4>2, HeadBecomesTask
        <5> QED
          BY <5>1 DEF BecomesTask
      <4>4. s.activePlan.doneQueued
        BY <1>6, <2>2, <4>3 DEF DoneStage
      <4>5. t.tasks = s.tasks => t.closed
        <5>1. tasks # {}
          BY <1>2, <3>1, CallbackTasks
        <5> QED
          BY <1>8, <5>1
      <4> QED
        BY <1>6, <4>3, <4>4, <4>5 DEF DoneStage, DoneAbsent, Absent
    <3>2. CASE frame \notin DoneFrames(g)
      <4>1. Alike(s.tasks, t.tasks, DoneTasks(g))
        BY <1>2, <1>8, <3>2, CallbackTasks
      <4>2. Alike(Waiting(s), Waiting(t), DoneFrames(g)) /\ Alike(s.frames, t.frames, DoneFrames(g))
        BY <1>1, <1>2, <1>5, <1>6, <3>2, AlikeTail DEF Alike
      <4> QED
        BY <1>5, <2>2, <4>1, <4>2, DoneStageKept
    <3> QED
      BY <3>1, <3>2
  <2>5. TileStage(t, s.activePlan)
    <3>1. Alike(s.tasks, t.tasks, TileTasks(g))
      BY <1>2, <1>8, CallbackTasks
    <3>2. Alike(s.frames, t.frames, TileFrames(g)) /\ AlikeReads(s, t, g)
      BY <1>5 DEF Alike, AlikeReads
    <3> QED
      BY <1>5, <2>2, <3>1, <3>2, TileStageKept
  <2>6. TurnStage(t, s.activePlan)
    <3>1. \A new \in tasks : new \notin PermitTasksOf(g)
      BY <1>2, CallbackTasks DEF PermitTasks, PermitTasksOf
    <3>2. Alike(s.tasks, t.tasks, PermitTasksOf(g))
      BY <1>8, <3>1
    <3> QED
      BY <1>5, <2>2, <3>2, TurnStageKept
  <2>7. Progress(s.activePlan, t.closed)
    BY <1>5, <2>2 DEF Progress
  <2> QED
    BY <1>5, <2>1, <2>3, <2>4, <2>5, <2>6, <2>7 DEF Stage
<1> QED
  BY <1>4, <1>7, <1>9, <1>10, <1>11 DEF SessionInv, t

LEMMA FramesShrink ==
    ASSUME NEW s \in SessionType, NEW t \in SessionType, FramesHold(s), s.frames # <<>>,
           t.frames = Tail(s.frames), ~t.writing,
           t.planGeneration = s.planGeneration, t.nextDeliveryId = s.nextDeliveryId
    PROVE  FramesHold(t)
<1>1. /\ s.frames \in Seq(Frame) /\ Len(t.frames) = Len(s.frames) - 1 /\ Len(s.frames) \in Nat
      /\ \A i \in 1..Len(t.frames) : i + 1 \in 1..Len(s.frames) /\ t.frames[i] = s.frames[i + 1]
  BY TailFacts DEF SessionType
<1>2. Len(t.frames) <= FrameCapacity
  BY <1>1, ConstantsAssumption DEF FramesHold
<1>3. \A i \in 1..Len(t.frames) :
         t.frames[i].generation <= t.planGeneration /\ t.frames[i].id < t.nextDeliveryId
  BY <1>1 DEF FramesHold
<1>4. ASSUME NEW i \in 1..Len(t.frames), NEW j \in 1..Len(t.frames),
             t.frames[i] = t.frames[j], t.frames[i].generation > 0
      PROVE  i = j
  <2>1. s.frames[i + 1] = s.frames[j + 1] /\ s.frames[i + 1].generation > 0
    BY <1>1, <1>4
  <2>2. i + 1 = j + 1
    BY <1>1, <2>1 DEF FramesHold
  <2> QED
    BY <2>2
<1> QED
  BY <1>2, <1>3, <1>4 DEF FramesHold

LEMMA WriteDoneHolds ==
    ASSUME SessionInv(session), WriteDone
    PROVE  SessionInv(session')
<1> DEFINE s == session
           t == session'
           u == [s EXCEPT !.frames = Tail(s.frames), !.writing = FALSE]
           frame == Head(s.frames)
           tasks == WrittenTask(frame)
           g == s.activePlan.generation
<1>0. s \in SessionType /\ Queues(s) /\ s.writing /\ s.frames # <<>>
  BY DEF SessionInv, WriteDone, Queues, FramesHold
<1>1. t = SubmitAny(u, tasks)
  BY <1>0 DEF WriteDone, SessionType
<1>2. /\ s.frames \in Seq(Frame) /\ s.tasks \in Seq(Task) /\ frame \in Frame
      /\ s.planGeneration \in Nat /\ s.nextDeliveryId \in Nat
      /\ Account(s) /\ Turn(s) /\ Stages(s)
      /\ frame = s.frames[1] /\ 1 \in 1..Len(s.frames)
      /\ Tail(s.frames) \in Seq(Frame)
  BY <1>0, TailFacts DEF SessionInv, SessionType
<1>3. /\ u \in SessionType /\ SamePlan(s, u) /\ SameTurn(s, u) /\ SameCredit(s, u)
      /\ u.frames = Tail(s.frames) /\ ~u.writing /\ u.tasks = s.tasks
      /\ u.closed = s.closed /\ u.state = s.state
  BY <1>0, <1>2 DEF SessionType, SamePlan, SameTurn, SameCredit
<1> HIDE DEF u
<1>4. /\ t \in SessionType
      /\ SamePlan(u, t) /\ SameTurn(u, t) /\ SameCredit(u, t)
      /\ SameFrames(u, t) /\ Ends(u, t)
      /\ Gains(u, t, tasks)
  BY <1>1, <1>2, <1>3, CallbackTasks, SubmitAnyEffect
<1> HIDE DEF t
<1>5. /\ SamePlan(s, t) /\ SameTurn(s, t) /\ SameCredit(s, t) /\ Ends(s, t) /\ Gains(s, t, tasks)
      /\ t.frames = Tail(s.frames) /\ ~t.writing /\ t.turn = s.turn /\ t.reads = s.reads
      /\ t.planGeneration = s.planGeneration /\ t.nextDeliveryId = s.nextDeliveryId
      /\ s.closed => t.closed
  BY <1>3, <1>4 DEF SamePlan, SameTurn, SameCredit, SameFrames, Ends, Gains
<1>6. Waiting(t) = Waiting(s)
  BY <1>0, <1>5 DEF Waiting
<1>7. Account(t)
  BY <1>0, <1>2, <1>4, <1>5, AccountSame DEF Ends
<1>12. GainsOnly(s, t, tasks)
  BY <1>0, <1>2, <1>4, <1>5, CallbackTasks, GainsFacts
<1>8. /\ \A S : (\A new \in tasks : new \notin S) => Alike(s.tasks, t.tasks, S)
      /\ \A S : (\A new \in tasks : new \in S) => GrowsIn(s.tasks, t.tasks, S)
      /\ tasks # {} /\ t.tasks = s.tasks => t.closed
  BY <1>12 DEF GainsOnly
<1>9. Queues(t)
  <2>1. TasksHold(t)
    <3>1. frame.generation <= s.planGeneration
      BY <1>0, <1>2 DEF Queues, FramesHold
    <3>2. \A new \in tasks : new.kind \in GenerationKinds => new.generation <= s.planGeneration
      BY <1>2, <3>1, CallbackTasks
    <3> QED
      BY <1>0, <1>5, <1>12, <3>2 DEF Queues, GainsOnly
  <2>2. FramesHold(t)
    BY <1>0, <1>4, <1>5, FramesShrink DEF Queues
  <2>3. ReadsHold(t)
    BY <1>0, <1>2, <1>4, <1>5, ReadsSame DEF Queues
  <2> QED
    BY <2>1, <2>2, <2>3 DEF Queues
<1>10. Turn(t)
  <2>1. Alike(s.tasks, t.tasks, PermitTasks)
    BY <1>2, <1>8, CallbackTasks
  <2>2. t.turn = "queued" => t.activePlan.readWait
    BY <1>2, <1>5 DEF Turn, SamePlan
  <2> QED
    BY <1>0, <1>2, <1>4, <1>5, <2>1, <2>2, TurnSame
<1>11. Stages(t)
  <2> SUFFICES ASSUME s.activePlan # NoPlan PROVE Stage(t)
    BY <1>5 DEF Stages, SamePlan
  <2>1. Stage(s) /\ t.activePlan = s.activePlan
    BY <1>2, <1>5 DEF Stages, SamePlan
  <2>2. /\ PlanStage(s, s.activePlan) /\ DoneStage(s, s.activePlan)
        /\ TileStage(s, s.activePlan) /\ TurnStage(s, s.activePlan)
        /\ Progress(s.activePlan, s.closed)
    BY <2>1 DEF Stage
  <2>3. PlanStage(t, s.activePlan)
    <3>1. Alike(s.tasks, t.tasks, PlanTasks(g)) /\ Alike(Waiting(s), Waiting(t), PlanFrames(g))
      BY <1>2, <1>6, <1>8, CallbackTasks DEF Alike
    <3> QED
      BY <1>5, <2>2, <3>1, PlanStageKept
  <2>4. DoneStage(t, s.activePlan)
    <3>1. Alike(s.tasks, t.tasks, DoneTasks(g))
      BY <1>2, <1>8, CallbackTasks
    <3>2. DoneAbsent(t, g) <=> DoneAbsent(s, g)
      BY <1>6, <3>1 DEF DoneAbsent, Absent, Alike
    <3>3. AtMostOne(t.tasks, DoneTasks(g), Waiting(t), DoneFrames(g), {}, {})
      BY <1>6, <2>2, <3>1 DEF DoneStage, AtMostOne, Alike
    <3>4. None(s.frames, DoneFrames(g)) => None(t.frames, DoneFrames(g))
      BY <1>0, <1>2, <1>5, TailTokens
    <3> QED
      BY <1>5, <2>2, <3>2, <3>3, <3>4 DEF DoneStage
  <2>5. TileStage(t, s.activePlan)
    <3>1. CASE frame \in TileFrames(g)
      <4>1. GrowsIn(s.tasks, t.tasks, TileTasks(g))
        BY <1>2, <1>8, <3>1, CallbackTasks
      <4>2. AtMostOne(s.tasks, TileTasks(g), s.frames, TileFrames(g), s.reads, TileReadsOf(g))
        BY <2>2 DEF TileStage
      <4>3. BecomesTask(s.tasks, t.tasks, TileTasks(g), s.frames, TileFrames(g), s.reads, TileReadsOf(g))
        BY <1>0, <1>2, <3>1, <4>1, <4>2, HeadBecomesTask
      <4>4. s.activePlan.busy
        BY <2>2, <4>3 DEF BecomesTask, TileStage, TileAbsent, Absent
      <4>5. t.tasks = s.tasks => t.closed
        <5>1. tasks # {}
          BY <1>2, <3>1, CallbackTasks
        <5> QED
          BY <1>8, <5>1
      <4> QED
        BY <1>5, <4>3, <4>4, <4>5 DEF TileStage, TileAbsent, Absent, BecomesTask
    <3>2. CASE frame \notin TileFrames(g)
      <4>1. Alike(s.tasks, t.tasks, TileTasks(g))
        BY <1>2, <1>8, <3>2, CallbackTasks
      <4>2. Alike(s.frames, t.frames, TileFrames(g)) /\ AlikeReads(s, t, g)
        BY <1>0, <1>2, <1>5, <3>2, AlikeTail DEF AlikeReads
      <4> QED
        BY <1>5, <2>2, <4>1, <4>2, TileStageKept
    <3> QED
      BY <3>1, <3>2
  <2>6. TurnStage(t, s.activePlan)
    <3>1. \A new \in tasks : new \notin PermitTasksOf(g)
      BY <1>2, CallbackTasks DEF PermitTasks, PermitTasksOf
    <3>2. Alike(s.tasks, t.tasks, PermitTasksOf(g))
      BY <1>8, <3>1
    <3> QED
      BY <1>5, <2>2, <3>2, TurnStageKept
  <2>7. Progress(s.activePlan, t.closed)
    BY <1>5, <2>2 DEF Progress
  <2> QED
    BY <1>5, <2>1, <2>3, <2>4, <2>5, <2>6, <2>7 DEF Stage
<1> QED
  BY <1>4, <1>7, <1>9, <1>10, <1>11 DEF SessionInv, t

LEMMA GrantTurnHolds ==
    ASSUME SessionInv(session), GrantTurn
    PROVE  SessionInv(session')
<1> DEFINE s == session
           t == session'
           g == s.activePlan.generation
           permit == [kind |-> "PERMIT", generation |-> g]
           v == Submit(s, permit)
           accepted == ~s.closed /\ Len(s.tasks) < TaskCapacity
<1>1. /\ s \in SessionType /\ s.tasks \in Seq(Task) /\ Len(s.tasks) \in Nat
      /\ s.planGeneration \in Nat /\ s.nextDeliveryId \in Nat
      /\ Account(s) /\ Queues(s) /\ Turn(s) /\ Stages(s)
  BY DEF SessionInv, SessionType
<1>2. /\ s.turn = "queued"
      /\ t = [v EXCEPT !.turn = IF s.closed \/ Len(s.tasks) >= TaskCapacity THEN "none" ELSE "held"]
  BY DEF GrantTurn
<1>3. s.activePlan # NoPlan /\ s.activePlan.readWait /\ NoTurn(s)
  <2>1. s.activePlan.readWait /\ NoTurn(s)
    BY <1>1, <1>2 DEF Turn
  <2> QED
    BY <2>1 DEF NoPlan
<1>4. /\ Stage(s) /\ g \in Nat \ {0} /\ g = s.planGeneration
      /\ permit \in Task /\ permit.kind = "PERMIT" /\ permit.generation = g
  <2>1. Stage(s) /\ g \in Nat \ {0} /\ g = s.planGeneration
    BY <1>1, <1>3, PlanFields DEF Stages, Stage
  <2> QED
    BY <2>1 DEF Task
<1>5. t = [v EXCEPT !.turn = IF accepted THEN "held" ELSE "none"]
  <2>1. Len(s.tasks) \in Nat /\ TaskCapacity \in Nat
    BY <1>1, ConstantsAssumption
  <2>2. (s.closed \/ Len(s.tasks) >= TaskCapacity) <=> ~accepted
    BY <2>1
  <2> HIDE DEF v, accepted
  <2> QED
    BY <1>2, <2>2
<1> HIDE DEF permit
<1>6. /\ v \in SessionType
      /\ SamePlan(s, v) /\ SameTurn(s, v) /\ SameCredit(s, v) /\ SameFrames(s, v) /\ Ends(s, v)
      /\ \/ v.tasks = Append(s.tasks, permit) /\ Len(s.tasks) < TaskCapacity
         \/ v.tasks = s.tasks /\ v.closed
  BY <1>1, <1>4, SubmitEffect
<1>7. /\ accepted => v.tasks = Append(s.tasks, permit)
      /\ ~accepted => v.tasks = s.tasks /\ v.closed
  <2>1. CASE accepted
    BY <2>1 DEF Submit, Enqueue, SessionType
  <2>2. CASE s.closed
    BY <1>1, <2>2 DEF Submit
  <2>3. CASE ~s.closed /\ ~(Len(s.tasks) < TaskCapacity)
    BY <1>6, <2>3
  <2> QED
    BY <2>1, <2>2, <2>3
<1> HIDE DEF v
<1>8. /\ t \in SessionType /\ t.turn = IF accepted THEN "held" ELSE "none"
      /\ t.reads = v.reads /\ SamePlan(v, t) /\ SameCredit(v, t) /\ SameFrames(v, t)
      /\ t.tasks = v.tasks /\ t.closed = v.closed /\ t.state = v.state
  BY <1>5, <1>6 DEF SessionType, SamePlan, SameCredit, SameFrames
<1> HIDE DEF t
<1>9. /\ SamePlan(s, t) /\ SameCredit(s, t) /\ SameFrames(s, t) /\ t.reads = s.reads
      /\ t.planGeneration = s.planGeneration /\ t.nextDeliveryId = s.nextDeliveryId
      /\ accepted => t.tasks = Append(s.tasks, permit)
      /\ ~accepted => t.tasks = s.tasks /\ t.closed
      /\ s.closed => t.closed
      /\ Ends(s, t)
  BY <1>6, <1>7, <1>8 DEF SamePlan, SameCredit, SameFrames, SameTurn, Ends
<1>10. Account(t)
  BY <1>1, <1>8, <1>9, AccountSame DEF Ends
<1>11. Queues(t)
  <2>1. permit.generation <= s.planGeneration
    BY <1>1, <1>4
  <2>2. TasksHold(t)
    BY <1>1, <1>4, <1>8, <1>9, <2>1, TasksGrow DEF Queues
  <2> QED
    BY <1>1, <1>8, <1>9, <2>2, FramesSame, ReadsSame DEF Queues
<1>12. /\ None(s.tasks, PermitTasks) /\ (\A x \in s.reads : x \notin OpenReads)
       /\ permit \in PermitTasks /\ permit \in PermitTasksOf(g)
       /\ permit \notin PlanTasks(g) /\ permit \notin DoneTasks(g) /\ permit \notin TileTasks(g)
  BY <1>3, <1>4 DEF NoTurn, Absent, PermitTasks, PermitTasksOf, PlanTasks, DoneTasks, TileTasks
<1>13. Turn(t)
  <2>1. CASE accepted
    <3>0. t.tasks = Append(s.tasks, permit)
      BY <1>9, <2>1
    <3>1. Once(t.tasks, PermitTasks) /\ ~None(t.tasks, PermitTasks)
      <4>1. /\ None(s.tasks, PermitTasks) => Once(Append(s.tasks, permit), PermitTasks)
            /\ permit \in PermitTasks => ~None(Append(s.tasks, permit), PermitTasks)
        <5> HIDE DEF s
        <5> QED
          BY <1>1, <1>4, AppendTokens
      <4> QED
        BY <1>12, <3>0, <4>1
    <3>2. ~NoTurn(t)
      BY <3>1 DEF NoTurn, Absent
    <3>3. Once(<<>>, {}) /\ None(<<>>, {})
      BY DEF Once, None
    <3>4. AtMostOne(t.tasks, PermitTasks, <<>>, {}, t.reads, OpenReads)
      BY <1>9, <1>12, <3>1, <3>3 DEF AtMostOne
    <3> QED
      BY <1>8, <2>1, <3>2, <3>4 DEF Turn
  <2>2. CASE ~accepted
    <3>1. NoTurn(t) /\ t.turn = "none"
      BY <1>3, <1>8, <1>9, <2>2 DEF NoTurn
    <3> QED
      BY <1>8, <3>1, TurnFree
  <2> QED
    BY <2>1, <2>2
<1>14. \A S : permit \notin S => Alike(s.tasks, t.tasks, S)
  <2> SUFFICES ASSUME NEW S, permit \notin S PROVE Alike(s.tasks, t.tasks, S)
    OBVIOUS
  <2>1. CASE accepted
    BY <1>1, <1>4, <1>9, <2>1, AlikeAppend
  <2>2. CASE ~accepted
    BY <1>9, <2>2 DEF Alike
  <2> QED
    BY <2>1, <2>2
<1>15. Stages(t)
  <2>1. /\ PlanStage(s, s.activePlan) /\ DoneStage(s, s.activePlan)
        /\ TileStage(s, s.activePlan) /\ TurnStage(s, s.activePlan)
        /\ Progress(s.activePlan, s.closed)
    BY <1>4 DEF Stage
  <2>2. /\ Alike(s.tasks, t.tasks, PlanTasks(g)) /\ Alike(s.tasks, t.tasks, DoneTasks(g))
        /\ Alike(s.tasks, t.tasks, TileTasks(g)) /\ AlikeFrames(s, t, g) /\ AlikeReads(s, t, g)
    BY <1>9, <1>12, <1>14, AlikeFramesSame DEF AlikeReads
  <2>3. PlanStage(t, s.activePlan)
    BY <1>9, <2>1, <2>2, PlanStageKept DEF AlikeFrames
  <2>4. DoneStage(t, s.activePlan)
    BY <1>9, <2>1, <2>2, DoneStageKept DEF AlikeFrames
  <2>5. TileStage(t, s.activePlan)
    BY <1>9, <2>1, <2>2, TileStageKept DEF AlikeFrames
  <2>6. TurnStage(t, s.activePlan)
    <3>1. accepted => ~None(t.tasks, PermitTasksOf(g))
      <4>1. permit \in PermitTasksOf(g) => ~None(Append(s.tasks, permit), PermitTasksOf(g))
        <5> HIDE DEF s, g
        <5> QED
          BY <1>1, <1>4, AppendTokens
      <4>2. accepted => t.tasks = Append(s.tasks, permit)
        BY <1>9
      <4> HIDE DEF accepted
      <4> QED
        BY <1>12, <4>1, <4>2
    <3> QED
      BY <1>3, <1>9, <3>1 DEF TurnStage
  <2>7. Progress(s.activePlan, t.closed)
    BY <1>9, <2>1 DEF Progress
  <2> QED
    BY <1>4, <1>9, <2>3, <2>4, <2>5, <2>6, <2>7 DEF Stages, Stage, SamePlan
<1> QED
  BY <1>8, <1>10, <1>11, <1>13, <1>15 DEF SessionInv, t

LEMMA TileReadEndsHolds ==
    ASSUME SessionInv(session), NEW read \in session.reads, NEW bytes \in Nat, TileReadEnds(read, bytes)
    PROVE  SessionInv(session')
<1> DEFINE s == session
           t == session'
           g == s.activePlan.generation
           ended == [read EXCEPT !.bytes = bytes, !.complete = TRUE]
           reads == (s.reads \ {read}) \cup {ended}
<1>1. /\ s \in SessionType /\ s.planGeneration \in Nat /\ s.nextDeliveryId \in Nat
      /\ Account(s) /\ Queues(s) /\ Turn(s) /\ Stages(s) /\ read \in Read
  BY DEF SessionInv, SessionType
<1>2. /\ read.kind = "TILE" /\ ~read.complete
      /\ t = [s EXCEPT !.reads = reads, !.turn = "none"]
  BY <1>1 DEF TileReadEnds, SessionType
<1>3. /\ ended \in Read /\ ended.kind = "TILE" /\ ended.complete /\ ended.generation = read.generation
      /\ read \in OpenReads /\ ended \notin OpenReads
  BY <1>1, <1>2 DEF Read, OpenReads
<1> HIDE DEF ended
<1>4. reads \in SUBSET Read
  BY <1>1, <1>3 DEF SessionType
<1>5. /\ \A r : r # read /\ r # ended => (r \in reads <=> r \in s.reads)
      /\ read \notin reads /\ ended \in reads
  BY <1>3 DEF OpenReads
<1> HIDE DEF reads
<1>6. /\ t \in SessionType /\ t.reads = reads /\ t.turn = "none"
      /\ SamePlan(s, t) /\ SameCredit(s, t)
      /\ SameFrames(s, t) /\ t.tasks = s.tasks
      /\ t.closed = s.closed /\ t.state = s.state
      /\ t.planGeneration = s.planGeneration /\ t.nextDeliveryId = s.nextDeliveryId
  BY <1>1, <1>2, <1>4 DEF SessionType, SamePlan, SameCredit, SameFrames
<1> HIDE DEF t
<1>7. Account(t)
  BY <1>1, <1>6, AccountSame
<1>8. Queues(t)
  <2>1. \A r \in t.reads : r \in s.reads \/ r.kind # "TILE" \/ r.generation <= t.planGeneration
    BY <1>1, <1>2, <1>3, <1>5, <1>6 DEF Queues, ReadsHold
  <2> QED
    BY <1>1, <1>6, <2>1, TasksSame, FramesSame, ReadsSame DEF Queues
<1>9. s.turn = "held" /\ NoTurn(t)
  <2>1. ~NoTurn(s)
    BY <1>3 DEF NoTurn, Absent
  <2>2. None(s.tasks, PermitTasks) /\ \A x \in s.reads : x \in OpenReads => x = read
    BY <1>1, <1>3 DEF Turn, AtMostOne
  <2>3. \A x \in t.reads : x \notin OpenReads
    BY <1>3, <1>5, <1>6, <2>2
  <2>4. None(<<>>, {})
    BY DEF None
  <2> QED
    BY <1>1, <1>6, <2>1, <2>2, <2>3, <2>4 DEF Turn, NoTurn, Absent
<1>10. Turn(t)
  BY <1>6, <1>9, TurnFree
<1>11. Stages(t)
  <2> SUFFICES ASSUME s.activePlan # NoPlan PROVE Stage(t)
    BY <1>6 DEF Stages, SamePlan
  <2>0. Stage(s) /\ t.activePlan = s.activePlan
    BY <1>1, <1>6 DEF Stages, SamePlan
  <2>1. /\ PlanStage(s, s.activePlan) /\ DoneStage(s, s.activePlan)
        /\ TileStage(s, s.activePlan) /\ TurnStage(s, s.activePlan)
        /\ Progress(s.activePlan, s.closed)
    BY <2>0 DEF Stage
  <2>2. AlikeTasks(s, t, g) /\ AlikeFrames(s, t, g)
    BY <1>6, AlikeTasksSame, AlikeFramesSame
  <2>3. PlanStage(t, s.activePlan)
    BY <1>6, <2>1, <2>2, PlanStageKept DEF AlikeFrames, AlikeTasks
  <2>4. DoneStage(t, s.activePlan)
    BY <1>6, <2>1, <2>2, DoneStageKept DEF AlikeFrames, AlikeTasks
  <2>5. TileStage(t, s.activePlan)
    <3>1. CASE read \in TileReadsOf(g)
      <4>1. ended \in TileReadsOf(g)
        BY <1>3, <3>1 DEF TileReadsOf
      <4>2. /\ None(s.tasks, TileTasks(g)) /\ None(s.frames, TileFrames(g))
            /\ Once(s.tasks, TileTasks(g)) /\ Once(s.frames, TileFrames(g))
            /\ \A x \in s.reads : x \in TileReadsOf(g) => x = read
        BY <2>1, <3>1 DEF TileStage, AtMostOne
      <4>3. \A x \in t.reads : x \in TileReadsOf(g) => x = ended
        BY <1>5, <1>6, <4>2
      <4>4. AtMostOne(t.tasks, TileTasks(g), t.frames, TileFrames(g), t.reads, TileReadsOf(g))
        BY <1>6, <4>2, <4>3 DEF AtMostOne, SameFrames
      <4>5. ~TileAbsent(t, g) /\ ~TileAbsent(s, g)
        BY <1>5, <1>6, <3>1, <4>1 DEF TileAbsent, Absent
      <4> QED
        BY <2>1, <4>4, <4>5 DEF TileStage
    <3>2. CASE read \notin TileReadsOf(g)
      <4>1. ended \notin TileReadsOf(g)
        BY <1>1, <1>2, <1>3, <3>2 DEF TileReadsOf
      <4>2. AlikeReads(s, t, g)
        BY <1>5, <1>6, <3>2, <4>1 DEF AlikeReads
      <4> QED
        BY <1>6, <2>1, <2>2, <4>2, TileStageKept DEF AlikeFrames, AlikeTasks
    <3> QED
      BY <3>1, <3>2
  <2>6. TurnStage(t, s.activePlan)
    BY <1>6, <1>9, <2>1 DEF TurnStage
  <2>7. Progress(s.activePlan, t.closed)
    BY <1>6, <2>1 DEF Progress
  <2> QED
    BY <1>6, <2>0, <2>3, <2>4, <2>5, <2>6, <2>7 DEF Stage
<1> QED
  BY <1>6, <1>7, <1>8, <1>10, <1>11 DEF SessionInv, t

LEMMA TileResultHolds ==
    ASSUME SessionInv(session), NEW read \in session.reads, TileResult(read)
    PROVE  SessionInv(session')
<1> DEFINE s == session
           t == session'
           g == s.activePlan.generation
           reads == s.reads \ {read}
           u == [s EXCEPT !.reads = reads]
           new == [kind |-> "TILE_READ", generation |-> read.generation, bytes |-> read.bytes]
<1>1. /\ s \in SessionType /\ s.planGeneration \in Nat /\ s.nextDeliveryId \in Nat
      /\ Account(s) /\ Queues(s) /\ Turn(s) /\ Stages(s) /\ read \in Read
      /\ s.tasks \in Seq(Task) /\ reads \in SUBSET Read
  BY DEF SessionInv, SessionType
<1>2. read.kind = "TILE" /\ read.complete /\ t = Enqueue(u, new)
  BY <1>1 DEF TileResult, SessionType
<1>3. /\ new \in Task /\ new.kind = "TILE_READ" /\ new.generation = read.generation
      /\ read.generation <= s.planGeneration
  BY <1>1, <1>2, ReadFields DEF Task, Queues, ReadsHold
<1> HIDE DEF new
<1>4. \A r : r # read => (r \in reads <=> r \in s.reads)
  OBVIOUS
<1>5. read \notin reads
  OBVIOUS
<1> HIDE DEF reads
<1>6. /\ u \in SessionType /\ u.reads = reads /\ u.turn = s.turn
      /\ SamePlan(s, u) /\ SameCredit(s, u)
      /\ SameFrames(s, u) /\ u.tasks = s.tasks
      /\ u.closed = s.closed /\ u.state = s.state
  BY <1>1 DEF SessionType, SamePlan, SameCredit, SameFrames
<1> HIDE DEF u
<1>7. /\ t \in SessionType
      /\ SamePlan(u, t) /\ SameTurn(u, t) /\ SameCredit(u, t)
      /\ SameFrames(u, t) /\ Ends(u, t)
      /\ \/ t.tasks = Append(u.tasks, new) /\ Len(u.tasks) < TaskCapacity
         \/ t.tasks = u.tasks /\ t.closed
  BY <1>2, <1>3, <1>6, EnqueueEffect
<1> HIDE DEF t
<1>8. /\ SamePlan(s, t) /\ SameCredit(s, t) /\ SameFrames(s, t) /\ t.reads = reads /\ t.turn = s.turn
      /\ t.planGeneration = s.planGeneration /\ t.nextDeliveryId = s.nextDeliveryId
      /\ Gains(s, t, {new})
      /\ s.closed => t.closed
      /\ Ends(s, t)
  BY <1>6, <1>7 DEF SamePlan, SameCredit, SameFrames, SameTurn, Ends, Gains
<1>9. GainsOnly(s, t, {new})
  BY <1>1, <1>3, <1>7, <1>8, GainsFacts
<1>10. /\ \A S : new \notin S => Alike(s.tasks, t.tasks, S)
       /\ \A S : new \in S => GrowsIn(s.tasks, t.tasks, S)
       /\ t.tasks = s.tasks => t.closed
  BY <1>9 DEF GainsOnly
<1>11. Account(t)
  BY <1>1, <1>7, <1>8, AccountSame DEF Ends
<1>12. Queues(t)
  <2>1. TasksHold(t)
    BY <1>1, <1>3, <1>8, <1>9 DEF GainsOnly, Queues
  <2>2. \A r \in t.reads : r \in s.reads
    BY <1>4, <1>5, <1>8
  <2> QED
    BY <1>1, <1>7, <1>8, <2>1, <2>2, FramesSame, ReadsSame DEF Queues
<1>13. Turn(t)
  <2>1. Alike(s.tasks, t.tasks, PermitTasks)
    BY <1>3, <1>10 DEF PermitTasks
  <2>2. \A r \in OpenReads : r \in t.reads <=> r \in s.reads
    BY <1>2, <1>4, <1>8 DEF OpenReads
  <2>3. t.turn = "queued" => t.activePlan.readWait
    BY <1>1, <1>8 DEF Turn, SamePlan
  <2> QED
    BY <1>1, <1>7, <1>8, <2>1, <2>2, <2>3, TurnSame
<1>14. Stages(t)
  <2> SUFFICES ASSUME s.activePlan # NoPlan PROVE Stage(t)
    BY <1>8 DEF Stages, SamePlan
  <2>0. Stage(s) /\ t.activePlan = s.activePlan
    BY <1>1, <1>8 DEF Stages, SamePlan
  <2>1. /\ PlanStage(s, s.activePlan) /\ DoneStage(s, s.activePlan)
        /\ TileStage(s, s.activePlan) /\ TurnStage(s, s.activePlan)
        /\ Progress(s.activePlan, s.closed)
    BY <2>0 DEF Stage
  <2>2. /\ Alike(s.tasks, t.tasks, PlanTasks(g)) /\ Alike(s.tasks, t.tasks, DoneTasks(g))
        /\ Alike(s.tasks, t.tasks, PermitTasksOf(g)) /\ AlikeFrames(s, t, g)
    BY <1>3, <1>8, <1>10, AlikeFramesSame DEF PlanTasks, DoneTasks, PermitTasksOf
  <2>3. PlanStage(t, s.activePlan)
    BY <1>8, <2>1, <2>2, PlanStageKept DEF AlikeFrames
  <2>4. DoneStage(t, s.activePlan)
    BY <1>8, <2>1, <2>2, DoneStageKept DEF AlikeFrames
  <2>5. TileStage(t, s.activePlan)
    <3>1. CASE read \in TileReadsOf(g)
      <4>1. new \in TileTasks(g)
        BY <1>3, <3>1 DEF TileReadsOf, TileTasks
      <4>2. /\ None(s.tasks, TileTasks(g)) /\ None(s.frames, TileFrames(g))
            /\ Once(s.tasks, TileTasks(g)) /\ Once(s.frames, TileFrames(g))
            /\ \A x \in s.reads : x \in TileReadsOf(g) => x = read
        BY <2>1, <3>1 DEF TileStage, AtMostOne
      <4>3. \A x \in t.reads : x \notin TileReadsOf(g)
        BY <1>4, <1>5, <1>8, <4>2
      <4>4. Once(t.tasks, TileTasks(g)) /\ (None(t.tasks, TileTasks(g)) => t.closed)
        <5>1. GrowsIn(s.tasks, t.tasks, TileTasks(g))
          BY <1>10, <4>1
        <5>2. CASE t.tasks = s.tasks
          BY <1>10, <4>2, <5>2
        <5>3. CASE t.tasks # s.tasks
          <6>1. PICK task2 \in Task : task2 \in TileTasks(g) /\ t.tasks = Append(s.tasks, task2)
            BY <5>1, <5>3 DEF GrowsIn
          <6> QED
            BY <1>1, <4>2, <6>1, AppendTokens
        <5> QED
          BY <5>2, <5>3
      <4>5. AtMostOne(t.tasks, TileTasks(g), t.frames, TileFrames(g), t.reads, TileReadsOf(g))
        BY <1>8, <4>2, <4>3, <4>4 DEF AtMostOne, SameFrames
      <4>6. ~TileAbsent(s, g)
        BY <3>1 DEF TileAbsent, Absent
      <4>7. TileAbsent(t, g) => t.closed
        BY <4>4 DEF TileAbsent, Absent
      <4> QED
        BY <2>1, <4>5, <4>6, <4>7 DEF TileStage
    <3>2. CASE read \notin TileReadsOf(g)
      <4>1. new \notin TileTasks(g)
        BY <1>1, <1>2, <1>3, <3>2 DEF TileReadsOf, TileTasks
      <4>2. AlikeReads(s, t, g) /\ Alike(s.tasks, t.tasks, TileTasks(g))
        BY <1>4, <1>8, <1>10, <3>2, <4>1 DEF AlikeReads
      <4> QED
        BY <1>8, <2>1, <2>2, <4>2, TileStageKept DEF AlikeFrames
    <3> QED
      BY <3>1, <3>2
  <2>6. TurnStage(t, s.activePlan)
    BY <1>8, <2>1, <2>2, TurnStageKept
  <2>7. Progress(s.activePlan, t.closed)
    BY <1>8, <2>1 DEF Progress
  <2> QED
    BY <1>8, <2>0, <2>3, <2>4, <2>5, <2>6, <2>7 DEF Stage
<1> QED
  BY <1>7, <1>11, <1>12, <1>13, <1>14 DEF SessionInv, t

--------------------------------------------------------------------------------
\* The invariant, at every step

\* Tiles in the hands of the client.
ClientTile == [id : Nat, epoch : Nat]

ClientType ==
    [epoch : Nat, image : SomeImage, held : SUBSET ClientTile, asked : SUBSET ClientTile,
     hellos : Nat, asks : Nat, thumbnails : SUBSET Images]

Opening == [epoch : Nat, image : SomeImage]

Inv ==
    /\ SessionInv(session)
    /\ opens \subseteq Opening
    /\ transport \in {"open", "closed"}
    /\ client \in ClientType

LEMMA InvInit == Init => Inv
<1> SUFFICES ASSUME Init PROVE Inv
  OBVIOUS
<1> DEFINE s == session
<1>1. /\ s.tasks = <<>> /\ s.frames = <<>> /\ s.reads = {} /\ s.deliveries = <<>>
      /\ s.activePlan = NoPlan /\ s.turn = "none" /\ s.nextDeliveryId = 1 /\ s.freeWindowBytes = 0
      /\ s.negotiatedWindowBytes = 0 /\ s.planGeneration = 0 /\ ~s.writing
  BY DEF Init
<1>2. Len(<<>>) = 0 /\ <<>> \in Seq(Task) /\ <<>> \in Seq(Frame)
  BY EmptySeq
<1>3. s \in SessionType
  <2> DEFINE none == NoPlan
  <2>1. s = [state |-> "ESPERA_HELLO", closed |-> FALSE, helloTimer |-> TRUE,
             currentEpoch |-> 0, opened |-> NoImage, thumbnailCommittedForOpen |-> FALSE,
             planGeneration |-> 0, negotiatedWindowBytes |-> 0, freeWindowBytes |-> 0,
             activePlan |-> none, deliveries |-> <<>>, nextDeliveryId |-> 1,
             tasks |-> <<>>, frames |-> <<>>, writing |-> FALSE,
             turn |-> "none", reads |-> {}]
    BY DEF Init
  <2>2. none \in ActivePlan \cup {NoPlan}
    OBVIOUS
  <2> HIDE DEF none
  <2>3. <<>> \in Ledgers
    BY EmptyLedger
  <2> HIDE DEF s
  <2> QED
    BY <1>2, <2>1, <2>2, <2>3 DEF SessionType, States, SomeImage
<1>4. Account(s)
  <2>1. CreditHolds(s)
    BY <1>1, EmptyLedger DEF CreditHolds
  <2>2. Cardinality(DOMAIN s.deliveries) = 0
    BY <1>1, EmptyLedger, FS_EmptySet
  <2> QED
    BY <1>1, <2>1, <2>2, EmptyLedger, ConstantsAssumption DEF Account
<1>5. Queues(s)
  BY <1>1, <1>2, ConstantsAssumption DEF Queues, TasksHold, FramesHold, ReadsHold
<1>6. Turn(s)
  <2>1. NoTurn(s)
    BY <1>1, <1>2 DEF NoTurn, Absent, None
  <2>2. s.turn # "held" /\ s.turn # "queued"
    BY <1>1
  <2> HIDE DEF s
  <2> QED
    BY <1>3, <2>1, <2>2, TurnFree
<1>7. Stages(s)
  BY <1>1 DEF Stages
<1>8. SessionInv(s)
  BY <1>3, <1>4, <1>5, <1>6, <1>7 DEF SessionInv
<1>9. client \in ClientType
  BY DEF Init, ClientType, SomeImage
<1> QED
  BY <1>8, <1>9 DEF Init, Inv, s

\* Every handler keeps the invariant of the session.
LEMMA HandlersHold ==
    ASSUME SessionInv(session), opens \subseteq Opening, Handlers
    PROVE  /\ SessionInv(session')
           /\ (opens \subseteq Opening)'
           /\ UNCHANGED <<transport, client>>
<1> DEFINE Good == SessionInv(session') /\ opens' \subseteq Opening /\ UNCHANGED <<transport, client>>
<1>1. ASSUME NEW answer \in Answers, HandleHello(answer) PROVE Good
  BY <1>1, HandleHelloHolds DEF HandleHello, Becomes
<1>2. ASSUME NEW answer \in Answers, HandleOpen(answer) PROVE Good
  <2>1. task.epoch \in Nat /\ task.image \in SomeImage
    BY <1>2, TaskRuns, TaskFields DEF HandleOpen, GenerationKinds
  <2>2. opens' \subseteq opens \cup {[epoch |-> task.epoch, image |-> task.image]}
    BY <1>2 DEF HandleOpen
  <2>3. opens' \subseteq Opening
    BY <2>1, <2>2 DEF Opening
  <2> QED
    BY <1>2, <2>3, HandleOpenHolds DEF HandleOpen
<1>3. ASSUME NEW answer \in Answers, HandleView(answer) PROVE Good
  BY <1>3, HandleViewHolds DEF HandleView, Becomes
<1>4. ASSUME NEW answer \in Answers, HandleRelease(answer) PROVE Good
  BY <1>4, HandleReleaseHolds DEF HandleRelease, Becomes
<1>5. ASSUME NEW answer \in Answers, HandleAckState(answer) PROVE Good
  BY <1>5, HandleAckStateHolds DEF HandleAckState, Becomes
<1>6. ASSUME NEW answer \in Answers, OnSelectiveTileRead(answer) PROVE Good
  BY <1>6, OnSelectiveTileReadHolds DEF OnSelectiveTileRead, Becomes
<1>7. ASSUME NEW answer \in Answers, OnPlanCommitted(answer) PROVE Good
  BY <1>7, OnPlanCommittedHolds DEF OnPlanCommitted, Becomes
<1>8. ASSUME NEW answer \in Answers, OnTileWritten(answer) PROVE Good
  BY <1>8, OnTileWrittenHolds DEF OnTileWritten, Becomes
<1>9. ASSUME NEW answer \in Answers, OnReadPermitGranted(answer) PROVE Good
  BY <1>9, OnReadPermitGrantedHolds DEF OnReadPermitGranted, Becomes
<1>10. ASSUME NEW answer \in Answers, OnTileRead(answer) PROVE Good
  <2>1. UNCHANGED <<opens, transport, client>>
    BY <1>10, Zenon DEF OnTileRead, Becomes
  <2> QED
    BY <1>10, <2>1, OnTileReadHolds
<1>11. ASSUME OnOpenResolved PROVE Good
  BY <1>11, OnOpenResolvedHolds DEF OnOpenResolved, Becomes
<1>12. ASSUME OnSelectiveTileWritten PROVE Good
  BY <1>12, OnSelectiveTileWrittenHolds DEF OnSelectiveTileWritten, Becomes
<1>13. ASSUME OnDoneCommitted PROVE Good
  BY <1>13, OnDoneCommittedHolds DEF OnDoneCommitted, Becomes
<1>14. ASSUME OnTileCommitted PROVE Good
  BY <1>14, OnTileCommittedHolds DEF OnTileCommitted, Becomes
<1>15. ASSUME OnReleaseTimeout PROVE Good
  BY <1>15, OnReleaseTimeoutHolds DEF OnReleaseTimeout, Becomes
<1>16. ASSUME OnHelloTimeout PROVE Good
  BY <1>16, OnHelloTimeoutHolds DEF OnHelloTimeout, Becomes
<1>17. ASSUME Cleanup PROVE Good
  BY <1>17, CleanupHolds DEF Cleanup, Becomes
<1> HIDE DEF Good
<1>18. Good
  BY <1>1, <1>2, <1>3, <1>4, <1>5, <1>6, <1>7, <1>8, <1>9, <1>10, <1>11, <1>12, <1>13,
     <1>14, <1>15, <1>16, <1>17 DEF Handlers
<1> QED
  BY <1>18 DEF Good

\* A control of the client is one task more.
LEMMA SaysHolds ==
    ASSUME SessionInv(session), NEW control \in Task, control.kind \notin GenerationKinds, Says(control)
    PROVE  SessionInv(session') /\ UNCHANGED <<opens, transport, wire>>
BY SubmitHolds DEF Says

\* Its controls are tasks.
LEMMA ClientHolds ==
    ASSUME Inv,
           \/ \E ok \in BOOLEAN : ClientHello(ok)
           \/ \E image \in Images : ClientOpen(image)
           \/ ClientView
           \/ \E tile \in client.held : ClientConfirms(tile) \/ ClientAsks(tile)
    PROVE  Inv'
<1>1. /\ SessionInv(session) /\ client \in ClientType /\ client.epoch \in Nat
      /\ client.image \in SomeImage /\ client.held \subseteq ClientTile
      /\ client.asked \subseteq ClientTile /\ client.asks \in Nat /\ client.hellos \in Nat
  BY DEF Inv, ClientType
<1>2. ASSUME NEW ok \in BOOLEAN, ClientHello(ok) PROVE Inv'
  <2> DEFINE control == [kind |-> "HELLO", ok |-> ok]
  <2>1. control \in Task /\ control.kind \notin GenerationKinds
    BY DEF Task, GenerationKinds
  <2>2. Says(control) /\ client' = [client EXCEPT !.hellos = @ + 1]
    BY <1>2 DEF ClientHello
  <2>3. client' \in ClientType
    BY <1>1, <2>2 DEF ClientType
  <2> HIDE DEF control
  <2> QED
    BY <1>1, <2>1, <2>2, <2>3, SaysHolds DEF Inv
<1>3. ASSUME NEW image \in Images, ClientOpen(image) PROVE Inv'
  <2> DEFINE control == [kind |-> "OPEN", epoch |-> client.epoch + 1, image |-> image]
  <2>1. control \in Task /\ control.kind \notin GenerationKinds
    BY <1>1 DEF Task, GenerationKinds, SomeImage
  <2>2. Says(control) /\ client' = [client EXCEPT !.epoch = @ + 1]
    BY <1>3 DEF ClientOpen
  <2>3. client' \in ClientType
    BY <1>1, <2>2 DEF ClientType
  <2> HIDE DEF control
  <2> QED
    BY <1>1, <2>1, <2>2, <2>3, SaysHolds DEF Inv
<1>4. ASSUME ClientView PROVE Inv'
  <2> DEFINE control == [kind |-> "VIEW", epoch |-> client.epoch + 1, image |-> client.image]
  <2>1. control \in Task /\ control.kind \notin GenerationKinds
    BY <1>1 DEF Task, GenerationKinds
  <2>2. Says(control) /\ client' = [client EXCEPT !.epoch = @ + 1]
    BY <1>4 DEF ClientView
  <2>3. client' \in ClientType
    BY <1>1, <2>2 DEF ClientType
  <2> HIDE DEF control
  <2> QED
    BY <1>1, <2>1, <2>2, <2>3, SaysHolds DEF Inv
<1>5. ASSUME NEW tile \in client.held, ClientConfirms(tile) PROVE Inv'
  <2> DEFINE release == [kind |-> "RELEASE", id |-> tile.id]
             ack == [kind |-> "ACK_STATE", epoch |-> tile.epoch, received |-> {tile.id}, missing |-> 0]
  <2>1. tile.id \in Nat /\ tile.epoch \in Nat
    BY <1>1 DEF ClientTile
  <2>2. release \in Task /\ release.kind \notin GenerationKinds
    BY <2>1 DEF Task, GenerationKinds
  <2>3. ack \in Task /\ ack.kind \notin GenerationKinds
    BY <2>1 DEF Task, GenerationKinds
  <2>4. (Says(release) \/ Says(ack)) /\ client' = [client EXCEPT !.held = @ \ {tile}]
    BY <1>5 DEF ClientConfirms
  <2>5. client' \in ClientType
    BY <1>1, <2>4 DEF ClientType
  <2> HIDE DEF release, ack
  <2> QED
    BY <1>1, <2>2, <2>3, <2>4, <2>5, SaysHolds DEF Inv
<1>6. ASSUME NEW tile \in client.held, ClientAsks(tile) PROVE Inv'
  <2> DEFINE ack == [kind |-> "ACK_STATE", epoch |-> tile.epoch, received |-> {}, missing |-> tile.id]
  <2>1. tile.id \in Nat /\ tile.epoch \in Nat /\ tile \in ClientTile
    BY <1>1 DEF ClientTile
  <2>2. ack \in Task /\ ack.kind \notin GenerationKinds
    BY <2>1 DEF Task, GenerationKinds
  <2>3. /\ Says(ack)
        /\ client' = [client EXCEPT !.held = @ \ {tile}, !.asked = @ \cup {tile}, !.asks = @ + 1]
    BY <1>6 DEF ClientAsks
  <2>4. client' \in ClientType
    <3> DEFINE held == client.held \ {tile}
               asked == client.asked \cup {tile}
               asks == client.asks + 1
    <3>1. held \subseteq ClientTile /\ asked \subseteq ClientTile /\ asks \in Nat
      BY <1>1, <2>1
    <3>2. client' = [client EXCEPT !.held = held, !.asked = asked, !.asks = asks]
      BY <2>3, Zenon
    <3> HIDE DEF held, asked, asks
    <3>3. [client EXCEPT !.held = held, !.asked = asked, !.asks = asks] \in ClientType
      BY <1>1, <3>1 DEF ClientType
    <3> QED
      BY <3>2, <3>3
  <2> HIDE DEF ack
  <2> QED
    BY <1>1, <2>2, <2>3, <2>4, SaysHolds DEF Inv
<1> QED
  BY <1>2, <1>3, <1>4, <1>5, <1>6

\* A frame that arrives.
LEMMA ArrivesType ==
    ASSUME client \in ClientType, NEW frame \in Frame
    PROVE  Arrives(frame) \in ClientType
<1> DEFINE tile == [id |-> frame.id, epoch |-> frame.epoch]
<1>1. tile \in ClientTile /\ frame.image \in SomeImage
  BY FrameFields DEF ClientTile
<1>2. /\ client.held \subseteq ClientTile /\ client.asked \subseteq ClientTile
      /\ client.thumbnails \subseteq Images
  BY DEF ClientType
<1> DEFINE held == client.held \cup {tile}
           asked == client.asked \ {tile}
           thumbnails == client.thumbnails \cup ({frame.image} \ {NoImage})
<1>3. held \subseteq ClientTile /\ asked \subseteq ClientTile /\ thumbnails \subseteq Images
  BY <1>1, <1>2 DEF SomeImage
<1>4. \/ Arrives(frame) = [client EXCEPT !.image = frame.image]
      \/ Arrives(frame) = [client EXCEPT !.held = held, !.thumbnails = thumbnails]
      \/ Arrives(frame) = [client EXCEPT !.held = held, !.asked = asked]
      \/ Arrives(frame) = client
  BY DEF Arrives, ClientType
<1> HIDE DEF held, asked, thumbnails
<1> QED
  BY <1>1, <1>3, <1>4 DEF ClientType

LEMMA InvStep == Inv /\ [Next]_vars => Inv'
<1> SUFFICES ASSUME Inv, [Next]_vars PROVE Inv'
  OBVIOUS
<1>1. /\ SessionInv(session) /\ opens \subseteq Opening /\ transport \in {"open", "closed"}
      /\ client \in ClientType
  BY DEF Inv
<1>2. CASE Handlers
  BY <1>1, <1>2, HandlersHold DEF Inv
<1>3. CASE CommitHead
  <2>1. Head(session.frames) \in Frame
    <3>1. session.frames \in Seq(Frame) /\ session.frames # <<>>
      BY <1>1, <1>3 DEF SessionInv, SessionType, CommitHead
    <3> QED
      BY <3>1, TailFacts
  <2>2. client' \in ClientType /\ UNCHANGED <<opens, transport>>
    BY <1>1, <1>3, <2>1, ArrivesType DEF CommitHead
  <2> QED
    BY <1>1, <1>3, <2>2, CommitHeadHolds DEF Inv
<1>4. CASE WriteDone
  <2>1. UNCHANGED <<opens, transport, client>>
    BY <1>4 DEF WriteDone
  <2> QED
    BY <1>1, <1>4, <2>1, WriteDoneHolds DEF Inv
<1>5. CASE TransportCloses
  <2>1. UNCHANGED <<opens, client>> /\ transport' = "closed"
    BY <1>5 DEF TransportCloses
  <2> QED
    BY <1>1, <1>5, <2>1, TransportClosesHolds DEF Inv
<1>6. CASE GrantTurn
  <2>1. UNCHANGED <<opens, transport, client>>
    BY <1>6 DEF GrantTurn
  <2> QED
    BY <1>1, <1>6, <2>1, GrantTurnHolds DEF Inv
<1>7. ASSUME NEW read \in session.reads, NEW bytes \in TileSizes \cup {0}, TileReadEnds(read, bytes)
      PROVE  Inv'
  <2>1. bytes \in Nat
    BY ConstantsAssumption
  <2>2. UNCHANGED <<opens, transport, client>>
    BY <1>7 DEF TileReadEnds
  <2> QED
    BY <1>1, <1>7, <2>1, <2>2, TileReadEndsHolds DEF Inv
<1>8. ASSUME NEW read \in session.reads, TileResult(read) PROVE Inv'
  <2>1. UNCHANGED <<opens, transport, client>>
    BY <1>8 DEF TileResult
  <2> QED
    BY <1>1, <1>8, <2>1, TileResultHolds DEF Inv
<1>9. ASSUME NEW read \in session.reads, NEW ok \in BOOLEAN, RecoveryResult(read, ok) PROVE Inv'
  <2>1. UNCHANGED <<opens, transport, client>>
    BY <1>9 DEF RecoveryResult
  <2> QED
    BY <1>1, <1>9, <2>1, RecoveryResultHolds DEF Inv
<1>10. ASSUME NEW open \in opens, NEW ok \in BOOLEAN, OpenResolves(open, ok) PROVE Inv'
  <2>1. open.epoch \in Nat /\ open.image \in SomeImage
    BY <1>1 DEF Opening
  <2>2. UNCHANGED <<transport, client>> /\ opens' \subseteq Opening
    BY <1>1, <1>10 DEF OpenResolves
  <2> QED
    BY <1>1, <1>10, <2>1, <2>2, OpenResolvesHolds DEF Inv
<1>11. CASE HelloTimer
  <2>1. UNCHANGED <<opens, transport, client>>
    BY <1>11 DEF HelloTimer
  <2> QED
    BY <1>1, <1>11, <2>1, HelloTimerHolds DEF Inv
<1>12. ASSUME NEW id \in DOMAIN session.deliveries, ReleaseTimer(id) PROVE Inv'
  <2>1. UNCHANGED <<opens, transport, client>>
    BY <1>12 DEF ReleaseTimer
  <2> QED
    BY <1>1, <1>12, <2>1, ReleaseTimerHolds DEF Inv
<1>13. CASE UNCHANGED vars
  BY <1>13 DEF vars, Inv
<1> QED
  BY <1>2, <1>3, <1>4, <1>5, <1>6, <1>7, <1>8, <1>9, <1>10, <1>11, <1>12, <1>13, ClientHolds
  DEF Next, Reads

THEOREM InvAlways == Spec => []Inv
BY InvInit, InvStep, PTL DEF Spec

--------------------------------------------------------------------------------
\* What follows

\* Every byte of the window is free or reserved by one delivery, at every step,
\* for every window, ledger and capacity: enforceCreditInvariant never finds
\* otherwise in a session that was not dismantled.
THEOREM CreditConservedAlways == Spec => []CreditConserved
<1>1. Inv => CreditConserved
  BY DEF Inv, SessionInv, Account, Gone, CreditConserved, Dismantled
<1> QED
  BY <1>1, InvAlways, PTL

\* The elements of a sequence that are in a set: none, or one.
LEMMA OnceIsOne ==
    ASSUME NEW T, NEW seq \in Seq(T), NEW S, Once(seq, S)
    PROVE  LET found == {e \in ToSet(seq) : e \in S} IN
           IF None(seq, S) THEN found = {} ELSE \E e \in S : found = {e}
<1> DEFINE found == {e \in ToSet(seq) : e \in S}
<1>1. CASE None(seq, S)
  BY <1>1 DEF None, ToSet
<1>2. CASE ~None(seq, S)
  <2>1. PICK i \in 1..Len(seq) : seq[i] \in S
    BY <1>2 DEF None
  <2>2. \A j \in 1..Len(seq) : seq[j] \in S => j = i
    BY <2>1 DEF Once
  <2>3. found = {seq[i]}
    BY <2>1, <2>2 DEF ToSet
  <2> QED
    BY <1>2, <2>1, <2>3
<1> QED
  BY <1>1, <1>2

\* The turn of the session in the DRR admission has exactly one owner that will
\* end it, whatever happened to the plan that asked for it: it is never lost.
THEOREM TurnHasAnOwnerAlways == Spec => []TurnHasAnOwner
<1>1. ASSUME Inv PROVE TurnHasAnOwner
  <2> DEFINE s == session
             unread == {r \in TileReads : ~r.complete}
             permits == Enqueued("PERMIT")
  <2>1. /\ s \in SessionType /\ s.tasks \in Seq(Task) /\ s.reads \subseteq Read /\ Turn(s)
        /\ s.turn \in {"none", "queued", "held"}
    BY <1>1 DEF Inv, SessionInv, SessionType
  <2>2. unread = {r \in s.reads : r \in OpenReads}
    BY <2>1 DEF TileReads, OpenReads
  <2>3. permits = {t \in ToSet(s.tasks) : t \in PermitTasks}
    BY <2>1 DEF Enqueued, PermitTasks, ToSet
  <2>4. Once(s.tasks, PermitTasks)
    BY <2>1 DEF Turn, AtMostOne
  <2>5. IF None(s.tasks, PermitTasks) THEN permits = {} ELSE \E e \in PermitTasks : permits = {e}
    <3>1. LET found == {e \in ToSet(s.tasks) : e \in PermitTasks} IN
          IF None(s.tasks, PermitTasks) THEN found = {} ELSE \E e \in PermitTasks : found = {e}
      BY <2>1, <2>4, OnceIsOne
    <3> QED
      BY <2>3, <3>1
  <2>6. unread = {} \/ \E r : unread = {r}
    <3>1. \A x, y \in s.reads : x \in OpenReads /\ y \in OpenReads => x = y
      BY <2>1 DEF Turn, AtMostOne
    <3> SUFFICES ASSUME unread # {} PROVE \E r : unread = {r}
      OBVIOUS
    <3>2. PICK r \in s.reads : r \in OpenReads
      BY <2>2
    <3>3. unread = {r}
      BY <2>2, <3>1, <3>2
    <3> QED
      BY <3>3
  <2>7. unread = {} \/ permits = {}
    BY <2>1, <2>2, <2>5 DEF Turn, AtMostOne
  <2>8. NoTurn(s) <=> unread = {} /\ permits = {}
    <3>1. None(<<>>, {})
      BY DEF None
    <3>2. (\A x \in s.reads : x \notin OpenReads) <=> unread = {}
      BY <2>2
    <3>3. None(s.tasks, PermitTasks) <=> permits = {}
      BY <2>5
    <3> QED
      BY <3>1, <3>2, <3>3 DEF NoTurn, Absent
  <2>9. Cardinality({}) = 0 /\ \A e : Cardinality({e}) = 1
    BY FS_EmptySet, FS_Singleton
  <2>10. unread # {} \/ permits # {} => Cardinality(unread) + Cardinality(permits) = 1
    <3> HIDE DEF unread, permits
    <3>1. CASE permits = {} /\ unread # {}
      <4>1. PICK r : unread = {r}
        BY <2>6, <3>1
      <4>2. Cardinality(unread) = 1 /\ Cardinality(permits) = 0
        BY <2>9, <3>1, <4>1
      <4> QED
        BY <4>2
    <3>2. CASE permits # {}
      <4>1. PICK e : permits = {e}
        BY <2>5, <3>2
      <4>2. unread = {}
        BY <2>7, <3>2
      <4>3. Cardinality(unread) = 0 /\ Cardinality(permits) = 1
        BY <2>9, <4>1, <4>2
      <4> QED
        BY <4>3
    <3> QED
      BY <3>1, <3>2
  <2> HIDE DEF unread, permits
  <2>11. s.turn = "held" <=> ~NoTurn(s)
    BY <2>1 DEF Turn
  <2>12. s.turn = "queued" => s.activePlan.readWait
    BY <2>1 DEF Turn
  <2>13. s.turn = "held" => Cardinality(unread) + Cardinality(permits) = 1
    BY <2>8, <2>10, <2>11
  <2>14. s.turn = "none" => unread = {} /\ permits = {}
    BY <2>8, <2>11
  <2> QED
    BY <2>12, <2>13, <2>14 DEF TurnHasAnOwner, unread, permits
<1> QED
  BY <1>1, InvAlways, PTL

================================================================================
