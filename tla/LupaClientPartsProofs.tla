------------------------- MODULE LupaClientPartsProofs -------------------------
(***************************************************************************)
(* Lemmas about the parts of LupaClient, from the inside out: the folds    *)
(* and sums of the model, unfolded by the least counterexample; the        *)
(* worker; what is said of a delivery; the entries of the canvas that end; *)
(* the budget; the resets of the compositor; and the epoch that opens.     *)
(*                                                                         *)
(* A lemma XOK says that the operator X goes from a state where the        *)
(* invariant Core(s, J) holds to one where Core(z, K) does.                *)
(***************************************************************************)
EXTENDS LupaClientInvariant, FiniteSetTheorems, SequenceTheorems, WellFoundedInduction, TLAPS

--------------------------------------------------------------------------------
\* Induction, by the least counterexample.
Before == {pair \in Nat \X Nat : pair[1] < pair[2]}

LEMMA LeastNumber ==
    ASSUME NEW T \in SUBSET Nat, T # {}
    PROVE  \E n \in T : \A m \in T : n <= m
<1>1. IsWellFoundedOn(Before, Nat) BY NatLessThanWellFounded, Zenon DEF OpToRel, Before
<1>2. PICK n \in T : \A m \in T : <<m, n>> \notin Before BY <1>1, WFMin
<1>3. ASSUME NEW m \in T PROVE n <= m
  <2>1. <<m, n>> \in Nat \X Nat /\ <<m, n>>[1] = m /\ <<m, n>>[2] = n OBVIOUS
  <2>2. ~(m < n) BY <1>2, <2>1 DEF Before
  <2> QED BY <2>2
<1> QED BY <1>3

\* kept, as Without defines it, for the first n seq.
IsKept(kept, seq, out, n) ==
    kept = [i \in 0..n |->
              IF i = 0 THEN <<>>
              ELSE IF seq[i] \in out THEN kept[i - 1]
              ELSE Append(kept[i - 1], seq[i])]

\* It is a definition: such a function exists.
LEMMA KeptExists ==
    ASSUME NEW seq, NEW out, NEW N \in Nat
    PROVE  \E kept : IsKept(kept, seq, out, N)
<1> DEFINE Lacking == {n \in Nat : ~\E kept : IsKept(kept, seq, out, n)}
<1> SUFFICES ASSUME Lacking # {} PROVE FALSE
  OBVIOUS
<1>1. PICK n \in Lacking : \A m \in Lacking : n <= m BY LeastNumber
<1>2. n # 0
  <2> DEFINE none == [i \in 0..0 |-> <<>>]
  <2>1. IsKept(none, seq, out, 0) BY DEF IsKept
  <2> QED BY <2>1
<1>3. n - 1 \in Nat /\ n \in Nat BY <1>2
<1>4. PICK short : IsKept(short, seq, out, n - 1) BY <1>1, <1>3
<1> DEFINE next == IF seq[n] \in out THEN short[n - 1] ELSE Append(short[n - 1], seq[n])
           long == [i \in 0..n |-> IF i = n THEN next ELSE short[i]]
<1>5. IsKept(long, seq, out, n)
  <2>1. \A i \in 0..(n - 1) : long[i] = short[i] BY <1>3
  <2>2. long[n] = next BY <1>3
  <2>3. DOMAIN short = 0..(n - 1) BY <1>4 DEF IsKept
  <2>4. ASSUME NEW i \in 0..n
        PROVE  long[i] = IF i = 0 THEN <<>>
                         ELSE IF seq[i] \in out THEN long[i - 1]
                         ELSE Append(long[i - 1], seq[i])
    <3>1. CASE i = n
      <4>1. long[i - 1] = short[i - 1] BY <1>2, <1>3, <2>1, <3>1
      <4> HIDE DEF long
      <4> QED BY <1>2, <2>2, <3>1, <4>1
    <3>2. CASE i # n
      <4>1. i \in 0..(n - 1) /\ (i # 0 => i - 1 \in 0..(n - 1)) BY <1>3, <3>2
      <4>2. long[i] = short[i] /\ (i # 0 => long[i - 1] = short[i - 1]) BY <2>1, <4>1
      <4>3. short[i] = IF i = 0 THEN <<>>
                       ELSE IF seq[i] \in out THEN short[i - 1]
                       ELSE Append(short[i - 1], seq[i])
        BY <1>4, <4>1 DEF IsKept
      <4> HIDE DEF long
      <4> QED BY <4>2, <4>3
    <3> QED BY <3>1, <3>2
  <2>5. DOMAIN long = 0..n OBVIOUS
  <2>6. long = [i \in 0..n |-> long[i]] OBVIOUS
  <2> HIDE DEF long
  <2> QED BY <2>4, <2>6 DEF IsKept
<1> QED BY <1>1, <1>5

\* What remains of the first n seq: seq of the queue, in their order, and
\* every frame that is not out.
Remains(rest, seq, out, n) ==
    /\ Len(rest) <= n
    /\ \E place \in [1..Len(rest) -> 1..n] :
          /\ \A i \in 1..Len(rest) : rest[i] = seq[place[i]] /\ rest[i] \notin out
          /\ \A i, j \in 1..Len(rest) : i < j => place[i] < place[j]
          /\ \A k \in 1..n :
                seq[k] \notin out => \E i \in 1..Len(rest) : place[i] = k

\* One frame more, out or not.
LEMMA RemainsStep ==
    ASSUME NEW S, NEW seq \in Seq(S), NEW out, NEW n \in Nat, n + 1 <= Len(seq),
           NEW rest \in Seq(S), Remains(rest, seq, out, n),
           NEW more, more = IF seq[n + 1] \in out THEN rest ELSE Append(rest, seq[n + 1])
    PROVE  more \in Seq(S) /\ Remains(more, seq, out, n + 1)
<1>1. PICK place \in [1..Len(rest) -> 1..n] :
          /\ \A i \in 1..Len(rest) : rest[i] = seq[place[i]] /\ rest[i] \notin out
          /\ \A i, j \in 1..Len(rest) : i < j => place[i] < place[j]
          /\ \A k \in 1..n :
                seq[k] \notin out => \E i \in 1..Len(rest) : place[i] = k
  BY DEF Remains
<1>2. Len(rest) \in Nat /\ Len(rest) <= n BY DEF Remains
<1>3. CASE seq[n + 1] \in out
  <2>1. more = rest BY <1>3
  <2>2. place \in [1..Len(rest) -> 1..(n + 1)] BY <1>2
  <2>3. \A k \in 1..(n + 1) :
            seq[k] \notin out => \E i \in 1..Len(rest) : place[i] = k
    BY <1>1, <1>3
  <2>4. Len(rest) <= n + 1 BY <1>2
  <2>5. Remains(rest, seq, out, n + 1) BY <1>1, <2>2, <2>3, <2>4 DEF Remains
  <2> QED BY <2>1, <2>5
<1>4. CASE seq[n + 1] \notin out
  <2> DEFINE longer == [i \in 1..(Len(rest) + 1) |-> IF i = Len(rest) + 1 THEN n + 1 ELSE place[i]]
  <2>1. seq[n + 1] \in S BY <1>2
  <2>2. /\ more \in Seq(S) /\ Len(more) = Len(rest) + 1
        /\ more[Len(rest) + 1] = seq[n + 1]
        /\ \A i \in 1..Len(rest) : more[i] = rest[i]
    BY <1>4, <2>1, AppendProperties
  <2>3. longer \in [1..Len(more) -> 1..(n + 1)] BY <1>2, <2>2
  <2>4. longer[Len(more)] = n + 1 /\ \A i \in 1..Len(rest) : longer[i] = place[i] BY <1>2, <2>2
  <2>5. \A i \in 1..Len(more) : i = Len(more) \/ i \in 1..Len(rest) BY <1>2, <2>2
  <2> HIDE DEF longer
  <2>6. \A i \in 1..Len(more) : more[i] = seq[longer[i]] /\ more[i] \notin out
    BY <1>1, <1>2, <1>4, <2>2, <2>4, <2>5
  <2>7. \A i, j \in 1..Len(more) : i < j => longer[i] < longer[j]
    <3> SUFFICES ASSUME NEW i \in 1..Len(more), NEW j \in 1..Len(more), i < j
                 PROVE  longer[i] < longer[j]
      OBVIOUS
    <3>1. i \in 1..Len(rest) /\ place[i] \in 1..n BY <1>2, <2>2
    <3>2. CASE j = Len(more) BY <1>2, <2>4, <3>1, <3>2
    <3>3. CASE j \in 1..Len(rest) BY <1>1, <2>4, <3>1, <3>3
    <3> QED BY <2>5, <3>2, <3>3
  <2>8. \A k \in 1..(n + 1) :
            seq[k] \notin out => \E i \in 1..Len(more) : longer[i] = k
    <3> SUFFICES ASSUME NEW k \in 1..(n + 1), seq[k] \notin out
                 PROVE  \E i \in 1..Len(more) : longer[i] = k
      OBVIOUS
    <3>1. CASE k = n + 1 BY <1>2, <2>2, <2>4, <3>1
    <3>2. CASE k \in 1..n
      <4>1. PICK i \in 1..Len(rest) : place[i] = k BY <1>1, <3>2
      <4>2. i \in 1..Len(more) /\ longer[i] = k BY <1>2, <2>2, <2>4, <4>1
      <4> QED BY <4>2
    <3> QED BY <3>1, <3>2
  <2>9. Len(more) <= n + 1 BY <1>2, <2>2
  <2> QED BY <2>2, <2>3, <2>6, <2>7, <2>8, <2>9 DEF Remains
<1> QED BY <1>3, <1>4

\* Without keeps the other seq, in their order.
LEMMA WithoutRemains ==
    ASSUME NEW S, NEW seq \in Seq(S), NEW out
    PROVE  /\ Without(seq, out) \in Seq(S)
           /\ Remains(Without(seq, out), seq, out, Len(seq))
<1> DEFINE N == Len(seq)
           kept == CHOOSE f : IsKept(f, seq, out, N)
           Wrong == {n \in 0..N : ~(kept[n] \in Seq(S) /\ Remains(kept[n], seq, out, n))}
<1>1. N \in Nat OBVIOUS
<1>2. Without(seq, out) = kept[N] BY DEF Without, IsKept
<1>3. IsKept(kept, seq, out, N) BY <1>1, KeptExists
<1> HIDE DEF kept
<1>4. kept[0] = <<>> BY <1>1, <1>3 DEF IsKept
<1>5. \A n \in 0..(N - 1) :
         kept[n + 1] = IF seq[n + 1] \in out THEN kept[n] ELSE Append(kept[n], seq[n + 1])
  <2> SUFFICES ASSUME NEW n \in 0..(N - 1)
               PROVE kept[n + 1] = IF seq[n + 1] \in out THEN kept[n] ELSE Append(kept[n], seq[n + 1])
    OBVIOUS
  <2>1. n + 1 \in 0..N /\ n + 1 # 0 /\ (n + 1) - 1 = n BY <1>1
  <2> HIDE DEF N
  <2> QED BY <1>3, <2>1 DEF IsKept
<1>6. Wrong = {}
  <2> SUFFICES ASSUME Wrong # {} PROVE FALSE
    OBVIOUS
  <2>1. PICK n \in Wrong : \A m \in Wrong : n <= m
    <3>1. Wrong \in SUBSET Nat BY <1>1
    <3> HIDE DEF Wrong
    <3> QED BY <3>1, LeastNumber
  <2>2. n \in 0..N /\ ~(kept[n] \in Seq(S) /\ Remains(kept[n], seq, out, n)) OBVIOUS
  <2>3. n # 0
    <3>1. <<>> \in Seq(S) /\ Len(<<>>) = 0 BY EmptySeq
    <3>2. Remains(<<>>, seq, out, 0)
      <4> DEFINE nowhere == [i \in 1..Len(<<>>) |-> 0]
      <4>1. ~\E i : i \in 1..Len(<<>>) BY <3>1
      <4>2. ~\E k : k \in 1..0 OBVIOUS
      <4>3. nowhere \in [1..Len(<<>>) -> 1..0] BY <4>1
      <4>4. Len(<<>>) <= 0 BY <3>1
      <4> HIDE DEF nowhere
      <4> QED BY <4>1, <4>2, <4>3, <4>4, Zenon DEF Remains
    <3> QED BY <1>4, <2>2, <3>1, <3>2
  <2>4. n - 1 \in 0..(N - 1) /\ n - 1 \in Nat /\ (n - 1) + 1 = n /\ n <= Len(seq)
    BY <1>1, <2>2, <2>3
  <2>5. n - 1 \notin Wrong BY <2>1, <2>2
  <2>6. kept[n - 1] \in Seq(S) /\ Remains(kept[n - 1], seq, out, n - 1) BY <1>1, <2>4, <2>5
  <2>7. kept[n] = IF seq[n] \in out THEN kept[n - 1] ELSE Append(kept[n - 1], seq[n]) BY <1>5, <2>4
  <2> HIDE DEF Wrong, N
  <2>8. kept[n] \in Seq(S) /\ Remains(kept[n], seq, out, n)
    <3> DEFINE m == n - 1
    <3>1. m \in Nat /\ m + 1 <= Len(seq) /\ m + 1 = n BY <2>4
    <3>2. kept[n] = IF seq[m + 1] \in out THEN kept[m] ELSE Append(kept[m], seq[m + 1])
      BY <2>7, <3>1
    <3>3. kept[m] \in Seq(S) /\ Remains(kept[m], seq, out, m) BY <2>6
    <3> HIDE DEF m
    <3>4. kept[n] \in Seq(S) /\ Remains(kept[n], seq, out, m + 1) BY <3>1, <3>2, <3>3, RemainsStep
    <3> QED BY <3>1, <3>4
  <2> QED BY <2>2, <2>8
<1>7. N \in 0..N BY <1>1
<1> QED BY <1>2, <1>6, <1>7

--------------------------------------------------------------------------------
\* Induction over the subsets of a finite set

Picked(U) == CHOOSE x \in U : TRUE

\* A family of subsets that has each one without any of whose elements it has, has
\* them all.
LEMMA SubsetInduction ==
    ASSUME NEW S, IsFiniteSet(S), NEW Good,
           \A U \in SUBSET S : (\A x \in U : U \ {x} \in Good) => U \in Good
    PROVE  \A U \in SUBSET S : U \in Good
<1> DEFINE Bad == {n \in Nat : \E U \in SUBSET S : U \notin Good /\ Cardinality(U) = n}
<1> SUFFICES ASSUME NEW U \in SUBSET S, U \notin Good PROVE FALSE
  OBVIOUS
<1>1. IsFiniteSet(U) /\ Cardinality(U) \in Nat BY FS_Subset, FS_CardinalityType
<1>2. Cardinality(U) \in Bad BY <1>1
<1>3. PICK n \in Bad : \A m \in Bad : n <= m BY <1>2, LeastNumber
<1>4. PICK W \in SUBSET S : W \notin Good /\ Cardinality(W) = n OBVIOUS
<1>5. IsFiniteSet(W) /\ Cardinality(W) \in Nat BY FS_Subset, FS_CardinalityType
<1>6. PICK x \in W : W \ {x} \notin Good BY <1>4
<1>7. Cardinality(W \ {x}) = n - 1 /\ n \in Nat /\ Cardinality(W \ {x}) \in Nat
  BY <1>4, <1>5, <1>6, FS_RemoveElement, FS_CardinalityType
<1>8. W \ {x} \in SUBSET S OBVIOUS
<1>9. n - 1 \in Bad BY <1>6, <1>7, <1>8
<1> HIDE DEF Bad
<1> QED BY <1>3, <1>7, <1>9
--------------------------------------------------------------------------------
\* The folds of the model: the functions they are defined by exist

CancelAll(b, jobs) == FoldSet(LAMBDA job, rest : Cancel(rest, job), b, jobs)

SmallSubsets(S, n) == {U \in SUBSET S : Cardinality(U) <= n}

LEMMA NoSmallerSubset ==
    ASSUME NEW S, IsFiniteSet(S), NEW U \in SmallSubsets(S, 0)
    PROVE  U = {}
<1>1. U \in SUBSET S /\ Cardinality(U) <= 0 BY DEF SmallSubsets
<1>2. IsFiniteSet(U) /\ Cardinality(U) \in Nat BY <1>1, FS_Subset, FS_CardinalityType
<1>3. Cardinality(U) = 0 BY <1>1, <1>2
<1> QED BY <1>2, <1>3, FS_EmptySet

LEMMA SmallerSubset ==
    ASSUME NEW S, IsFiniteSet(S), NEW n \in Nat, NEW U \in SmallSubsets(S, n), U # {}
    PROVE  U \ {Picked(U)} \in SmallSubsets(S, n - 1)
<1>1. U \in SUBSET S /\ Cardinality(U) <= n BY DEF SmallSubsets
<1>2. IsFiniteSet(U) /\ Cardinality(U) \in Nat BY <1>1, FS_Subset, FS_CardinalityType
<1>3. Picked(U) \in U BY DEF Picked
<1>4. Cardinality(U \ {Picked(U)}) = Cardinality(U) - 1 BY <1>2, <1>3, FS_RemoveElement
<1>5. Cardinality(U \ {Picked(U)}) <= n - 1 BY <1>1, <1>2, <1>4
<1>6. U \ {Picked(U)} \in SUBSET S BY <1>1
<1> QED BY <1>5, <1>6 DEF SmallSubsets

LEMMA LargerBound ==
    ASSUME NEW S, IsFiniteSet(S), NEW n \in Nat, NEW W \in SmallSubsets(S, n - 1)
    PROVE  W \in SmallSubsets(S, n)
<1>1. W \in SUBSET S /\ Cardinality(W) <= n - 1 BY DEF SmallSubsets
<1>2. Cardinality(W) \in Nat BY <1>1, FS_Subset, FS_CardinalityType
<1>3. Cardinality(W) <= n BY <1>1, <1>2
<1> QED BY <1>1, <1>3 DEF SmallSubsets

LEMMA AllSmallSubsets ==
    ASSUME NEW S, IsFiniteSet(S)
    PROVE  Cardinality(S) \in Nat /\ SmallSubsets(S, Cardinality(S)) = SUBSET S
BY FS_Subset, FS_CardinalityType DEF SmallSubsets

\* EndPresentations of s, for each set of the family.
IsEnding(f, s, family) ==
    f = [U \in family |->
            IF U = {} THEN s
            ELSE PresentationEnds(f[U \ {Picked(U)}], s.canvas.entries[Picked(U)].job)]

LEMMA IsEndingExists ==
    ASSUME NEW s, NEW S, IsFiniteSet(S)
    PROVE  \E f : IsEnding(f, s, SUBSET S)
<1> DEFINE Lacking == {n \in Nat : ~\E f : IsEnding(f, s, SmallSubsets(S, n))}
<1>1. Lacking = {}
  <2> SUFFICES ASSUME Lacking # {} PROVE FALSE
    OBVIOUS
  <2>1. PICK n \in Lacking : \A m \in Lacking : n <= m BY LeastNumber
  <2>2. n # 0
    <3> DEFINE none == [U \in SmallSubsets(S, 0) |-> s]
    <3>1. \A U \in SmallSubsets(S, 0) : U = {} BY NoSmallerSubset
    <3>2. IsEnding(none, s, SmallSubsets(S, 0)) BY <3>1 DEF IsEnding
    <3> QED BY <3>2
  <2>3. n - 1 \in Nat /\ n - 1 \notin Lacking BY <2>1, <2>2
  <2>4. PICK short : IsEnding(short, s, SmallSubsets(S, n - 1)) BY <2>3
  <2> DEFINE long == [U \in SmallSubsets(S, n) |->
                        IF U = {} THEN s
                        ELSE PresentationEnds(short[U \ {Picked(U)}], s.canvas.entries[Picked(U)].job)]
  <2>5. ASSUME NEW W \in SmallSubsets(S, n - 1) PROVE long[W] = short[W]
    <3>1. W \in SmallSubsets(S, n) BY <2>3, LargerBound
    <3> QED BY <2>4, <3>1 DEF IsEnding
  <2>6. ASSUME NEW U \in SmallSubsets(S, n), U # {}
        PROVE  long[U \ {Picked(U)}] = short[U \ {Picked(U)}]
    <3>1. U \ {Picked(U)} \in SmallSubsets(S, n - 1) BY <2>3, <2>6, SmallerSubset
    <3> QED BY <2>5, <3>1
  <2>7. IsEnding(long, s, SmallSubsets(S, n))
    <3>1. long = [U \in SmallSubsets(S, n) |->
                    IF U = {} THEN s
                    ELSE PresentationEnds(long[U \ {Picked(U)}], s.canvas.entries[Picked(U)].job)]
      BY <2>6
    <3> HIDE DEF long
    <3> QED BY <3>1 DEF IsEnding
  <2> QED BY <2>1, <2>7
<1> HIDE DEF Lacking
<1>2. Cardinality(S) \in Nat /\ SmallSubsets(S, Cardinality(S)) = SUBSET S BY AllSmallSubsets
<1>3. ~(Cardinality(S) \in Lacking) BY <1>1
<1>4. \E f : IsEnding(f, s, SmallSubsets(S, Cardinality(S))) BY <1>2, <1>3 DEF Lacking
<1> QED BY <1>2, <1>4

LEMMA IsEndingUnfolds ==
    ASSUME NEW s, NEW S, IsFiniteSet(Unpresented(s.canvas, S))
    PROVE  \E f : IsEnding(f, s, SUBSET Unpresented(s.canvas, S)) /\ EndPresentations(s, S) = f[Unpresented(s.canvas, S)]
<1> DEFINE f == CHOOSE f : IsEnding(f, s, SUBSET Unpresented(s.canvas, S))
<1>1. IsEnding(f, s, SUBSET Unpresented(s.canvas, S)) BY IsEndingExists
<1>2. EndPresentations(s, S) = f[Unpresented(s.canvas, S)]
  BY DEF IsEnding, Picked, EndPresentations, FoldSet, MapThenFoldSet
<1> QED BY <1>1, <1>2

\* RemovedFromBudget.
IsRemoval(f, b, entries, family) ==
    f = [U \in family |->
            IF U = {} THEN b
            ELSE RemoveStored(f[U \ {Picked(U)}], entries[Picked(U)].kind, Bytes[Picked(U)])]

LEMMA IsRemovalExists ==
    ASSUME NEW b, NEW entries, NEW S, IsFiniteSet(S)
    PROVE  \E f : IsRemoval(f, b, entries, SUBSET S)
<1> DEFINE Lacking == {n \in Nat : ~\E f : IsRemoval(f, b, entries, SmallSubsets(S, n))}
<1>1. Lacking = {}
  <2> SUFFICES ASSUME Lacking # {} PROVE FALSE
    OBVIOUS
  <2>1. PICK n \in Lacking : \A m \in Lacking : n <= m BY LeastNumber
  <2>2. n # 0
    <3> DEFINE none == [U \in SmallSubsets(S, 0) |-> b]
    <3>1. \A U \in SmallSubsets(S, 0) : U = {} BY NoSmallerSubset
    <3>2. IsRemoval(none, b, entries, SmallSubsets(S, 0)) BY <3>1 DEF IsRemoval
    <3> QED BY <3>2
  <2>3. n - 1 \in Nat /\ n - 1 \notin Lacking BY <2>1, <2>2
  <2>4. PICK short : IsRemoval(short, b, entries, SmallSubsets(S, n - 1)) BY <2>3
  <2> DEFINE long == [U \in SmallSubsets(S, n) |->
                        IF U = {} THEN b
                        ELSE RemoveStored(short[U \ {Picked(U)}], entries[Picked(U)].kind, Bytes[Picked(U)])]
  <2>5. ASSUME NEW W \in SmallSubsets(S, n - 1) PROVE long[W] = short[W]
    <3>1. W \in SmallSubsets(S, n) BY <2>3, LargerBound
    <3> QED BY <2>4, <3>1 DEF IsRemoval
  <2>6. ASSUME NEW U \in SmallSubsets(S, n), U # {}
        PROVE  long[U \ {Picked(U)}] = short[U \ {Picked(U)}]
    <3>1. U \ {Picked(U)} \in SmallSubsets(S, n - 1) BY <2>3, <2>6, SmallerSubset
    <3> QED BY <2>5, <3>1
  <2>7. IsRemoval(long, b, entries, SmallSubsets(S, n))
    <3>1. long = [U \in SmallSubsets(S, n) |->
                    IF U = {} THEN b
                    ELSE RemoveStored(long[U \ {Picked(U)}], entries[Picked(U)].kind, Bytes[Picked(U)])]
      BY <2>6
    <3> HIDE DEF long
    <3> QED BY <3>1 DEF IsRemoval
  <2> QED BY <2>1, <2>7
<1> HIDE DEF Lacking
<1>2. Cardinality(S) \in Nat /\ SmallSubsets(S, Cardinality(S)) = SUBSET S BY AllSmallSubsets
<1>3. ~(Cardinality(S) \in Lacking) BY <1>1
<1>4. \E f : IsRemoval(f, b, entries, SmallSubsets(S, Cardinality(S))) BY <1>2, <1>3 DEF Lacking
<1> QED BY <1>2, <1>4

LEMMA IsRemovalUnfolds ==
    ASSUME NEW b, NEW entries, NEW S, IsFiniteSet(S)
    PROVE  \E f : IsRemoval(f, b, entries, SUBSET S) /\ RemovedFromBudget(b, entries, S) = f[S]
<1> DEFINE f == CHOOSE f : IsRemoval(f, b, entries, SUBSET S)
<1>1. IsRemoval(f, b, entries, SUBSET S) BY IsRemovalExists
<1>2. RemovedFromBudget(b, entries, S) = f[S]
  BY DEF IsRemoval, Picked, RemovedFromBudget, FoldSet, MapThenFoldSet
<1> QED BY <1>1, <1>2

\* The reservations CancelReservations gives back.
IsCancelling(f, b, family) ==
    f = [U \in family |->
            IF U = {} THEN b
            ELSE Cancel(f[U \ {Picked(U)}], Picked(U))]

LEMMA IsCancellingExists ==
    ASSUME NEW b, NEW S, IsFiniteSet(S)
    PROVE  \E f : IsCancelling(f, b, SUBSET S)
<1> DEFINE Lacking == {n \in Nat : ~\E f : IsCancelling(f, b, SmallSubsets(S, n))}
<1>1. Lacking = {}
  <2> SUFFICES ASSUME Lacking # {} PROVE FALSE
    OBVIOUS
  <2>1. PICK n \in Lacking : \A m \in Lacking : n <= m BY LeastNumber
  <2>2. n # 0
    <3> DEFINE none == [U \in SmallSubsets(S, 0) |-> b]
    <3>1. \A U \in SmallSubsets(S, 0) : U = {} BY NoSmallerSubset
    <3>2. IsCancelling(none, b, SmallSubsets(S, 0)) BY <3>1 DEF IsCancelling
    <3> QED BY <3>2
  <2>3. n - 1 \in Nat /\ n - 1 \notin Lacking BY <2>1, <2>2
  <2>4. PICK short : IsCancelling(short, b, SmallSubsets(S, n - 1)) BY <2>3
  <2> DEFINE long == [U \in SmallSubsets(S, n) |->
                        IF U = {} THEN b
                        ELSE Cancel(short[U \ {Picked(U)}], Picked(U))]
  <2>5. ASSUME NEW W \in SmallSubsets(S, n - 1) PROVE long[W] = short[W]
    <3>1. W \in SmallSubsets(S, n) BY <2>3, LargerBound
    <3> QED BY <2>4, <3>1 DEF IsCancelling
  <2>6. ASSUME NEW U \in SmallSubsets(S, n), U # {}
        PROVE  long[U \ {Picked(U)}] = short[U \ {Picked(U)}]
    <3>1. U \ {Picked(U)} \in SmallSubsets(S, n - 1) BY <2>3, <2>6, SmallerSubset
    <3> QED BY <2>5, <3>1
  <2>7. IsCancelling(long, b, SmallSubsets(S, n))
    <3>1. long = [U \in SmallSubsets(S, n) |->
                    IF U = {} THEN b
                    ELSE Cancel(long[U \ {Picked(U)}], Picked(U))]
      BY <2>6
    <3> HIDE DEF long
    <3> QED BY <3>1 DEF IsCancelling
  <2> QED BY <2>1, <2>7
<1> HIDE DEF Lacking
<1>2. Cardinality(S) \in Nat /\ SmallSubsets(S, Cardinality(S)) = SUBSET S BY AllSmallSubsets
<1>3. ~(Cardinality(S) \in Lacking) BY <1>1
<1>4. \E f : IsCancelling(f, b, SmallSubsets(S, Cardinality(S))) BY <1>2, <1>3 DEF Lacking
<1> QED BY <1>2, <1>4

LEMMA IsCancellingUnfolds ==
    ASSUME NEW b, NEW S, IsFiniteSet(S)
    PROVE  \E f : IsCancelling(f, b, SUBSET S) /\ CancelAll(b, S) = f[S]
<1> DEFINE f == CHOOSE f : IsCancelling(f, b, SUBSET S)
<1>1. IsCancelling(f, b, SUBSET S) BY IsCancellingExists
<1>2. CancelAll(b, S) = f[S] BY DEF IsCancelling, Picked, CancelAll, FoldSet, MapThenFoldSet
<1> QED BY <1>1, <1>2

\* SumFunctionOnSet.
IsSum(f, val, family) ==
    f = [U \in family |->
            IF U = {} THEN 0
            ELSE val[Picked(U)] + f[U \ {Picked(U)}]]

LEMMA IsSumExists ==
    ASSUME NEW val, NEW S, IsFiniteSet(S)
    PROVE  \E f : IsSum(f, val, SUBSET S)
<1> DEFINE Lacking == {n \in Nat : ~\E f : IsSum(f, val, SmallSubsets(S, n))}
<1>1. Lacking = {}
  <2> SUFFICES ASSUME Lacking # {} PROVE FALSE
    OBVIOUS
  <2>1. PICK n \in Lacking : \A m \in Lacking : n <= m BY LeastNumber
  <2>2. n # 0
    <3> DEFINE none == [U \in SmallSubsets(S, 0) |-> 0]
    <3>1. \A U \in SmallSubsets(S, 0) : U = {} BY NoSmallerSubset
    <3>2. IsSum(none, val, SmallSubsets(S, 0)) BY <3>1 DEF IsSum
    <3> QED BY <3>2
  <2>3. n - 1 \in Nat /\ n - 1 \notin Lacking BY <2>1, <2>2
  <2>4. PICK short : IsSum(short, val, SmallSubsets(S, n - 1)) BY <2>3
  <2> DEFINE long == [U \in SmallSubsets(S, n) |->
                        IF U = {} THEN 0
                        ELSE val[Picked(U)] + short[U \ {Picked(U)}]]
  <2>5. ASSUME NEW W \in SmallSubsets(S, n - 1) PROVE long[W] = short[W]
    <3>1. W \in SmallSubsets(S, n) BY <2>3, LargerBound
    <3> QED BY <2>4, <3>1 DEF IsSum
  <2>6. ASSUME NEW U \in SmallSubsets(S, n), U # {}
        PROVE  long[U \ {Picked(U)}] = short[U \ {Picked(U)}]
    <3>1. U \ {Picked(U)} \in SmallSubsets(S, n - 1) BY <2>3, <2>6, SmallerSubset
    <3> QED BY <2>5, <3>1
  <2>7. IsSum(long, val, SmallSubsets(S, n))
    <3>1. long = [U \in SmallSubsets(S, n) |->
                    IF U = {} THEN 0
                    ELSE val[Picked(U)] + long[U \ {Picked(U)}]]
      BY <2>6
    <3> HIDE DEF long
    <3> QED BY <3>1 DEF IsSum
  <2> QED BY <2>1, <2>7
<1> HIDE DEF Lacking
<1>2. Cardinality(S) \in Nat /\ SmallSubsets(S, Cardinality(S)) = SUBSET S BY AllSmallSubsets
<1>3. ~(Cardinality(S) \in Lacking) BY <1>1
<1>4. \E f : IsSum(f, val, SmallSubsets(S, Cardinality(S))) BY <1>2, <1>3 DEF Lacking
<1> QED BY <1>2, <1>4

LEMMA IsSumUnfolds ==
    ASSUME NEW val, NEW S, IsFiniteSet(S)
    PROVE  \E f : IsSum(f, val, SUBSET S) /\ SumFunctionOnSet(val, S) = f[S]
<1> DEFINE f == CHOOSE f : IsSum(f, val, SUBSET S)
<1>1. IsSum(f, val, SUBSET S) BY IsSumExists
<1>2. SumFunctionOnSet(val, S) = f[S]
  BY DEF IsSum, Picked, SumFunctionOnSet, FoldFunctionOnSet, FoldSet, MapThenFoldSet
<1> QED BY <1>1, <1>2

--------------------------------------------------------------------------------
\* Sums

LEMMA SumUnique ==
    ASSUME NEW val, NEW S, IsFiniteSet(S), NEW T \in SUBSET S, NEW f, NEW g,
           IsSum(f, val, SUBSET S), IsSum(g, val, SUBSET T)
    PROVE  f[T] = g[T]
<1> DEFINE Good == {U \in SUBSET T : f[U] = g[U]}
<1>1. IsFiniteSet(T) BY FS_Subset
<1>2. ASSUME NEW U \in SUBSET T, \A x \in U : U \ {x} \in Good
      PROVE  U \in Good
  <2>1. U \in SUBSET S OBVIOUS
  <2>2. CASE U = {} BY <2>1, <2>2 DEF IsSum
  <2>3. CASE U # {}
    <3>1. Picked(U) \in U BY <2>3 DEF Picked
    <3>2. f[U \ {Picked(U)}] = g[U \ {Picked(U)}] BY <1>2, <3>1
    <3>3. f[U] = val[Picked(U)] + f[U \ {Picked(U)}] BY <2>1, <2>3 DEF IsSum
    <3>4. g[U] = val[Picked(U)] + g[U \ {Picked(U)}] BY <2>3 DEF IsSum
    <3> QED BY <3>2, <3>3, <3>4
  <2> QED BY <2>2, <2>3
<1> HIDE DEF Good
<1>3. \A U \in SUBSET T : U \in Good BY <1>1, <1>2, SubsetInduction
<1> QED BY <1>3 DEF Good

LEMMA SumEmpty ==
    ASSUME NEW val
    PROVE  SumFunctionOnSet(val, {}) = 0
<1>1. PICK f : IsSum(f, val, SUBSET {}) /\ SumFunctionOnSet(val, {}) = f[{}]
  BY FS_EmptySet, IsSumUnfolds
<1> QED BY <1>1 DEF IsSum

LEMMA SumPicked ==
    ASSUME NEW val, NEW S, IsFiniteSet(S), S # {}
    PROVE  /\ Picked(S) \in S
           /\ SumFunctionOnSet(val, S) = val[Picked(S)] + SumFunctionOnSet(val, S \ {Picked(S)})
<1> DEFINE R == S \ {Picked(S)}
<1>1. PICK f : IsSum(f, val, SUBSET S) /\ SumFunctionOnSet(val, S) = f[S] BY IsSumUnfolds
<1>2. IsFiniteSet(R) /\ R \in SUBSET S BY FS_Subset
<1>3. PICK g : IsSum(g, val, SUBSET R) /\ SumFunctionOnSet(val, R) = g[R] BY <1>2, IsSumUnfolds
<1>4. f[R] = g[R] BY <1>1, <1>2, <1>3, SumUnique, SMTT(30), ZenonT(60)
<1>5. f[S] = val[Picked(S)] + f[R] BY <1>1 DEF IsSum
<1> QED BY <1>1, <1>3, <1>4, <1>5 DEF Picked

\* A sum of numbers is one.
LEMMA SumIsNat ==
    ASSUME NEW val, NEW S, IsFiniteSet(S), \A x \in S : val[x] \in Nat
    PROVE  SumFunctionOnSet(val, S) \in Nat
<1> DEFINE Good == {U \in SUBSET S : SumFunctionOnSet(val, U) \in Nat}
<1>1. ASSUME NEW U \in SUBSET S, \A x \in U : U \ {x} \in Good
      PROVE  U \in Good
  <2>1. CASE U = {} BY <2>1, SumEmpty
  <2>2. CASE U # {}
    <3>1. IsFiniteSet(U) BY FS_Subset
    <3>2. Picked(U) \in U /\ SumFunctionOnSet(val, U) = val[Picked(U)] + SumFunctionOnSet(val, U \ {Picked(U)})
      BY <2>2, <3>1, SumPicked
    <3>3. val[Picked(U)] \in Nat /\ SumFunctionOnSet(val, U \ {Picked(U)}) \in Nat BY <1>1, <3>2
    <3> QED BY <3>2, <3>3
  <2> QED BY <2>1, <2>2
<1> HIDE DEF Good
<1>2. \A U \in SUBSET S : U \in Good BY <1>1, SubsetInduction
<1> QED BY <1>2 DEF Good

\* Any term can be taken out.
LEMMA SumWithout ==
    ASSUME NEW val, NEW S, IsFiniteSet(S), \A x \in S : val[x] \in Nat, NEW y \in S
    PROVE  SumFunctionOnSet(val, S) = val[y] + SumFunctionOnSet(val, S \ {y})
<1> DEFINE Good == {U \in SUBSET S : \A x \in U :
                        SumFunctionOnSet(val, U) = val[x] + SumFunctionOnSet(val, U \ {x})}
<1>1. ASSUME NEW U \in SUBSET S, \A x \in U : U \ {x} \in Good
      PROVE  U \in Good
  <2> SUFFICES ASSUME NEW x \in U
               PROVE  SumFunctionOnSet(val, U) = val[x] + SumFunctionOnSet(val, U \ {x})
    OBVIOUS
  <2> DEFINE p == Picked(U)
  <2>1. IsFiniteSet(U) BY FS_Subset
  <2>2. p \in U /\ SumFunctionOnSet(val, U) = val[p] + SumFunctionOnSet(val, U \ {p})
    BY <2>1, SumPicked
  <2> HIDE DEF p
  <2>3. CASE x = p BY <2>2, <2>3
  <2>4. CASE x # p
    <3>1. x \in U \ {p} /\ p \in U \ {x} BY <2>2, <2>4
    <3>2. SumFunctionOnSet(val, U \ {p}) = val[x] + SumFunctionOnSet(val, (U \ {p}) \ {x})
      BY <1>1, <2>2, <3>1
    <3>3. SumFunctionOnSet(val, U \ {x}) = val[p] + SumFunctionOnSet(val, (U \ {x}) \ {p})
      BY <1>1, <3>1
    <3>4. (U \ {p}) \ {x} = (U \ {x}) \ {p} OBVIOUS
    <3> DEFINE rest == SumFunctionOnSet(val, (U \ {p}) \ {x})
    <3>5. IsFiniteSet((U \ {p}) \ {x}) BY <2>1, FS_Subset
    <3>6. rest \in Nat /\ val[x] \in Nat /\ val[p] \in Nat BY <2>2, <3>5, SumIsNat
    <3> HIDE DEF rest
    <3>7. SumFunctionOnSet(val, U \ {p}) = val[x] + rest BY <3>2 DEF rest
    <3>8. SumFunctionOnSet(val, U \ {x}) = val[p] + rest BY <3>3, <3>4 DEF rest
    <3> QED BY <2>2, <3>6, <3>7, <3>8
  <2> QED BY <2>3, <2>4
<1> HIDE DEF Good
<1>2. \A U \in SUBSET S : U \in Good BY <1>1, SubsetInduction
<1>3. S \in Good BY <1>2
<1> QED BY <1>3 DEF Good

LEMMA SumWith ==
    ASSUME NEW val, NEW S, IsFiniteSet(S), NEW y, y \notin S, val[y] \in Nat,
           \A x \in S : val[x] \in Nat
    PROVE  SumFunctionOnSet(val, S \cup {y}) = val[y] + SumFunctionOnSet(val, S)
<1>1. IsFiniteSet(S \cup {y}) /\ y \in S \cup {y} /\ (S \cup {y}) \ {y} = S BY FS_AddElement
<1>2. \A x \in S \cup {y} : val[x] \in Nat OBVIOUS
<1> QED BY <1>1, <1>2, SumWithout

\* Only the terms count.
LEMMA SumSame ==
    ASSUME NEW val, NEW other, NEW S, IsFiniteSet(S), \A x \in S : val[x] = other[x]
    PROVE  SumFunctionOnSet(val, S) = SumFunctionOnSet(other, S)
<1> DEFINE Good == {U \in SUBSET S : SumFunctionOnSet(val, U) = SumFunctionOnSet(other, U)}
<1>1. ASSUME NEW U \in SUBSET S, \A x \in U : U \ {x} \in Good
      PROVE  U \in Good
  <2>1. CASE U = {} BY <2>1, SumEmpty
  <2>2. CASE U # {}
    <3>1. IsFiniteSet(U) BY FS_Subset
    <3>2. Picked(U) \in U /\ SumFunctionOnSet(val, U) = val[Picked(U)] + SumFunctionOnSet(val, U \ {Picked(U)})
      BY <2>2, <3>1, SumPicked
    <3>3. SumFunctionOnSet(other, U) = other[Picked(U)] + SumFunctionOnSet(other, U \ {Picked(U)})
      BY <2>2, <3>1, SumPicked
    <3>4. SumFunctionOnSet(val, U \ {Picked(U)}) = SumFunctionOnSet(other, U \ {Picked(U)})
      BY <1>1, <3>2
    <3>5. val[Picked(U)] = other[Picked(U)] BY <3>2
    <3> QED BY <3>2, <3>3, <3>4, <3>5
  <2> QED BY <2>1, <2>2
<1> HIDE DEF Good
<1>2. \A U \in SUBSET S : U \in Good BY <1>1, SubsetInduction
<1> QED BY <1>2 DEF Good

\* The sums of the model.
LEMMA BytesSum ==
    ASSUME NEW tiles
    PROVE  MapThenSumSet(LAMBDA t : Bytes[t], tiles) = SumFunctionOnSet(Bytes, tiles)
BY DEF MapThenSumSet, SumFunctionOnSet, FoldFunctionOnSet, MapThenFoldSet

IsAskSum(f, deliveries, family) ==
    f = [U \in family |->
            IF U = {} THEN 0
            ELSE deliveries[Picked(U)].receipt.asks + f[U \ {Picked(U)}]]

LEMMA AsksSum ==
    ASSUME NEW deliveries, IsFiniteSet(DOMAIN deliveries)
    PROVE  MapThenSumSet(LAMBDA d : deliveries[d].receipt.asks, DOMAIN deliveries)
                = SumOfAsks(deliveries)
<1> DEFINE S == DOMAIN deliveries
           g == CHOOSE g : IsAskSum(g, deliveries, SUBSET S)
<1>1. ASSUME NEW f
      PROVE  IsAskSum(f, deliveries, SUBSET S) <=> IsSum(f, AsksOf(deliveries), SUBSET S)
  <2>1. \A U \in SUBSET S : U # {} =>
            AsksOf(deliveries)[Picked(U)] = deliveries[Picked(U)].receipt.asks
    BY DEF AsksOf, Picked
  <2> QED BY <2>1 DEF IsAskSum, IsSum
<1>2. PICK f : IsSum(f, AsksOf(deliveries), SUBSET S) /\ SumOfAsks(deliveries) = f[S]
  BY IsSumUnfolds DEF SumOfAsks
<1>3. IsAskSum(g, deliveries, SUBSET S) BY <1>1, <1>2
<1>4. MapThenSumSet(LAMBDA d : deliveries[d].receipt.asks, S) = g[S]
  BY DEF MapThenSumSet, MapThenFoldSet, IsAskSum, Picked
<1> HIDE DEF g
<1>5. f[S] = g[S] BY <1>1, <1>2, <1>3, SumUnique
<1> QED BY <1>2, <1>4, <1>5

--------------------------------------------------------------------------------
\* The worker: every job it was given is in one place, and stays until it is answered

\* An answer more, of a job that is nowhere else.
LEMMA PostOK ==
    ASSUME NEW w, IsWorker(w), OneEach(w), NEW type \in AnswerTypes, NEW job \in Jobs,
           job \notin JobsOf(w)
    PROVE  LET v == Post(w, type, job)
           IN  /\ IsWorker(v) /\ OneEach(v) /\ JobsOf(v) = JobsOf(w) \cup {job}
               /\ v.queue = w.queue /\ v.active = w.active
<1> DEFINE v == Post(w, type, job)
           a == Answer(type, job)
<1>1. a \in Answers /\ a.job = job BY DEF Answer, Answers
<1>2. /\ v = [queue |-> w.queue, active |-> w.active, minimumEpoch |-> w.minimumEpoch,
              outbox |-> Append(w.outbox, a)]
      /\ w.outbox \in Seq(Answers)
  <2>1. w = [queue |-> w.queue, active |-> w.active, minimumEpoch |-> w.minimumEpoch,
             outbox |-> w.outbox]
        /\ w.outbox \in Seq(Answers)
    BY DEF IsWorker
  <2>2. v = [w EXCEPT !.outbox = Append(w.outbox, a)] BY DEF Post
  <2> HIDE DEF v, a
  <2> QED BY <2>1, <2>2
<1> HIDE DEF a
<1>3. /\ v.outbox \in Seq(Answers) /\ Len(v.outbox) = Len(w.outbox) + 1
      /\ v.outbox[Len(w.outbox) + 1] = a
      /\ \A k \in 1..Len(w.outbox) : v.outbox[k] = w.outbox[k]
      /\ Len(w.outbox) \in Nat
  BY <1>1, <1>2, AppendProperties
<1>4. v.queue = w.queue /\ v.active = w.active BY <1>2
<1>5. IsWorker(v) BY <1>2, <1>3 DEF IsWorker
<1> HIDE DEF v
<1>6. \A k \in 1..Len(v.outbox) : k = Len(w.outbox) + 1 \/ k \in 1..Len(w.outbox) BY <1>3
<1>7. /\ job \notin w.active /\ \A i \in 1..Len(w.queue) : w.queue[i] # job
      /\ \A k \in 1..Len(w.outbox) : w.outbox[k].job # job
  BY DEF JobsOf, InQueue, InOutbox
<1>8. OneEach(v)
  <2>1. \A i, k \in 1..Len(v.outbox) : v.outbox[i].job = v.outbox[k].job => i = k
    BY <1>1, <1>3, <1>6, <1>7 DEF OneEach
  <2>2. \A k \in 1..Len(v.outbox) : v.outbox[k].job \notin v.active
    BY <1>1, <1>3, <1>4, <1>6, <1>7 DEF OneEach
  <2>3. \A i \in 1..Len(v.queue), k \in 1..Len(v.outbox) : v.queue[i] # v.outbox[k].job
    BY <1>1, <1>3, <1>4, <1>6, <1>7, SMTT(30), ZenonT(60) DEF OneEach
  <2> QED BY <1>4, <2>1, <2>2, <2>3 DEF OneEach
<1>9. InOutbox(v) = InOutbox(w) \cup {job}
  <2>1. Len(w.outbox) + 1 \in 1..Len(v.outbox) /\ \A k \in 1..Len(w.outbox) : k \in 1..Len(v.outbox)
    BY <1>3
  <2> QED BY <1>1, <1>3, <1>6, <2>1 DEF InOutbox
<1>10. JobsOf(v) = JobsOf(w) \cup {job} BY <1>4, <1>9 DEF JobsOf, InQueue
<1> QED BY <1>4, <1>5, <1>8, <1>10 DEF v

\* A job that starts leaves the queue for the decoder.
LEMMA PumpQueueOK ==
    ASSUME NEW w, IsWorker(w), OneEach(w), Cardinality(w.active) <= MaxActive
    PROVE  LET v == PumpQueue(w)
           IN  /\ IsWorker(v) /\ OneEach(v) /\ JobsOf(v) = JobsOf(w)
               /\ Cardinality(v.active) <= MaxActive /\ Len(v.queue) <= Len(w.queue)
<1> DEFINE v == PumpQueue(w)
<1>1. Len(w.queue) \in Nat /\ w.queue \in Seq(Jobs) /\ Cardinality(w.active) \in Nat
  BY FS_CardinalityType DEF IsWorker
<1>2. CASE Len(w.queue) = 0 \/ Cardinality(w.active) >= MaxActive BY <1>1, <1>2 DEF PumpQueue
<1>3. CASE ~(Len(w.queue) = 0 \/ Cardinality(w.active) >= MaxActive)
  <2> DEFINE head == Head(w.queue)
             rest == Tail(w.queue)
  <2>1. v = [queue |-> rest, active |-> w.active \cup {head},
             minimumEpoch |-> w.minimumEpoch, outbox |-> w.outbox]
    BY <1>3 DEF PumpQueue, IsWorker
  <2>2. /\ head = w.queue[1] /\ head \in Jobs /\ rest \in Seq(Jobs)
        /\ Len(rest) = Len(w.queue) - 1 /\ \A i \in 1..Len(rest) : rest[i] = w.queue[i + 1]
        /\ 1 \in 1..Len(w.queue) /\ Len(rest) \in Nat
    BY <1>1, <1>3
  <2> HIDE DEF head, rest
  <2>3. \A i \in 1..Len(rest) : i + 1 \in 1..Len(w.queue) /\ i + 1 # 1 BY <1>1, <2>2
  <2>4. /\ v.queue = rest /\ v.active = w.active \cup {head} /\ v.outbox = w.outbox BY <2>1
  <2>5. IsFiniteSet(v.active) /\ head \notin w.active /\ Cardinality(v.active) = Cardinality(w.active) + 1
    <3>1. head \notin w.active BY <2>2 DEF OneEach
    <3> QED BY <2>4, <3>1, FS_AddElement DEF IsWorker
  <2>6. IsWorker(v)
    <3>1. v.active \in SUBSET Jobs /\ v.outbox \in Seq(Answers) BY <2>2, <2>4 DEF IsWorker
    <3> QED BY <2>1, <2>2, <2>4, <2>5, <3>1 DEF IsWorker
  <2>7. OneEach(v)
    <3>1. \A i, k \in 1..Len(v.queue) : v.queue[i] = v.queue[k] => i = k
      <4> SUFFICES ASSUME NEW i \in 1..Len(rest), NEW k \in 1..Len(rest), rest[i] = rest[k]
                   PROVE  i = k
        BY <2>4
      <4>1. w.queue[i + 1] = w.queue[k + 1] BY <2>2
      <4>2. i + 1 = k + 1 BY <2>3, <4>1 DEF OneEach
      <4> QED BY <2>2, <4>2
    <3>2. \A i \in 1..Len(v.queue) : v.queue[i] \notin v.active
      <4> SUFFICES ASSUME NEW i \in 1..Len(rest) PROVE rest[i] \notin w.active \cup {head}
        BY <2>4
      <4>1. i + 1 \in 1..Len(w.queue) /\ rest[i] = w.queue[i + 1] /\ i + 1 # 1 BY <2>2, <2>3
      <4> QED BY <2>2, <4>1 DEF OneEach
    <3>3. \A k \in 1..Len(v.outbox) : v.outbox[k].job \notin v.active BY <2>2, <2>4 DEF OneEach
    <3>4. \A i \in 1..Len(v.queue), k \in 1..Len(v.outbox) : v.queue[i] # v.outbox[k].job
      BY <2>2, <2>3, <2>4 DEF OneEach
    <3>5. \A i, k \in 1..Len(v.outbox) : v.outbox[i].job = v.outbox[k].job => i = k
      BY <2>4 DEF OneEach
    <3> QED BY <3>1, <3>2, <3>3, <3>4, <3>5 DEF OneEach
  <2>8. InQueue(w) = InQueue(v) \cup {head}
    <3>1. \A i \in 1..Len(w.queue) : i = 1 \/ (i - 1 \in 1..Len(rest) /\ rest[i - 1] = w.queue[i])
      <4> SUFFICES ASSUME NEW i \in 1..Len(w.queue), i # 1
                   PROVE  i - 1 \in 1..Len(rest) /\ rest[i - 1] = w.queue[i]
        OBVIOUS
      <4>1. i - 1 \in 1..Len(rest) /\ (i - 1) + 1 = i BY <1>1, <2>2
      <4> QED BY <2>2, <4>1
    <3>2. InQueue(w) \subseteq InQueue(v) \cup {head} BY <2>2, <2>4, <3>1, SMTT(30), ZenonT(60) DEF InQueue
    <3>3. InQueue(v) \subseteq InQueue(w) BY <2>2, <2>3, <2>4 DEF InQueue
    <3>4. head \in InQueue(w) BY <2>2 DEF InQueue
    <3> QED BY <3>2, <3>3, <3>4
  <2>9. InOutbox(v) = InOutbox(w) BY <2>4 DEF InOutbox
  <2>10. JobsOf(v) = JobsOf(w) BY <2>4, <2>8, <2>9 DEF JobsOf
  <2>11. Cardinality(v.active) <= MaxActive /\ Len(v.queue) <= Len(w.queue)
    BY <1>1, <1>3, <2>2, <2>4, <2>5, WorkerAssumption
  <2> QED BY <2>6, <2>7, <2>10, <2>11
<1> QED BY <1>2, <1>3

Injective(seq) == \A i, k \in 1..Len(seq) : seq[i] = seq[k] => i = k

LEMMA WithoutInjective ==
    ASSUME NEW S, NEW seq \in Seq(S), Injective(seq), NEW out
    PROVE  LET rest == Without(seq, out)
           IN  /\ rest \in Seq(S) /\ Len(rest) <= Len(seq) /\ Injective(rest)
               /\ Elements(rest) = Elements(seq) \ out
<1> DEFINE rest == Without(seq, out)
<1>1. rest \in Seq(S) /\ Remains(rest, seq, out, Len(seq)) /\ Len(seq) \in Nat BY WithoutRemains
<1> HIDE DEF rest
<1>2. Len(rest) \in Nat /\ Len(rest) <= Len(seq) BY <1>1 DEF Remains
<1>3. PICK place \in [1..Len(rest) -> 1..Len(seq)] :
          /\ \A i \in 1..Len(rest) : rest[i] = seq[place[i]] /\ rest[i] \notin out
          /\ \A i, j \in 1..Len(rest) : i < j => place[i] < place[j]
          /\ \A k \in 1..Len(seq) :
                seq[k] \notin out => \E i \in 1..Len(rest) : place[i] = k
  BY <1>1 DEF Remains
<1>4. Injective(rest)
  <2> SUFFICES ASSUME NEW i \in 1..Len(rest), NEW k \in 1..Len(rest), rest[i] = rest[k], i # k
               PROVE  FALSE
    BY DEF Injective
  <2>1. place[i] = place[k] BY <1>3 DEF Injective
  <2>2. i < k \/ k < i BY <1>2
  <2>3. place[i] \in Int /\ place[k] \in Int BY <1>1
  <2> QED BY <1>3, <2>1, <2>2, <2>3
<1>5. Elements(rest) = Elements(seq) \ out
  <2>1. ASSUME NEW x \in Elements(rest) PROVE x \in Elements(seq) \ out
    <3>1. PICK i \in 1..Len(rest) : x = rest[i] BY DEF Elements
    <3>2. place[i] \in 1..Len(seq) /\ x = seq[place[i]] /\ x \notin out BY <1>3, <3>1
    <3> QED BY <3>2 DEF Elements
  <2>2. ASSUME NEW x \in Elements(seq), x \notin out PROVE x \in Elements(rest)
    <3>1. PICK k \in 1..Len(seq) : x = seq[k] BY DEF Elements
    <3>2. PICK i \in 1..Len(rest) : place[i] = k BY <1>3, <2>2, <3>1
    <3>3. x = rest[i] BY <1>3, <3>1, <3>2
    <3> QED BY <3>3 DEF Elements
  <2> QED BY <2>1, <2>2
<1> QED BY <1>1, <1>2, <1>4, <1>5 DEF rest

LEMMA ReverseInjective ==
    ASSUME NEW S, NEW seq \in Seq(S), Injective(seq)
    PROVE  /\ Reverse(seq) \in Seq(S) /\ Injective(Reverse(seq))
           /\ Elements(Reverse(seq)) = Elements(seq)
<1> DEFINE n == Len(seq)
           back == [i \in 1..n |-> seq[(n - i) + 1]]
<1>1. n \in Nat /\ Reverse(seq) = back BY DEF Reverse
<1>2. \A i \in 1..n : (n - i) + 1 \in 1..n /\ (n - ((n - i) + 1)) + 1 = i BY <1>1
<1>3. \A i \in 1..n : seq[i] \in S OBVIOUS
<1>4. back \in Seq(S) /\ Len(back) = n /\ \A i \in 1..n : back[i] = seq[(n - i) + 1]
  BY <1>1, <1>2, <1>3
<1> HIDE DEF back
<1>5. Injective(back)
  <2> SUFFICES ASSUME NEW i \in 1..n, NEW k \in 1..n, back[i] = back[k]
               PROVE  i = k
    BY <1>4 DEF Injective
  <2>1. (n - i) + 1 = (n - k) + 1 BY <1>2, <1>4, SMTT(30), ZenonT(60) DEF Injective
  <2> QED BY <1>1, <2>1
<1>6. Elements(back) = Elements(seq)
  <2>1. \A i \in 1..n : \E k \in 1..n : back[k] = seq[i]
    <3> TAKE i \in 1..n
    <3>1. (n - i) + 1 \in 1..n /\ back[(n - i) + 1] = seq[i] BY <1>2, <1>4
    <3> QED BY <3>1
  <2>2. \A k \in 1..n : \E i \in 1..n : back[k] = seq[i] BY <1>2, <1>4
  <2>3. ASSUME NEW x \in Elements(seq) PROVE x \in Elements(back)
    <3>1. PICK i \in 1..n : x = seq[i] BY DEF Elements
    <3>2. PICK k \in 1..n : back[k] = x BY <2>1, <3>1
    <3>3. k \in 1..Len(back) BY <1>4
    <3> QED BY <3>2, <3>3 DEF Elements
  <2>4. ASSUME NEW x \in Elements(back) PROVE x \in Elements(seq)
    <3>1. PICK k \in 1..Len(back) : x = back[k] BY DEF Elements
    <3>2. PICK i \in 1..n : back[k] = seq[i] BY <1>4, <2>2
    <3> QED BY <3>1, <3>2 DEF Elements
  <2> QED BY <2>3, <2>4
<1> QED BY <1>1, <1>4, <1>5, <1>6

\* Jobs of the queue that are dropped are answered.
LEMMA DiscardQueuedOK ==
    ASSUME NEW w, WorkerOK(w), NEW connection
    PROVE  LET v == DiscardQueued(w, connection)
           IN  WorkerOK(v) /\ JobsOf(v) = JobsOf(w)
<1> DEFINE v == DiscardQueued(w, connection)
           obsolete == {job \in ToSet(w.queue) : job.connection = connection /\ IsObsolete(w, job)}
           rest == Without(w.queue, obsolete)
           doomed == Without(Reverse(w.queue), ToSet(w.queue) \ obsolete)
           told == [i \in 1..Len(doomed) |-> Answer("discarded", doomed[i])]
<1>1. /\ w = [queue |-> w.queue, active |-> w.active, minimumEpoch |-> w.minimumEpoch,
              outbox |-> w.outbox]
      /\ w.queue \in Seq(Jobs) /\ w.outbox \in Seq(Answers) /\ w.active \in SUBSET Jobs
      /\ IsFiniteSet(w.active)
      /\ Len(w.queue) \in Nat /\ Len(w.outbox) \in Nat
  BY DEF WorkerOK, IsWorker
<1>2. v = [w EXCEPT !.queue = rest, !.outbox = w.outbox \o told] BY DEF DiscardQueued
<1>3. ToSet(w.queue) = Elements(w.queue) /\ obsolete \subseteq Elements(w.queue)
  BY <1>1 DEF ToSet, Elements
<1>4. Injective(w.queue) BY DEF Injective, WorkerOK, OneEach
<1>5. /\ rest \in Seq(Jobs) /\ Len(rest) <= Len(w.queue) /\ Injective(rest)
      /\ Elements(rest) = Elements(w.queue) \ obsolete
  BY <1>1, <1>4, WithoutInjective
<1>6. /\ doomed \in Seq(Jobs) /\ Injective(doomed)
      /\ Elements(doomed) = Elements(w.queue) \ (ToSet(w.queue) \ obsolete)
  BY <1>1, <1>4, WithoutInjective, ReverseInjective
<1> HIDE DEF v, obsolete, rest, doomed
<1>7. Elements(doomed) = obsolete BY <1>3, <1>6
<1>8. Len(doomed) \in Nat /\ \A i \in 1..Len(doomed) : doomed[i] \in Jobs BY <1>6
<1>9. /\ told \in Seq(Answers) /\ Len(told) = Len(doomed)
      /\ \A i \in 1..Len(doomed) : told[i].job = doomed[i]
  <2>1. \A i \in 1..Len(doomed) : Answer("discarded", doomed[i]) \in Answers
                                  /\ Answer("discarded", doomed[i]).job = doomed[i]
    BY <1>8 DEF Answer, Answers, AnswerTypes
  <2> QED BY <1>8, <2>1
<1> HIDE DEF told
<1>10. /\ v = [queue |-> rest, active |-> w.active, minimumEpoch |-> w.minimumEpoch,
               outbox |-> w.outbox \o told]
  BY <1>1, <1>2
<1> DEFINE box == w.outbox \o told
<1>11. /\ box \in Seq(Answers) /\ Len(box) = Len(w.outbox) + Len(told)
       /\ \A i \in 1..Len(w.outbox) + Len(told) :
            box[i] = IF i <= Len(w.outbox) THEN w.outbox[i] ELSE told[i - Len(w.outbox)]
  BY <1>1, <1>9, ConcatProperties
<1> HIDE DEF box
<1>12. \A i \in 1..Len(box) :
          \/ i \in 1..Len(w.outbox) /\ box[i] = w.outbox[i]
          \/ /\ i > Len(w.outbox) /\ i - Len(w.outbox) \in 1..Len(doomed)
             /\ box[i].job = doomed[i - Len(w.outbox)]
  <2> TAKE i \in 1..Len(box)
  <2>1. CASE i <= Len(w.outbox) BY <1>1, <1>9, <1>11, <2>1
  <2>2. CASE ~(i <= Len(w.outbox))
    <3>1. i > Len(w.outbox) /\ i - Len(w.outbox) \in 1..Len(doomed) /\ i \in 1..Len(w.outbox) + Len(told)
      BY <1>1, <1>8, <1>9, <1>11, <2>2
    <3> QED BY <1>9, <1>11, <2>2, <3>1
  <2> QED BY <2>1, <2>2
<1>13. {box[i].job : i \in 1..Len(box)} = InOutbox(w) \cup obsolete
  <2>1. \A i \in 1..Len(w.outbox) : i \in 1..Len(box) /\ box[i] = w.outbox[i]
    BY <1>1, <1>8, <1>9, <1>11
  <2>2. \A i \in 1..Len(doomed) : \E k \in 1..Len(box) : box[k].job = doomed[i]
    <3> TAKE i \in 1..Len(doomed)
    <3> DEFINE k == Len(w.outbox) + i
    <3>1. k \in 1..Len(box) /\ k \in 1..Len(w.outbox) + Len(told) /\ ~(k <= Len(w.outbox)) /\ k - Len(w.outbox) = i
      BY <1>1, <1>8, <1>9, <1>11
    <3> HIDE DEF k
    <3>2. box[k] = told[k - Len(w.outbox)] BY <1>11, <3>1
    <3> QED BY <1>9, <3>1, <3>2
  <2>3. \A d \in obsolete : \E i \in 1..Len(doomed) : doomed[i] = d BY <1>7 DEF Elements
  <2>4. \A i \in 1..Len(doomed) : doomed[i] \in obsolete BY <1>7 DEF Elements
  <2>5. InOutbox(w) \cup obsolete \subseteq {box[i].job : i \in 1..Len(box)}
    BY <2>1, <2>2, <2>3 DEF InOutbox
  <2>6. {box[i].job : i \in 1..Len(box)} \subseteq InOutbox(w) \cup obsolete
    BY <1>12, <2>4 DEF InOutbox
  <2> QED BY <2>5, <2>6
<1>14. v.queue = rest /\ v.active = w.active /\ v.outbox = box BY <1>10 DEF box
<1>15. IsWorker(v) BY <1>1, <1>5, <1>10, <1>11, <1>14 DEF IsWorker, box
<1>16. InQueue(v) = InQueue(w) \ obsolete BY <1>5, <1>14 DEF InQueue, Elements
<1>17. InOutbox(v) = InOutbox(w) \cup obsolete BY <1>13, <1>14 DEF InOutbox
<1>18. obsolete \subseteq InQueue(w) BY <1>3 DEF InQueue, Elements
<1>19. JobsOf(v) = JobsOf(w) BY <1>14, <1>16, <1>17, <1>18 DEF JobsOf
<1>20. InQueue(w) \cap w.active = {} /\ InQueue(w) \cap InOutbox(w) = {} /\ InOutbox(w) \cap w.active = {}
  BY DEF WorkerOK, OneEach, InQueue, InOutbox
<1>21. InQueue(v) \cap v.active = {} /\ InQueue(v) \cap InOutbox(v) = {} /\ InOutbox(v) \cap v.active = {}
  BY <1>14, <1>16, <1>17, <1>18, <1>20
<1>22. OneEach(v)
  <2>1. \A i, k \in 1..Len(v.queue) : v.queue[i] = v.queue[k] => i = k BY <1>5, <1>14 DEF Injective
  <2>2. \A i, k \in 1..Len(v.outbox) : v.outbox[i].job = v.outbox[k].job => i = k
    <3> SUFFICES ASSUME NEW i \in 1..Len(box), NEW k \in 1..Len(box), box[i].job = box[k].job
                 PROVE  i = k
      BY <1>14
    <3>1. CASE i \in 1..Len(w.outbox) /\ box[i] = w.outbox[i] /\ k \in 1..Len(w.outbox) /\ box[k] = w.outbox[k]
      BY <3>1 DEF WorkerOK, OneEach
    <3>2. \A j \in 1..Len(doomed) : doomed[j] \in InQueue(w) BY <1>7, <1>18 DEF Elements
    <3>3. \A j \in 1..Len(w.outbox) : w.outbox[j].job \notin InQueue(w) BY <1>20 DEF InOutbox
    <3>4. CASE /\ i - Len(w.outbox) \in 1..Len(doomed) /\ box[i].job = doomed[i - Len(w.outbox)]
               /\ k - Len(w.outbox) \in 1..Len(doomed) /\ box[k].job = doomed[k - Len(w.outbox)]
      <4>1. i - Len(w.outbox) = k - Len(w.outbox) BY <1>6, <3>4 DEF Injective
      <4> QED BY <1>1, <1>8, <1>9, <1>11, <4>1
    <3> QED BY <1>12, <3>1, <3>2, <3>3, <3>4
  <2>3. \A i \in 1..Len(v.queue) : v.queue[i] \notin v.active BY <1>21 DEF InQueue
  <2>4. \A k \in 1..Len(v.outbox) : v.outbox[k].job \notin v.active BY <1>21 DEF InOutbox
  <2>5. \A i \in 1..Len(v.queue), k \in 1..Len(v.outbox) : v.queue[i] # v.outbox[k].job
    BY <1>21 DEF InQueue, InOutbox
  <2> QED BY <2>1, <2>2, <2>3, <2>4, <2>5 DEF OneEach
<1>23. InLimits(v)
  <2>1. Len(rest) \in Nat BY <1>5
  <2> QED BY <1>1, <1>5, <1>14, <2>1, WorkerAssumption DEF WorkerOK, InLimits
<1> QED BY <1>15, <1>19, <1>22, <1>23 DEF WorkerOK, v

LEMMA InvalidateOK ==
    ASSUME NEW w, WorkerOK(w), NEW connection, NEW epoch
    PROVE  LET v == Invalidate(w, connection, epoch)
           IN  WorkerOK(v) /\ JobsOf(v) = JobsOf(w)
<1> DEFINE u == [w EXCEPT !.minimumEpoch[connection] = epoch]
<1>1. /\ w = [queue |-> w.queue, active |-> w.active, minimumEpoch |-> w.minimumEpoch,
              outbox |-> w.outbox]
  BY DEF WorkerOK, IsWorker
<1>2. u = [queue |-> w.queue, active |-> w.active, minimumEpoch |-> u.minimumEpoch,
           outbox |-> w.outbox]
  <2>1. u = [w EXCEPT !.minimumEpoch = [w.minimumEpoch EXCEPT ![connection] = epoch]] OBVIOUS
  <2> QED BY <1>1, <2>1
<1>3. Invalidate(w, connection, epoch) = DiscardQueued(u, connection) BY DEF Invalidate
<1> HIDE DEF u
<1>4. u.queue = w.queue /\ u.active = w.active /\ u.outbox = w.outbox BY <1>2
<1>5. WorkerOK(u) /\ JobsOf(u) = JobsOf(w)
  BY <1>2, <1>4 DEF WorkerOK, IsWorker, OneEach, InLimits, JobsOf, InQueue, InOutbox
<1> QED BY <1>3, <1>5, DiscardQueuedOK

\* A job is refused, or it waits, or it starts.
LEMMA PostDecodeOK ==
    ASSUME NEW w, WorkerOK(w), NEW job \in Jobs, job \notin JobsOf(w)
    PROVE  LET v == PostDecode(w, job)
           IN  WorkerOK(v) /\ JobsOf(v) = JobsOf(w) \cup {job}
<1> DEFINE v == PostDecode(w, job)
           u == [w EXCEPT !.queue = Append(w.queue, job)]
<1>1. IsWorker(w) /\ OneEach(w) /\ InLimits(w) BY DEF WorkerOK
<1>2. CASE Len(w.queue) >= MaxQueuedJobs
  <2>1. v = Post(w, "failed", job) BY <1>2 DEF PostDecode
  <2> QED BY <1>1, <2>1, PostOK DEF WorkerOK, InLimits, AnswerTypes
<1>3. CASE ~(Len(w.queue) >= MaxQueuedJobs) /\ IsObsolete(w, job)
  <2>1. v = Post(w, "discarded", job) BY <1>3 DEF PostDecode
  <2> QED BY <1>1, <2>1, PostOK DEF WorkerOK, InLimits, AnswerTypes
<1>4. CASE ~(Len(w.queue) >= MaxQueuedJobs) /\ ~IsObsolete(w, job)
  <2>1. v = PumpQueue(u) BY <1>4 DEF PostDecode
  <2>2. /\ w = [queue |-> w.queue, active |-> w.active, minimumEpoch |-> w.minimumEpoch,
                outbox |-> w.outbox]
        /\ w.queue \in Seq(Jobs)
    BY <1>1 DEF IsWorker
  <2>3. u = [queue |-> Append(w.queue, job), active |-> w.active,
             minimumEpoch |-> w.minimumEpoch, outbox |-> w.outbox]
    BY <2>2
  <2> HIDE DEF u, v
  <2>4. /\ u.queue \in Seq(Jobs) /\ Len(u.queue) = Len(w.queue) + 1
        /\ u.queue[Len(w.queue) + 1] = job
        /\ \A i \in 1..Len(w.queue) : u.queue[i] = w.queue[i]
        /\ Len(w.queue) \in Nat
    BY <2>2, <2>3, AppendProperties
  <2>5. u.active = w.active /\ u.outbox = w.outbox BY <2>3
  <2>6. IsWorker(u) BY <1>1, <2>3, <2>4, <2>5 DEF IsWorker
  <2>7. \A i \in 1..Len(u.queue) : i = Len(w.queue) + 1 \/ i \in 1..Len(w.queue) BY <2>4
  <2>8. /\ job \notin w.active /\ \A i \in 1..Len(w.queue) : w.queue[i] # job
        /\ \A k \in 1..Len(w.outbox) : w.outbox[k].job # job
    BY DEF JobsOf, InQueue, InOutbox
  <2>9. OneEach(u)
    <3>1. \A i, k \in 1..Len(u.queue) : u.queue[i] = u.queue[k] => i = k
      BY <1>1, <2>4, <2>7, <2>8 DEF OneEach
    <3>2. \A i \in 1..Len(u.queue) : u.queue[i] \notin u.active
      BY <1>1, <2>4, <2>5, <2>7, <2>8 DEF OneEach
    <3>3. \A i \in 1..Len(u.queue), k \in 1..Len(u.outbox) : u.queue[i] # u.outbox[k].job
      BY <1>1, <2>4, <2>5, <2>7, <2>8, SMTT(30), ZenonT(60) DEF OneEach
    <3>4. /\ \A i, k \in 1..Len(u.outbox) : u.outbox[i].job = u.outbox[k].job => i = k
          /\ \A k \in 1..Len(u.outbox) : u.outbox[k].job \notin u.active
      BY <1>1, <2>5 DEF OneEach
    <3> QED BY <3>1, <3>2, <3>3, <3>4 DEF OneEach
  <2>10. InQueue(u) = InQueue(w) \cup {job}
    <3>1. Len(w.queue) + 1 \in 1..Len(u.queue) /\ \A k \in 1..Len(w.queue) : k \in 1..Len(u.queue)
      BY <2>4
    <3> QED BY <2>4, <2>7, <3>1 DEF InQueue
  <2>11. JobsOf(u) = JobsOf(w) \cup {job} BY <2>5, <2>10 DEF JobsOf, InOutbox
  <2>12. /\ IsWorker(v) /\ OneEach(v) /\ JobsOf(v) = JobsOf(u)
         /\ Cardinality(v.active) <= MaxActive /\ Len(v.queue) <= Len(u.queue)
    BY <1>1, <2>1, <2>5, <2>6, <2>9, PumpQueueOK DEF InLimits
  <2>13. Len(v.queue) <= MaxQueuedJobs
    <3>1. Len(v.queue) \in Nat BY <2>12 DEF IsWorker
    <3> QED BY <1>4, <2>4, <2>12, <3>1, WorkerAssumption
  <2>14. WorkerOK(v) /\ JobsOf(v) = JobsOf(w) \cup {job}
    BY <2>11, <2>12, <2>13 DEF WorkerOK, InLimits
  <2> QED BY <2>14 DEF v
<1> QED BY <1>2, <1>3, <1>4

\* A decoding that ends is answered, and the next may start.
LEMMA DecodingEndsOK ==
    ASSUME NEW w, WorkerOK(w), NEW job \in w.active, NEW ok
    PROVE  LET v == DecodingEnds(w, job, ok)
           IN  WorkerOK(v) /\ JobsOf(v) = JobsOf(w)
<1> DEFINE v == DecodingEnds(w, job, ok)
           type == IF ~ok THEN "failed" ELSE IF IsObsolete(w, job) THEN "discarded" ELSE "decoded"
           u == [w EXCEPT !.active = w.active \ {job}]
           p == Post(u, type, job)
<1>1. v = PumpQueue(p) BY DEF DecodingEnds
<1>2. type \in AnswerTypes BY DEF AnswerTypes
<1>3. /\ w = [queue |-> w.queue, active |-> w.active, minimumEpoch |-> w.minimumEpoch,
              outbox |-> w.outbox]
      /\ w.active \in SUBSET Jobs /\ IsFiniteSet(w.active)
      /\ w.queue \in Seq(Jobs) /\ w.outbox \in Seq(Answers)
  BY DEF WorkerOK, IsWorker
<1>4. u = [queue |-> w.queue, active |-> w.active \ {job}, minimumEpoch |-> w.minimumEpoch,
           outbox |-> w.outbox]
  <2>1. /\ w = [queue |-> w.queue, active |-> w.active, minimumEpoch |-> w.minimumEpoch,
                outbox |-> w.outbox]
    BY <1>3
  <2> QED BY <2>1
<1> HIDE DEF type, u
<1>5. u.queue = w.queue /\ u.active = w.active \ {job} /\ u.outbox = w.outbox BY <1>4
<1>6. /\ IsFiniteSet(u.active) /\ Cardinality(u.active) = Cardinality(w.active) - 1
      /\ Cardinality(w.active) \in Nat
  BY <1>3, <1>5, FS_RemoveElement, FS_CardinalityType
<1>7. IsWorker(u) /\ OneEach(u) BY <1>3, <1>4, <1>5, <1>6 DEF IsWorker, OneEach, WorkerOK
<1>8. JobsOf(w) = JobsOf(u) \cup {job} /\ job \notin JobsOf(u)
  BY <1>5 DEF JobsOf, InQueue, InOutbox, WorkerOK, OneEach
<1>9. job \in Jobs BY <1>3
<1>10. /\ IsWorker(p) /\ OneEach(p) /\ JobsOf(p) = JobsOf(w)
       /\ p.queue = u.queue /\ p.active = u.active
  BY <1>2, <1>7, <1>8, <1>9, PostOK
<1> HIDE DEF p
<1>11. Cardinality(p.active) <= MaxActive
  BY <1>5, <1>6, <1>10, WorkerAssumption DEF WorkerOK, InLimits
<1>12. /\ IsWorker(v) /\ OneEach(v) /\ JobsOf(v) = JobsOf(p)
       /\ Cardinality(v.active) <= MaxActive /\ Len(v.queue) <= Len(p.queue)
  BY <1>1, <1>10, <1>11, PumpQueueOK
<1>13. Len(v.queue) <= MaxQueuedJobs
  <2>1. Len(v.queue) \in Nat /\ Len(p.queue) \in Nat BY <1>10, <1>12 DEF IsWorker
  <2>2. Len(p.queue) <= MaxQueuedJobs BY <1>5, <1>10 DEF WorkerOK, InLimits
  <2> QED BY <1>12, <2>1, <2>2, WorkerAssumption
<1>14. WorkerOK(v) /\ JobsOf(v) = JobsOf(w) BY <1>10, <1>12, <1>13 DEF WorkerOK, InLimits
<1> QED BY <1>14

\* The main thread takes an answer.
LEMMA TakeAnswerOK ==
    ASSUME NEW w, WorkerOK(w), Len(w.outbox) > 0
    PROVE  LET v == [w EXCEPT !.outbox = Tail(@)]
           IN  /\ WorkerOK(v) /\ Head(w.outbox) \in Answers
               /\ JobsOf(v) = JobsOf(w) \ {Head(w.outbox).job}
<1> DEFINE head == Head(w.outbox)
           rest == Tail(w.outbox)
           v == [w EXCEPT !.outbox = rest]
<1>1. /\ w = [queue |-> w.queue, active |-> w.active, minimumEpoch |-> w.minimumEpoch,
              outbox |-> w.outbox]
      /\ w.outbox \in Seq(Answers)
  BY DEF WorkerOK, IsWorker
<1>2. v = [queue |-> w.queue, active |-> w.active, minimumEpoch |-> w.minimumEpoch,
           outbox |-> rest]
  BY <1>1, SMTT(30), ZenonT(60)
<1>3. /\ head = w.outbox[1] /\ head \in Answers /\ rest \in Seq(Answers)
      /\ Len(rest) = Len(w.outbox) - 1 /\ \A i \in 1..Len(rest) : rest[i] = w.outbox[i + 1]
      /\ 1 \in 1..Len(w.outbox) /\ Len(rest) \in Nat /\ Len(w.outbox) \in Nat
  BY <1>1
<1> HIDE DEF head, rest
<1>4. \A i \in 1..Len(rest) : i + 1 \in 1..Len(w.outbox) /\ i + 1 # 1 BY <1>3
<1>5. v.queue = w.queue /\ v.active = w.active /\ v.outbox = rest BY <1>2
<1> HIDE DEF v
<1>6. IsWorker(v) BY <1>2, <1>3, <1>5 DEF IsWorker, WorkerOK
<1>7. OneEach(v)
  <2>1. \A i, k \in 1..Len(rest) : rest[i].job = rest[k].job => i = k
    <3> SUFFICES ASSUME NEW i \in 1..Len(rest), NEW k \in 1..Len(rest), rest[i].job = rest[k].job
                 PROVE  i = k
      OBVIOUS
    <3>1. i + 1 = k + 1 BY <1>3, <1>4, SMTT(30), ZenonT(60) DEF WorkerOK, OneEach
    <3> QED BY <1>3, <3>1
  <2>2. \A k \in 1..Len(rest) : rest[k].job \notin w.active BY <1>3, <1>4 DEF WorkerOK, OneEach
  <2>3. \A i \in 1..Len(w.queue), k \in 1..Len(rest) : w.queue[i] # rest[k].job
    BY <1>3, <1>4, SMTT(30), ZenonT(60) DEF WorkerOK, OneEach
  <2> QED BY <1>5, <2>1, <2>2, <2>3 DEF WorkerOK, OneEach
<1>8. InOutbox(v) = InOutbox(w) \ {head.job}
  <2>1. ASSUME NEW x \in InOutbox(v) PROVE x \in InOutbox(w) /\ x # head.job
    <3>1. PICK i \in 1..Len(rest) : x = rest[i].job BY <1>5 DEF InOutbox
    <3>2. i + 1 \in 1..Len(w.outbox) /\ x = w.outbox[i + 1].job /\ i + 1 # 1 BY <1>3, <1>4, <3>1
    <3> QED BY <1>3, <3>2 DEF InOutbox, WorkerOK, OneEach
  <2>2. ASSUME NEW x \in InOutbox(w), x # head.job PROVE x \in InOutbox(v)
    <3>1. PICK i \in 1..Len(w.outbox) : x = w.outbox[i].job BY DEF InOutbox
    <3>2. i # 1 BY <1>3, <2>2, <3>1
    <3>3. i - 1 \in 1..Len(rest) /\ (i - 1) + 1 = i BY <1>3, <3>2
    <3>4. rest[i - 1] = w.outbox[i] BY <1>3, <3>3
    <3> QED BY <1>5, <3>1, <3>3, <3>4 DEF InOutbox
  <2> QED BY <2>1, <2>2
<1>9. head.job \notin InQueue(w) /\ head.job \notin w.active BY <1>3 DEF WorkerOK, OneEach, InQueue
<1>10. JobsOf(v) = JobsOf(w) \ {head.job} BY <1>5, <1>8, <1>9 DEF JobsOf, InQueue
<1>11. InLimits(v) BY <1>5 DEF WorkerOK, InLimits
<1> QED BY <1>3, <1>6, <1>7, <1>10, <1>11 DEF WorkerOK, head, rest, v

\* A sequence without repetition has as many elements as places.
LEMMA InjectiveLength ==
    ASSUME NEW S, NEW seq \in Seq(S), Injective(seq)
    PROVE  IsFiniteSet(Elements(seq)) /\ Cardinality(Elements(seq)) = Len(seq)
<1> DEFINE n == Len(seq)
           f == [i \in 1..n |-> seq[i]]
<1>1. n \in Nat OBVIOUS
<1>2. f \in Bijection(1..n, Elements(seq))
  <2>1. f \in [1..n -> Elements(seq)] BY DEF Elements
  <2>2. \A i, k \in 1..n : f[i] = f[k] => i = k BY DEF Injective
  <2>3. \A x \in Elements(seq) : \E i \in 1..n : f[i] = x BY DEF Elements
  <2> HIDE DEF f, n
  <2> QED BY <2>1, <2>2, <2>3 DEF Bijection, Injection, Surjection, IsInjective
<1>3. ExistsBijection(1..n, Elements(seq)) BY <1>2 DEF ExistsBijection
<1> HIDE DEF f
<1>4. IsFiniteSet(Elements(seq)) BY <1>1, <1>3, FS_NatBijection
<1> QED BY <1>1, <1>3, <1>4, FS_CountingElements

\* Jobs in one place each are as many as the places.
LEMMA JobsCounted ==
    ASSUME NEW w, WorkerOK(w)
    PROVE  Cardinality(JobsOf(w)) = Cardinality(w.active) + Len(w.queue) + Len(w.outbox)
<1> DEFINE box == [k \in 1..Len(w.outbox) |-> w.outbox[k].job]
<1>1. /\ w.queue \in Seq(Jobs) /\ w.outbox \in Seq(Answers) /\ IsFiniteSet(w.active)
      /\ Len(w.outbox) \in Nat /\ Len(w.queue) \in Nat
  BY DEF WorkerOK, IsWorker
<1>2. \A k \in 1..Len(w.outbox) : w.outbox[k].job \in Jobs
  <2>1. \A k \in 1..Len(w.outbox) : w.outbox[k] \in Answers BY <1>1
  <2> QED BY <2>1 DEF Answers
<1>3. box \in Seq(Jobs) /\ Len(box) = Len(w.outbox) BY <1>1, <1>2
<1>4. Injective(box) BY <1>3 DEF Injective, WorkerOK, OneEach
<1>5. Elements(box) = InOutbox(w) BY <1>3 DEF Elements, InOutbox
<1> HIDE DEF box
<1>6. IsFiniteSet(InOutbox(w)) /\ Cardinality(InOutbox(w)) = Len(w.outbox)
  BY <1>3, <1>4, <1>5, InjectiveLength
<1>7. Injective(w.queue) /\ Elements(w.queue) = InQueue(w)
  BY DEF Injective, Elements, InQueue, WorkerOK, OneEach
<1>8. IsFiniteSet(InQueue(w)) /\ Cardinality(InQueue(w)) = Len(w.queue)
  BY <1>1, <1>7, InjectiveLength
<1>9. /\ w.active \cap InQueue(w) = {} /\ (w.active \cup InQueue(w)) \cap InOutbox(w) = {}
  BY DEF WorkerOK, OneEach, InQueue, InOutbox
<1> DEFINE both == w.active \cup InQueue(w)
<1>10. IsFiniteSet(both) /\ Cardinality(both) = Cardinality(w.active) + Len(w.queue)
  <2>1. Cardinality(w.active \cap InQueue(w)) = 0 BY <1>9, FS_EmptySet
  <2>2. Cardinality(w.active) \in Nat BY <1>1, FS_CardinalityType
  <2>3. IsFiniteSet(both) /\ Cardinality(both) = Cardinality(w.active) + Cardinality(InQueue(w))
                                                - Cardinality(w.active \cap InQueue(w))
    BY <1>1, <1>8, FS_Union
  <2> QED BY <1>1, <1>8, <2>1, <2>2, <2>3
<1>11. Cardinality(both \cup InOutbox(w)) = Cardinality(both) + Len(w.outbox)
  <2>1. Cardinality(both \cap InOutbox(w)) = 0 BY <1>9, FS_EmptySet
  <2>2. Cardinality(both) \in Nat BY <1>10, FS_CardinalityType
  <2>3. Cardinality(both \cup InOutbox(w)) = Cardinality(both) + Cardinality(InOutbox(w))
                                                - Cardinality(both \cap InOutbox(w))
    BY <1>6, <1>10, FS_Union
  <2> HIDE DEF both
  <2> QED BY <1>1, <1>6, <2>1, <2>2, <2>3
<1> QED BY <1>10, <1>11 DEF JobsOf

--------------------------------------------------------------------------------
\* What is said of a delivery

\* The confirmations of the deliveries D reach the server.
AckedBy(deliveries, D) ==
    [d \in DOMAIN deliveries |->
        IF d \in D THEN [deliveries[d] EXCEPT !.receipt.acks = @ + 1] ELSE deliveries[d]]

Acked(e, D) == [e EXCEPT !.deliveries = AckedBy(e.deliveries, D)]

\* An entry of the ledger that can be confirmed.
MayConfirm(s, d) ==
    /\ d \in DOMAIN s.ledger.active
    /\ s.ledger.active[d].connection = s.client.connectionId
    /\ d \in DOMAIN s.server.deliveries

\* What the canvas and the worker do not notice.
SameElsewhere(s, r) ==
    /\ IsState(r)
    /\ IsClient(r.client)
    /\ \A f \in StateFields \ {"client", "ledger", "server"} : r[f] = s[f]
    /\ \A f \in ClientFields \ {"phase", "terminal", "releases", "pendingPresentations"} :
            r.client[f] = s.client[f]

\* The n deliveries D are confirmed, if anyone listens.
Confirmed(s, r, D, n) ==
    IF IsOpen(s)
    THEN /\ r.client.releases = s.client.releases + n
         /\ LedgerOK(r.ledger)
         /\ r.ledger.active = Restrict(s.ledger.active, DOMAIN s.ledger.active \ D)
         /\ Elements(r.ledger.released) \subseteq Elements(s.ledger.released) \cup D
         /\ r.server = Acked(s.server, D)
    ELSE /\ r.client.releases = s.client.releases
         /\ r.ledger = s.ledger
         /\ r.server = s.server

LEMMA ReleaseOnceOK ==
    ASSUME NEW l, LedgerOK(l), NEW id \in DOMAIN l.active
    PROVE  LET m == ReleaseOnce(l, id)
           IN  /\ LedgerOK(m)
               /\ m.active = Restrict(l.active, DOMAIN l.active \ {id})
               /\ Elements(m.released) \subseteq Elements(l.released) \cup {id}
<1> DEFINE m == ReleaseOnce(l, id)
           long == Append(l.released, id)
<1>1. /\ l.released \in Seq(Deliveries) /\ id \in Deliveries /\ Len(l.released) \in Nat
      /\ Len(l.released) <= MaxReleasedHistory
      /\ DOMAIN l.active \in SUBSET Deliveries /\ l.active \in [DOMAIN l.active -> Expectation]
  BY DEF LedgerOK
<1>2. /\ long \in Seq(Deliveries) /\ Len(long) = Len(l.released) + 1
      /\ long[Len(l.released) + 1] = id
      /\ \A i \in 1..Len(l.released) : long[i] = l.released[i]
  BY <1>1, AppendProperties
<1>3. m = [active |-> Restrict(l.active, DOMAIN l.active \ {id}),
           released |-> IF Len(long) > MaxReleasedHistory THEN Tail(long) ELSE long]
  BY DEF ReleaseOnce
<1> HIDE DEF long, m
<1>4. \A i \in 1..Len(long) : long[i] \in Elements(l.released) \cup {id} BY <1>1, <1>2 DEF Elements
<1>5. /\ Tail(long) \in Seq(Deliveries) /\ Len(Tail(long)) = Len(long) - 1
      /\ \A i \in 1..Len(Tail(long)) : Tail(long)[i] = long[i + 1] /\ i + 1 \in 1..Len(long)
  BY <1>1, <1>2
<1>6. /\ m.released \in Seq(Deliveries) /\ Len(m.released) <= MaxReleasedHistory
  <2>1. CASE Len(long) > MaxReleasedHistory BY <1>1, <1>2, <1>3, <1>5, <2>1, LedgerAssumption
  <2>2. CASE ~(Len(long) > MaxReleasedHistory) BY <1>1, <1>2, <1>3, <2>2, LedgerAssumption
  <2> QED BY <2>1, <2>2
<1>7. Elements(m.released) \subseteq Elements(l.released) \cup {id}
  <2> SUFFICES ASSUME NEW i \in 1..Len(m.released)
               PROVE  m.released[i] \in Elements(l.released) \cup {id}
    BY DEF Elements
  <2>1. CASE Len(long) > MaxReleasedHistory
    <3>1. m.released = Tail(long) BY <1>3, <2>1
    <3>2. m.released[i] = long[i + 1] /\ i + 1 \in 1..Len(long) BY <1>5, <3>1
    <3> QED BY <1>4, <3>2
  <2>2. CASE ~(Len(long) > MaxReleasedHistory) BY <1>3, <1>4, <2>2
  <2> QED BY <2>1, <2>2
<1>8. m.active = Restrict(l.active, DOMAIN l.active \ {id}) BY <1>3
<1>9. /\ DOMAIN m.active \in SUBSET Deliveries /\ m.active \in [DOMAIN m.active -> Expectation]
  BY <1>1, <1>8 DEF Restrict
<1>10. LedgerOK(m) BY <1>3, <1>6, <1>9 DEF LedgerOK
<1> QED BY <1>7, <1>8, <1>10 DEF m

LEMMA ReleaseSays ==
    ASSUME NEW s, IsState(s), IsClient(s.client), LedgerOK(s.ledger), ServerOK(s.server),
           NEW job,
           IsOpen(s) => job.connection = s.client.connectionId /\ MayConfirm(s, job.delivery)
    PROVE  LET r == Release(s, job)
           IN  /\ SameElsewhere(s, r)
               /\ r.client.phase = s.client.phase /\ r.client.terminal = s.client.terminal
               /\ r.client.pendingPresentations = s.client.pendingPresentations
               /\ Confirmed(s, r, {job.delivery}, 1)
<1> DEFINE r == Release(s, job)
           d == job.delivery
<1>1. CASE ~IsOpen(s)
  <2>1. r = s BY <1>1 DEF Release
  <2> QED BY <1>1, <2>1 DEF SameElsewhere, Confirmed
<1>2. CASE IsOpen(s)
  <2>1. job.connection = s.client.connectionId /\ MayConfirm(s, d) BY <1>2
  <2>2. r = [s EXCEPT
                !.ledger = ReleaseOnce(s.ledger, d),
                !.client.releases = @ + 1,
                !.server.deliveries[d].receipt.acks = @ + 1]
    BY <1>2, <2>1 DEF Release, MayConfirm, IsActive
  <2> DEFINE c == [s.client EXCEPT !.releases = @ + 1]
             e == [s.server EXCEPT !.deliveries[d].receipt.acks = @ + 1]
  <2>3. r = [s EXCEPT !.ledger = ReleaseOnce(s.ledger, d), !.client = c, !.server = e]
    BY <2>2 DEF IsState, StateFields
  <2> HIDE DEF r, c, e
  <2>4. /\ IsState(r) /\ r.ledger = ReleaseOnce(s.ledger, d) /\ r.client = c /\ r.server = e
        /\ \A f \in StateFields \ {"client", "ledger", "server"} : r[f] = s[f]
    BY <2>3 DEF IsState, StateFields
  <2>5. /\ IsClient(c) /\ c.releases = s.client.releases + 1
        /\ \A f \in ClientFields \ {"releases"} : c[f] = s.client[f]
    BY DEF IsClient, ClientFields, c
  <2>6. e = Acked(s.server, {d})
    <3> DEFINE ds == s.server.deliveries
    <3>1. ds = [k \in DOMAIN ds |-> ds[k]] /\ d \in DOMAIN ds BY <2>1 DEF ServerOK, MayConfirm
    <3>2. e = [s.server EXCEPT !.deliveries = [ds EXCEPT ![d] = [ds[d] EXCEPT !.receipt.acks = @ + 1]]]
      BY DEF e
    <3>3. [ds EXCEPT ![d] = [ds[d] EXCEPT !.receipt.acks = @ + 1]] = AckedBy(ds, {d})
      BY <3>1 DEF AckedBy
    <3> QED BY <3>2, <3>3 DEF Acked
  <2>7. /\ LedgerOK(r.ledger)
        /\ r.ledger.active = Restrict(s.ledger.active, DOMAIN s.ledger.active \ {d})
        /\ Elements(r.ledger.released) \subseteq Elements(s.ledger.released) \cup {d}
    <3> DEFINE m == ReleaseOnce(s.ledger, d)
    <3>1. d \in DOMAIN s.ledger.active BY <2>1 DEF MayConfirm
    <3>2. /\ LedgerOK(m)
          /\ m.active = Restrict(s.ledger.active, DOMAIN s.ledger.active \ {d})
          /\ Elements(m.released) \subseteq Elements(s.ledger.released) \cup {d}
      BY <3>1, ReleaseOnceOK
    <3>3. r.ledger = m BY <2>4
    <3> HIDE DEF m
    <3> QED BY <3>2, <3>3
  <2>8. SameElsewhere(s, r) BY <2>4, <2>5 DEF SameElsewhere
  <2>9. /\ r.client.phase = s.client.phase /\ r.client.terminal = s.client.terminal
        /\ r.client.pendingPresentations = s.client.pendingPresentations
        /\ r.client.releases = s.client.releases + 1
    BY <2>4, <2>5 DEF ClientFields
  <2> QED BY <1>2, <2>4, <2>6, <2>7, <2>8, <2>9 DEF Confirmed, r
<1> QED BY <1>1, <1>2

--------------------------------------------------------------------------------
\* The entries of the canvas end

LEMMA AckedOK ==
    ASSUME NEW e, ServerOK(e), NEW D
    PROVE  /\ ServerOK(Acked(e, D)) /\ DOMAIN Acked(e, D).deliveries = DOMAIN e.deliveries
           /\ Len(Acked(e, D).deliveries) = Len(e.deliveries)
           /\ Acked(e, D).stage = e.stage /\ Acked(e, D).epoch = e.epoch
           /\ Acked(e, D).controls = e.controls
           /\ Acked(e, D).deliveries = AckedBy(e.deliveries, D)
<1> DEFINE ds == e.deliveries
           as == AckedBy(ds, D)
<1>1. /\ e = [stage |-> e.stage, epoch |-> e.epoch, controls |-> e.controls, deliveries |-> ds]
      /\ ds \in Seq(Sent)
  BY DEF ServerOK
<1>2. Acked(e, D) = [stage |-> e.stage, epoch |-> e.epoch, controls |-> e.controls,
                     deliveries |-> as]
  BY <1>1 DEF Acked
<1>3. Len(ds) \in Nat /\ DOMAIN ds = 1..Len(ds) /\ ds \in [1..Len(ds) -> Sent] BY <1>1
<1>4. \A d \in 1..Len(ds) : as[d] \in Sent
  <2> SUFFICES ASSUME NEW d \in 1..Len(ds) PROVE as[d] \in Sent
    OBVIOUS
  <2>1. ds[d] \in Sent BY <1>3
  <2>2. [ds[d] EXCEPT !.receipt.acks = @ + 1] \in Sent BY <2>1 DEF Sent, Counts
  <2> QED BY <1>3, <2>1, <2>2 DEF AckedBy
<1>5. DOMAIN as = 1..Len(ds) BY <1>3 DEF AckedBy
<1>6. as \in [1..Len(ds) -> Sent] BY <1>4, <1>5 DEF AckedBy
<1>7. as \in Seq(Sent) /\ Len(as) = Len(ds) BY <1>3, <1>5, <1>6
<1> HIDE DEF as
<1> QED BY <1>2, <1>3, <1>5, <1>7 DEF ServerOK, as

LEMMA AckedTwice ==
    ASSUME NEW e, ServerOK(e), NEW D, NEW d, d \notin D
    PROVE  Acked(Acked(e, D), {d}) = Acked(e, D \cup {d})
<1>1. e = [stage |-> e.stage, epoch |-> e.epoch, controls |-> e.controls,
           deliveries |-> e.deliveries]
  BY DEF ServerOK
<1>2. AckedBy(AckedBy(e.deliveries, D), {d}) = AckedBy(e.deliveries, D \cup {d}) BY DEF AckedBy
<1> DEFINE q == Acked(e, D)
<1>3. /\ q.deliveries = AckedBy(e.deliveries, D)
      /\ q.stage = e.stage /\ q.epoch = e.epoch /\ q.controls = e.controls
      /\ q = [stage |-> q.stage, epoch |-> q.epoch, controls |-> q.controls,
              deliveries |-> q.deliveries]
  BY AckedOK DEF ServerOK
<1>4. Acked(e, D \cup {d}) =
        [stage |-> e.stage, epoch |-> e.epoch, controls |-> e.controls,
         deliveries |-> AckedBy(e.deliveries, D \cup {d})]
  BY <1>1 DEF Acked
<1> HIDE DEF q
<1>5. Acked(q, {d}) =
        [stage |-> q.stage, epoch |-> q.epoch, controls |-> q.controls,
         deliveries |-> AckedBy(q.deliveries, {d})]
  BY <1>3 DEF Acked
<1> QED BY <1>2, <1>3, <1>4, <1>5 DEF q

LEMMA NothingElseSame ==
    ASSUME NEW s, NEW q, NEW r, SameElsewhere(s, q), SameElsewhere(q, r)
    PROVE  SameElsewhere(s, r)
BY DEF SameElsewhere

\* Confirmations add up.
LEMMA ConfirmedAgain ==
    ASSUME NEW s, NEW q, NEW r, SameElsewhere(s, q), ServerOK(s.server), s.client.releases \in Nat,
           NEW D, NEW d, d \notin D, NEW n \in Nat,
           Confirmed(s, q, D, n), Confirmed(q, r, {d}, 1)
    PROVE  Confirmed(s, r, D \cup {d}, n + 1)
<1>1. IsOpen(q) <=> IsOpen(s) BY DEF SameElsewhere, IsOpen, StateFields, ClientFields
<1>2. CASE ~IsOpen(s) BY <1>1, <1>2 DEF Confirmed
<1>3. CASE IsOpen(s)
  <2>1. /\ q.client.releases = s.client.releases + n
        /\ r.client.releases = q.client.releases + 1
        /\ LedgerOK(r.ledger)
        /\ q.ledger.active = Restrict(s.ledger.active, DOMAIN s.ledger.active \ D)
        /\ r.ledger.active = Restrict(q.ledger.active, DOMAIN q.ledger.active \ {d})
        /\ Elements(q.ledger.released) \subseteq Elements(s.ledger.released) \cup D
        /\ Elements(r.ledger.released) \subseteq Elements(q.ledger.released) \cup {d}
        /\ q.server = Acked(s.server, D)
        /\ r.server = Acked(q.server, {d})
    BY <1>1, <1>3 DEF Confirmed
  <2>2. r.server = Acked(s.server, D \cup {d}) BY <2>1, AckedTwice
  <2>3. r.ledger.active = Restrict(s.ledger.active, DOMAIN s.ledger.active \ (D \cup {d}))
    BY <2>1 DEF Restrict
  <2>4. r.client.releases = s.client.releases + (n + 1) BY <2>1
  <2>5. Elements(r.ledger.released) \subseteq Elements(s.ledger.released) \cup (D \cup {d}) BY <2>1
  <2> QED BY <1>3, <2>1, <2>2, <2>3, <2>4, <2>5 DEF Confirmed
<1> QED BY <1>2, <1>3

LEMMA UpdateCompletionPhaseSays ==
    ASSUME NEW s, IsState(s), IsClient(s.client), s.client.phase \in Phases,
           s.client.pendingPresentations \in Nat
    PROVE  LET r == UpdateCompletionPhase(s)
           IN  /\ IsState(r) /\ IsClient(r.client)
               /\ \A f \in StateFields \ {"client"} : r[f] = s[f]
               /\ \A f \in ClientFields \ {"phase"} : r.client[f] = s.client[f]
               /\ r.client.phase \in Phases
               /\ Settled(r)
<1> DEFINE c == s.client
           otherwise == IF c.error # "none" THEN "observing" ELSE c.phase
           next == IF c.error # "none" /\ c.manifest = NoImage
                   THEN IF c.welcome THEN "ready" ELSE "error"
                   ELSE TransferPhase(c, otherwise)
           r == UpdateCompletionPhase(s)
<1>1. r = [s EXCEPT !.client.phase = next] BY DEF UpdateCompletionPhase
<1>2. next \in Phases /\ (next = "observing" => DOMAIN c.pending = {} /\ c.pendingPresentations = 0)
  BY DEF TransferPhase, Phases
<1> HIDE DEF next, r
<1>3. /\ IsState(r) /\ r.client = [c EXCEPT !.phase = next]
      /\ \A f \in StateFields \ {"client"} : r[f] = s[f]
  BY <1>1 DEF IsState, StateFields
<1>4. /\ IsClient(r.client) /\ r.client.phase = next
      /\ \A f \in ClientFields \ {"phase"} : r.client[f] = s.client[f]
  BY <1>3 DEF IsClient, ClientFields
<1>5. r.client.pending = c.pending /\ r.client.pendingPresentations = c.pendingPresentations
  BY <1>4 DEF ClientFields
<1>6. Settled(r) BY <1>2, <1>4, <1>5 DEF Settled, Pending
<1> QED BY <1>2, <1>3, <1>4, <1>6 DEF r

DeliveriesOf(s, U) == {s.canvas.entries[t].job.delivery : t \in U}

\* What the end of the presentations of the tiles U changes.
Ended(s, r, U) ==
    /\ SameElsewhere(s, r)
    /\ r.client.phase \in Phases
    /\ U = {} => r = s
    /\ U # {} => Settled(r)
    /\ r.client.terminal = s.client.terminal + Cardinality(U)
    /\ r.client.pendingPresentations = s.client.pendingPresentations - Cardinality(U)
    /\ Confirmed(s, r, DeliveriesOf(s, U), Cardinality(U))

\* The presentations of the tiles U can end.
MayEnd(s, U) ==
    /\ IsState(s) /\ IsClient(s.client) /\ LedgerOK(s.ledger) /\ ServerOK(s.server)
    /\ s.client.phase \in Phases
    /\ s.client.terminal \in Nat /\ s.client.releases \in Nat
    /\ s.client.pendingPresentations \in Nat
    /\ IsFiniteSet(U) /\ Cardinality(U) <= s.client.pendingPresentations
    /\ IsOpen(s) =>
        /\ \A t \in U : /\ s.canvas.entries[t].job.connection = s.client.connectionId
                        /\ MayConfirm(s, s.canvas.entries[t].job.delivery)
        /\ \A t, u \in U :
            s.canvas.entries[t].job.delivery = s.canvas.entries[u].job.delivery => t = u

LEMMA PresentationEndsSays ==
    ASSUME NEW s, NEW U, MayEnd(s, U), NEW x \in U, NEW r, Ended(s, r, U \ {x})
    PROVE  Ended(s, PresentationEnds(r, s.canvas.entries[x].job), U)
<1> DEFINE job == s.canvas.entries[x].job
           d == job.delivery
           V == U \ {x}
           n == Cardinality(V)
           q == [r EXCEPT !.client.pendingPresentations = AtLeastZero(@, 1)]
           p == [q EXCEPT !.client.terminal = @ + 1]
           w == Release(p, job)
           z == UpdateCompletionPhase(w)
<1>1. PresentationEnds(r, job) = z BY DEF PresentationEnds, Discard
<1>2. IsFiniteSet(V) /\ n \in Nat /\ Cardinality(U) = n + 1 /\ U # {}
  BY FS_RemoveElement, FS_CardinalityType, FS_Subset DEF MayEnd
<1>3. /\ IsState(r) /\ IsClient(r.client) /\ SameElsewhere(s, r)
      /\ r.client.phase \in Phases
      /\ r.client.terminal = s.client.terminal + n
      /\ r.client.pendingPresentations = s.client.pendingPresentations - n
      /\ Confirmed(s, r, DeliveriesOf(s, V), n)
  BY DEF Ended, SameElsewhere
<1>4. /\ s.client.terminal \in Nat /\ s.client.pendingPresentations \in Nat
      /\ s.client.releases \in Nat /\ ServerOK(s.server) /\ LedgerOK(s.ledger)
      /\ n + 1 <= s.client.pendingPresentations
  BY <1>2 DEF MayEnd
<1>5. /\ r.client.terminal \in Nat /\ r.client.pendingPresentations \in Nat
      /\ r.client.pendingPresentations >= 1
      /\ AtLeastZero(r.client.pendingPresentations, 1) = r.client.pendingPresentations - 1
  BY <1>2, <1>3, <1>4 DEF AtLeastZero
<1> HIDE DEF n
<1> DEFINE c == [r.client EXCEPT !.pendingPresentations = r.client.pendingPresentations - 1,
                                 !.terminal = r.client.terminal + 1]
<1>6. p = [r EXCEPT !.client = c]
  <2>1. q = [r EXCEPT !.client = [r.client EXCEPT !.pendingPresentations = r.client.pendingPresentations - 1]]
    BY <1>5
  <2>2. r = [f \in StateFields |-> r[f]] /\ r.client = [f \in ClientFields |-> r.client[f]]
    BY <1>3 DEF IsState, IsClient
  <2> QED BY <2>1, <2>2 DEF StateFields, ClientFields
<1> HIDE DEF q, p, c
<1>7. /\ IsState(p) /\ p.client = c
      /\ \A f \in StateFields \ {"client"} : p[f] = r[f]
  BY <1>3, <1>6 DEF IsState, StateFields
<1>8. /\ IsClient(c)
      /\ \A f \in ClientFields \ {"pendingPresentations", "terminal"} : c[f] = r.client[f]
      /\ c.pendingPresentations = r.client.pendingPresentations - 1
      /\ c.terminal = r.client.terminal + 1
  BY <1>3 DEF IsClient, ClientFields, c
<1>9. SameElsewhere(r, p) BY <1>7, <1>8 DEF SameElsewhere
<1>10. SameElsewhere(s, p) BY <1>3, <1>9, NothingElseSame
<1>11. /\ p.ledger = r.ledger /\ p.server = r.server /\ p.client.releases = r.client.releases
       /\ p.client.phase = r.client.phase
  BY <1>7, <1>8 DEF StateFields, ClientFields
<1>12. IsOpen(p) <=> IsOpen(s) BY <1>10 DEF SameElsewhere, IsOpen, StateFields, ClientFields
<1>13. LedgerOK(p.ledger) /\ ServerOK(p.server)
  <2>1. CASE IsOpen(s) BY <1>3, <1>4, <1>11, <2>1, AckedOK DEF Confirmed
  <2>2. CASE ~IsOpen(s) BY <1>3, <1>4, <1>11, <2>2 DEF Confirmed
  <2> QED BY <2>1, <2>2
<1>14. Confirmed(s, p, DeliveriesOf(s, V), n) BY <1>3, <1>11 DEF Confirmed
<1>15. IsOpen(s) => d \notin DeliveriesOf(s, V) BY DEF MayEnd, DeliveriesOf
<1>16. IsOpen(p) => job.connection = p.client.connectionId /\ MayConfirm(p, d)
  <2> SUFFICES ASSUME IsOpen(s)
               PROVE  job.connection = p.client.connectionId /\ MayConfirm(p, d)
    BY <1>12
  <2>1. job.connection = s.client.connectionId /\ MayConfirm(s, d) BY DEF MayEnd
  <2>2. p.client.connectionId = s.client.connectionId BY <1>10 DEF SameElsewhere, ClientFields
  <2>3. p.ledger.active = Restrict(s.ledger.active, DOMAIN s.ledger.active \ DeliveriesOf(s, V))
        /\ p.server = Acked(s.server, DeliveriesOf(s, V))
    BY <1>14 DEF Confirmed
  <2>4. d \in DOMAIN p.ledger.active /\ p.ledger.active[d] = s.ledger.active[d]
    BY <1>15, <2>1, <2>3 DEF MayConfirm, Restrict
  <2>5. d \in DOMAIN p.server.deliveries
    <3> DEFINE D == DeliveriesOf(s, V)
    <3>1. ServerOK(s.server) /\ p.server = Acked(s.server, D) BY <1>4, <2>3
    <3>2. d \in DOMAIN s.server.deliveries BY <2>1 DEF MayConfirm
    <3> HIDE DEF D
    <3>3. DOMAIN Acked(s.server, D).deliveries = DOMAIN s.server.deliveries BY <3>1, AckedOK
    <3> QED BY <3>1, <3>2, <3>3
  <2> QED BY <2>1, <2>2, <2>4, <2>5 DEF MayConfirm
<1>17. /\ SameElsewhere(p, w)
       /\ w.client.phase = p.client.phase /\ w.client.terminal = p.client.terminal
       /\ w.client.pendingPresentations = p.client.pendingPresentations
       /\ Confirmed(p, w, {d}, 1)
  BY <1>7, <1>8, <1>13, <1>16, ReleaseSays
<1> HIDE DEF w
<1>18. SameElsewhere(s, w) BY <1>10, <1>17, NothingElseSame
<1>19. Confirmed(s, w, DeliveriesOf(s, V) \cup {d}, n + 1)
  <2>1. CASE IsOpen(s) BY <1>2, <1>4, <1>10, <1>14, <1>15, <1>17, <2>1, ConfirmedAgain
  <2>2. CASE ~IsOpen(s) BY <1>12, <1>14, <1>17, <2>2 DEF Confirmed
  <2> QED BY <2>1, <2>2
<1>20. /\ IsState(w) /\ IsClient(w.client) /\ w.client.phase \in Phases
       /\ w.client.terminal = s.client.terminal + (n + 1)
       /\ w.client.pendingPresentations = s.client.pendingPresentations - (n + 1)
       /\ w.client.pendingPresentations \in Nat
  BY <1>2, <1>3, <1>4, <1>5, <1>7, <1>8, <1>11, <1>17, <1>18 DEF SameElsewhere
<1>21. /\ IsState(z) /\ IsClient(z.client)
       /\ \A f \in StateFields \ {"client"} : z[f] = w[f]
       /\ \A f \in ClientFields \ {"phase"} : z.client[f] = w.client[f]
       /\ z.client.phase \in Phases
       /\ Settled(z)
  BY <1>20, UpdateCompletionPhaseSays
<1> HIDE DEF z
<1>22. SameElsewhere(w, z) BY <1>21 DEF SameElsewhere
<1>23. SameElsewhere(s, z) BY <1>18, <1>22, NothingElseSame
<1>24. /\ z.client.terminal = w.client.terminal
       /\ z.client.pendingPresentations = w.client.pendingPresentations
       /\ z.client.releases = w.client.releases
       /\ z.ledger = w.ledger /\ z.server = w.server
  BY <1>21 DEF StateFields, ClientFields
<1>25. DeliveriesOf(s, U) = DeliveriesOf(s, V) \cup {d} BY DEF DeliveriesOf
<1>26. Confirmed(s, z, DeliveriesOf(s, U), n + 1) BY <1>19, <1>24, <1>25 DEF Confirmed
<1>27. Ended(s, z, U) BY <1>2, <1>20, <1>21, <1>23, <1>24, <1>26 DEF Ended
<1> QED BY <1>1, <1>27

LEMMA NothingEnded ==
    ASSUME NEW s, MayEnd(s, {})
    PROVE  Ended(s, s, {})
<1>1. Cardinality({}) = 0 BY FS_EmptySet
<1>2. SameElsewhere(s, s) BY DEF SameElsewhere, MayEnd
<1>3. Confirmed(s, s, {}, 0)
  <2>1. CASE ~IsOpen(s) BY <2>1 DEF Confirmed
  <2>2. CASE IsOpen(s)
    <3>1. s.ledger.active = Restrict(s.ledger.active, DOMAIN s.ledger.active \ {})
      BY DEF MayEnd, LedgerOK, Restrict
    <3>2. s.server.deliveries = AckedBy(s.server.deliveries, {}) BY DEF MayEnd, ServerOK, AckedBy
    <3>3. s.server = Acked(s.server, {}) BY <3>2 DEF MayEnd, ServerOK, Acked
    <3> QED BY <2>2, <3>1, <3>3 DEF Confirmed, MayEnd
  <2> QED BY <2>1, <2>2
<1>4. DeliveriesOf(s, {}) = {} BY DEF DeliveriesOf
<1> QED BY <1>1, <1>2, <1>3, <1>4 DEF Ended, MayEnd

LEMMA EndPresentationsSays ==
    ASSUME NEW s, NEW T, MayEnd(s, Unpresented(s.canvas, T))
    PROVE  Ended(s, EndPresentations(s, T), Unpresented(s.canvas, T))
<1> DEFINE S == Unpresented(s.canvas, T)
<1>1. IsFiniteSet(S) BY DEF MayEnd
<1>2. PICK f : IsEnding(f, s, SUBSET S) /\ EndPresentations(s, T) = f[S] BY <1>1, IsEndingUnfolds
<1> HIDE DEF S
<1> DEFINE Good == {U \in SUBSET S : Ended(s, f[U], U)}
<1>3. \A U \in SUBSET S : MayEnd(s, U)
  <2> SUFFICES ASSUME NEW U \in SUBSET S PROVE MayEnd(s, U)
    OBVIOUS
  <2>1. IsFiniteSet(U) /\ Cardinality(U) <= Cardinality(S) BY <1>1, FS_Subset
  <2>2. Cardinality(U) \in Nat /\ Cardinality(S) \in Nat BY <1>1, <2>1, FS_CardinalityType
  <2>3. MayEnd(s, S) BY DEF S
  <2> QED BY <2>1, <2>2, <2>3 DEF MayEnd
<1>4. ASSUME NEW U \in SUBSET S, \A x \in U : U \ {x} \in Good
      PROVE  U \in Good
  <2>1. CASE U = {}
    <3>1. f[U] = s BY <1>2, <2>1 DEF IsEnding
    <3> QED BY <1>3, <2>1, <3>1, NothingEnded
  <2>2. CASE U # {}
    <3> DEFINE x == Picked(U)
    <3>1. x \in U BY <2>2 DEF Picked
    <3>2. f[U] = PresentationEnds(f[U \ {x}], s.canvas.entries[x].job) BY <1>2, <2>2 DEF IsEnding
    <3> HIDE DEF x
    <3>3. Ended(s, f[U \ {x}], U \ {x}) BY <1>4, <3>1
    <3>4. MayEnd(s, U) BY <1>3
    <3> QED BY <3>1, <3>2, <3>3, <3>4, PresentationEndsSays
  <2> QED BY <2>1, <2>2
<1>5. S \in Good
  <2> HIDE DEF Good
  <2> QED BY <1>1, <1>4, SubsetInduction, SMTT(30), ZenonT(60)
<1> QED BY <1>2, <1>5 DEF Good, S

--------------------------------------------------------------------------------
\* The canvas changes: the undrawn tiles U end, and the jobs X come

\* The canvas v of s without the presentations of U, and with those of X.
Redrawn(s, v, U, X) ==
    /\ CanvasOK(v)
    /\ v.manifest \in {NoImage, s.canvas.manifest}
    /\ \A t \in DOMAIN v.entries :
        \/ t \in DOMAIN s.canvas.entries /\ v.entries[t].job = s.canvas.entries[t].job
        \/ \E x \in X : t = x.tile /\ v.entries[t].job = x
    /\ Unpresented(v, Tiles) = (UndrawnTiles(s) \ U) \cup {x.tile : x \in X}
    /\ \A x \in X : x.tile \notin UndrawnTiles(s) \ U /\ v.entries[x.tile].job = x
    /\ \A t \in UndrawnTiles(s) \ U : v.entries[t].job = s.canvas.entries[t].job
    /\ Unpresented(v, Tiles) # {} => v.frame

\* The record z follows from s: U ended in r after n presentations were counted.
Changed(s, r, z, v, U, n) ==
    /\ IsState(z)
    /\ z.client = r.client /\ z.ledger = r.ledger /\ z.server = r.server
    /\ z.canvas = v /\ z.worker = s.worker /\ z.sockets = s.sockets
    /\ IsClient(r.client) /\ r.client.phase \in Phases
    /\ \A f \in ClientFields \ {"phase", "terminal", "releases", "pendingPresentations"} :
            r.client[f] = s.client[f]
    /\ r.client.terminal = s.client.terminal + Cardinality(U)
    /\ r.client.pendingPresentations = (s.client.pendingPresentations + n) - Cardinality(U)
    /\ Confirmed(s, r, DeliveriesOf(s, U), Cardinality(U))
    /\ U = {} => r.client.releases = s.client.releases /\ r.ledger = s.ledger /\ r.server = s.server

LEMMA ChangedFields ==
    ASSUME NEW s, NEW r, NEW z, NEW v, NEW U, NEW n, Changed(s, r, z, v, U, n)
    PROVE  /\ z.client.connectionId = s.client.connectionId /\ z.client.epoch = s.client.epoch
           /\ z.client.selected = s.client.selected /\ z.client.manifest = s.client.manifest
           /\ z.client.manifestHistory = s.client.manifestHistory
           /\ z.client.plan = s.client.plan /\ z.client.welcome = s.client.welcome
           /\ z.client.viewport = s.client.viewport /\ z.client.pending = s.client.pending
           /\ z.client.error = s.client.error /\ z.client.received = s.client.received
           /\ IsOpen(z) = IsOpen(s) /\ IsLive(z) = IsLive(s) /\ Pending(z) = Pending(s)
<1>1. \A f \in ClientFields \ {"phase", "terminal", "releases", "pendingPresentations"} :
            z.client[f] = s.client[f]
  BY DEF Changed
<1>2. z.client.connectionId = s.client.connectionId /\ z.sockets = s.sockets
      /\ z.client.pending = s.client.pending
  BY <1>1 DEF ClientFields, Changed
<1>3. IsOpen(z) = IsOpen(s) /\ IsLive(z) = IsLive(s) /\ Pending(z) = Pending(s)
  BY <1>2 DEF IsOpen, IsLive, Pending
<1> QED BY <1>1, <1>3 DEF ClientFields

LEMMA ChangedServer ==
    ASSUME NEW s, ServerOK(s.server), LedgerOK(s.ledger), NEW r, NEW z, NEW v, NEW U, NEW n,
           Changed(s, r, z, v, U, n)
    PROVE  /\ ServerOK(z.server) /\ LedgerOK(z.ledger)
           /\ DOMAIN z.server.deliveries = DOMAIN s.server.deliveries
           /\ Len(z.server.deliveries) = Len(s.server.deliveries)
           /\ z.server.controls = s.server.controls /\ z.server.epoch = s.server.epoch
           /\ z.server.stage = s.server.stage
           /\ AsksOf(z.server.deliveries) = AsksOf(s.server.deliveries)
           /\ \A d \in DOMAIN s.server.deliveries :
                z.server.deliveries[d].epoch = s.server.deliveries[d].epoch
<1> DEFINE D == DeliveriesOf(s, U)
<1>1. CASE ~IsOpen(s) BY <1>1 DEF Changed, Confirmed
<1>2. CASE IsOpen(s)
  <2>1. z.server = Acked(s.server, D) /\ LedgerOK(z.ledger) BY <1>2 DEF Changed, Confirmed
  <2> HIDE DEF D
  <2>2. /\ ServerOK(z.server) /\ DOMAIN z.server.deliveries = DOMAIN s.server.deliveries
        /\ Len(z.server.deliveries) = Len(s.server.deliveries)
        /\ z.server.controls = s.server.controls /\ z.server.epoch = s.server.epoch
        /\ z.server.stage = s.server.stage
        /\ z.server.deliveries = AckedBy(s.server.deliveries, D)
    BY <2>1, AckedOK
  <2>3. \A d \in DOMAIN s.server.deliveries :
            /\ z.server.deliveries[d].epoch = s.server.deliveries[d].epoch
            /\ z.server.deliveries[d].receipt.asks = s.server.deliveries[d].receipt.asks
    <3> SUFFICES ASSUME NEW d \in DOMAIN s.server.deliveries
                 PROVE  /\ z.server.deliveries[d].epoch = s.server.deliveries[d].epoch
                        /\ z.server.deliveries[d].receipt.asks = s.server.deliveries[d].receipt.asks
      OBVIOUS
    <3>1. s.server.deliveries[d] \in Sent BY DEF ServerOK
    <3>2. z.server.deliveries[d] = IF d \in D
                                   THEN [s.server.deliveries[d] EXCEPT !.receipt.acks = @ + 1]
                                   ELSE s.server.deliveries[d]
      BY <2>2 DEF AckedBy
    <3> QED BY <3>1, <3>2 DEF Sent, Counts
  <2>4. AsksOf(z.server.deliveries) = AsksOf(s.server.deliveries) BY <2>2, <2>3 DEF AsksOf
  <2> QED BY <2>1, <2>2, <2>3, <2>4
<1> QED BY <1>1, <1>2

Recounted(s, z, U, X) ==
    Cardinality(UndrawnTiles(z)) = (Cardinality(UndrawnTiles(s)) + Cardinality(X)) - Cardinality(U)

LEMMA ChangedHeld ==
    ASSUME NEW s, NEW J, Typed(s), Placed(s, J), NEW r, NEW z, NEW v,
           NEW U \in SUBSET UndrawnTiles(s), NEW X \in SUBSET J,
           Changed(s, r, z, v, U, Cardinality(X)), Redrawn(s, v, U, X)
    PROVE  /\ UndrawnJobs(z) = (UndrawnJobs(s) \ {s.canvas.entries[t].job : t \in U}) \cup X
           /\ Held(z, J \ X) = Held(s, J) \ {s.canvas.entries[t].job : t \in U}
           /\ Recounted(s, z, U, X)
<1> DEFINE gone == {s.canvas.entries[t].job : t \in U}
           e == s.canvas.entries
<1>1. z.canvas = v /\ Pending(z) = Pending(s) BY ChangedFields DEF Changed
<1>2. UndrawnTiles(z) = (UndrawnTiles(s) \ U) \cup {x.tile : x \in X}
  BY <1>1 DEF UndrawnTiles, Redrawn
<1>3. /\ \A t \in UndrawnTiles(s) : t \in DOMAIN e /\ e[t].job.tile = t
      /\ U \subseteq UndrawnTiles(s)
  BY DEF UndrawnTiles, Unpresented, Placed
<1>4. UndrawnJobs(s) \ gone = {e[t].job : t \in UndrawnTiles(s) \ U}
  <2>1. \A j \in UndrawnJobs(s) \ gone : \E t \in UndrawnTiles(s) \ U : j = e[t].job
    BY DEF UndrawnJobs
  <2>2. \A t \in UndrawnTiles(s) \ U : e[t].job \in UndrawnJobs(s) /\ e[t].job \notin gone
    <3> SUFFICES ASSUME NEW t \in UndrawnTiles(s) \ U, NEW u \in U, e[t].job = e[u].job
                 PROVE  FALSE
      BY DEF UndrawnJobs
    <3> QED BY <1>3
  <2> QED BY <2>1, <2>2
<1>5. UndrawnJobs(z) = (UndrawnJobs(s) \ gone) \cup X
  <2>1. \A t \in UndrawnTiles(s) \ U : v.entries[t].job = e[t].job BY DEF Redrawn
  <2>2. \A x \in X : v.entries[x.tile].job = x BY DEF Redrawn
  <2>3. UndrawnJobs(z) = {v.entries[t].job : t \in UndrawnTiles(z)} BY <1>1 DEF UndrawnJobs
  <2>4. {v.entries[t].job : t \in UndrawnTiles(z)} \subseteq {e[t].job : t \in UndrawnTiles(s) \ U} \cup X
    BY <1>2, <2>1, <2>2
  <2>5. \A t \in UndrawnTiles(s) \ U : e[t].job \in {v.entries[u].job : u \in UndrawnTiles(z)}
    BY <1>2, <2>1
  <2>6. \A x \in X : x.tile \in UndrawnTiles(z) /\ v.entries[x.tile].job = x BY <1>2, <2>2
  <2>7. \A x \in X : x \in {v.entries[u].job : u \in UndrawnTiles(z)} BY <2>6
  <2> QED BY <1>4, <2>3, <2>4, <2>5, <2>7
<1>6. gone \subseteq UndrawnJobs(s) BY <1>3 DEF UndrawnJobs
<1>7. Held(z, J \ X) = Held(s, J) \ gone
  <2> HIDE DEF gone
  <2>1. gone \cap (Pending(s) \cup J) = {} BY <1>6 DEF Placed
  <2> QED BY <1>1, <1>5, <2>1 DEF Held
<1>8. /\ IsFiniteSet(UndrawnTiles(s)) /\ IsFiniteSet(U) /\ IsFiniteSet(X)
      /\ IsFiniteSet(UndrawnTiles(s) \ U)
  <2>1. UndrawnTiles(s) \subseteq DOMAIN e /\ IsFiniteSet(DOMAIN e)
    BY DEF UndrawnTiles, Unpresented, Typed, CanvasOK
  <2>2. IsFiniteSet(UndrawnTiles(s)) BY <2>1, FS_Subset
  <2>3. IsFiniteSet(X) BY FS_Subset DEF Placed
  <2> QED BY <1>3, <2>2, <2>3, FS_Subset
<1>9. Cardinality(UndrawnTiles(s) \ U) = Cardinality(UndrawnTiles(s)) - Cardinality(U)
  <2>1. UndrawnTiles(s) \cap U = U BY <1>3
  <2> QED BY <1>8, <2>1, FS_Difference
<1>10. IsFiniteSet({x.tile : x \in X}) /\ Cardinality({x.tile : x \in X}) = Cardinality(X)
  <2>1. \A x, y \in X : x.tile = y.tile => x = y BY DEF Redrawn
  <2> DEFINE f == [x \in X |-> x.tile]
             B == {x.tile : x \in X}
  <2>2. f \in [X -> B] /\ (\A y \in B : \E x \in X : f[x] = y) OBVIOUS
  <2>3. \A x, y \in X : f[x] = f[y] => x = y BY <2>1
  <2>4. f \in Bijection(X, B) BY <2>2, <2>3 DEF Bijection, Injection, Surjection, IsInjective
  <2> HIDE DEF f, B
  <2>5. ExistsBijection(X, B) BY <2>4 DEF ExistsBijection
  <2>6. IsFiniteSet(B) /\ Cardinality(B) = Cardinality(X) BY <1>8, <2>5, FS_Bijection
  <2> QED BY <2>6 DEF B
<1>11. (UndrawnTiles(s) \ U) \cap {x.tile : x \in X} = {} BY DEF Redrawn
<1>12. Cardinality(UndrawnTiles(z)) =
            Cardinality(UndrawnTiles(s) \ U) + Cardinality({x.tile : x \in X})
  <2>1. Cardinality({}) = 0 BY FS_EmptySet
  <2>2. Cardinality((UndrawnTiles(s) \ U) \cup {x.tile : x \in X}) =
            Cardinality(UndrawnTiles(s) \ U) + Cardinality({x.tile : x \in X}) - Cardinality({})
    BY <1>8, <1>10, <1>11, FS_Union
  <2>3. Cardinality(UndrawnTiles(s) \ U) \in Nat /\ Cardinality({x.tile : x \in X}) \in Nat
    BY <1>8, <1>10, FS_CardinalityType
  <2> QED BY <1>2, <2>1, <2>2, <2>3
<1>13. /\ Cardinality(UndrawnTiles(s)) \in Nat /\ Cardinality(U) \in Nat /\ Cardinality(X) \in Nat
  BY <1>8, FS_CardinalityType
<1>14. Cardinality(UndrawnTiles(z)) =
            (Cardinality(UndrawnTiles(s)) + Cardinality(X)) - Cardinality(U)
  BY <1>9, <1>10, <1>12, <1>13
<1> QED BY <1>5, <1>7, <1>14 DEF Recounted

LEMMA ChangedTyped ==
    ASSUME NEW s, NEW J, Typed(s), Placed(s, J), Accounts(s, J), NEW r, NEW z, NEW v,
           NEW U \in SUBSET UndrawnTiles(s), NEW X \in SUBSET J,
           Changed(s, r, z, v, U, Cardinality(X)), Redrawn(s, v, U, X), IsBudget(z.budget)
    PROVE  Typed(z) /\ Cardinality(U) \in Nat
<1>1. Cardinality(U) \in Nat /\ Cardinality(X) \in Nat
      /\ Cardinality(UndrawnTiles(s)) \in Nat /\ Cardinality(U) <= Cardinality(UndrawnTiles(s))
  <2>1. UndrawnTiles(s) \subseteq DOMAIN s.canvas.entries /\ IsFiniteSet(DOMAIN s.canvas.entries)
    BY DEF UndrawnTiles, Unpresented, Typed, CanvasOK
  <2>2. IsFiniteSet(UndrawnTiles(s)) /\ IsFiniteSet(X) BY <2>1, FS_Subset DEF Placed
  <2> QED BY <2>2, FS_Subset, FS_CardinalityType
<1>2. ClientOK(s.client) BY DEF Typed
<1>3. /\ z.client.received \in Nat /\ z.client.terminal \in Nat /\ z.client.releases \in Nat
      /\ z.client.pendingPresentations \in Nat
  <2>1. s.client.pendingPresentations = Cardinality(UndrawnTiles(s)) BY DEF Accounts
  <2>2. z.client.received = s.client.received BY ChangedFields
  <2>3. z.client.releases \in Nat BY <1>1, <1>2, SMTT(30), ZenonT(60) DEF Changed, Confirmed, ClientOK
  <2> QED BY <1>1, <1>2, <2>1, <2>2, <2>3, SMTT(30), ZenonT(60) DEF ClientOK, Changed
<1>4. ClientOK(z.client)
  <2>1. /\ z.client.connectionId = s.client.connectionId /\ z.client.epoch = s.client.epoch
        /\ z.client.selected = s.client.selected /\ z.client.manifest = s.client.manifest
        /\ z.client.manifestHistory = s.client.manifestHistory
        /\ z.client.plan = s.client.plan /\ z.client.pending = s.client.pending
        /\ z.client.error = s.client.error
    BY ChangedFields
  <2>2. IsClient(z.client) /\ z.client.phase \in Phases BY DEF Changed
  <2> QED BY <1>2, <1>3, <2>1, <2>2 DEF ClientOK
<1>5. ServerOK(z.server) /\ LedgerOK(z.ledger) BY ChangedServer DEF Typed
<1> QED BY <1>1, <1>4, <1>5 DEF Typed, Changed, Redrawn

LEMMA ChangedPlaced ==
    ASSUME NEW s, NEW J, Typed(s), Placed(s, J), AtWork(s, J), NEW r, NEW z, NEW v,
           NEW U \in SUBSET UndrawnTiles(s), NEW X \in SUBSET J,
           Changed(s, r, z, v, U, Cardinality(X)), Redrawn(s, v, U, X)
    PROVE  Placed(z, J \ X) /\ AtWork(z, J \ X)
<1>1. /\ z.client.connectionId = s.client.connectionId /\ Pending(z) = Pending(s)
      /\ z.canvas = v /\ z.worker = s.worker /\ IsOpen(z) = IsOpen(s)
  BY ChangedFields DEF Changed
<1>2. DOMAIN z.server.deliveries = DOMAIN s.server.deliveries BY ChangedServer DEF Typed
<1>3. /\ Held(z, J \ X) \subseteq Held(s, J)
      /\ UndrawnJobs(z) \subseteq UndrawnJobs(s) \cup X
  BY ChangedHeld
<1>4. IsFiniteSet(J \ X) /\ J \ X \in SUBSET Jobs BY FS_Subset DEF Placed
<1>5. \A t \in DOMAIN v.entries :
        v.entries[t].job.tile = t /\ v.entries[t].job.connection = s.client.connectionId
  BY DEF Redrawn, Placed
<1>6. /\ Pending(z) \cap UndrawnJobs(z) = {}
      /\ (J \ X) \cap (Pending(z) \cup UndrawnJobs(z)) = {}
  BY <1>1, <1>3 DEF Placed
<1>7. Placed(z, J \ X) BY <1>1, <1>2, <1>3, <1>4, <1>5, <1>6 DEF Placed
<1>8. AtWork(z, J \ X) BY <1>1 DEF AtWork
<1> QED BY <1>7, <1>8

LEMMA ChangedOwned ==
    ASSUME NEW s, NEW J, Typed(s), Placed(s, J), Owned(s, J), Agreed(s), NEW r, NEW z, NEW v,
           NEW U \in SUBSET UndrawnTiles(s), NEW X \in SUBSET J,
           Changed(s, r, z, v, U, Cardinality(X)), Redrawn(s, v, U, X)
    PROVE  Owned(z, J \ X) /\ Agreed(z)
<1> SUFFICES ASSUME IsOpen(z)
             PROVE  Owned(z, J \ X) /\ Agreed(z)
  BY DEF Owned, Agreed
<1> DEFINE D == DeliveriesOf(s, U)
           gone == {s.canvas.entries[t].job : t \in U}
           active == s.ledger.active
<1>1. IsOpen(s) /\ z.client.connectionId = s.client.connectionId BY ChangedFields
<1>2. /\ z.ledger.active = Restrict(active, DOMAIN active \ D)
      /\ Elements(z.ledger.released) \subseteq Elements(s.ledger.released) \cup D
      /\ z.server = Acked(s.server, D)
  BY <1>1 DEF Changed, Confirmed
<1>3. /\ DOMAIN z.server.deliveries = DOMAIN s.server.deliveries
      /\ z.server.deliveries = AckedBy(s.server.deliveries, D)
  BY <1>2, AckedOK DEF Typed
<1>4. Held(z, J \ X) = Held(s, J) \ gone BY ChangedHeld
<1>5. \A t \in U : s.canvas.entries[t].job \in Held(s, J) BY DEF UndrawnJobs, Held
<1>6. \A j \in Held(s, J) : j.delivery \in D <=> j \in gone
  <2>1. \A j \in gone : j.delivery \in D BY DEF DeliveriesOf
  <2>2. \A j \in Held(s, J) : j.delivery \in D => j \in gone BY <1>5 DEF DeliveriesOf, Placed
  <2> QED BY <2>1, <2>2
<1>7. D \subseteq DOMAIN active /\ \A d \in D : ~active[d].retryExpected
  <2>1. \A t \in U : LET d == s.canvas.entries[t].job.delivery
                     IN  d \in DOMAIN active /\ ~active[d].retryExpected
    BY <1>1, <1>5 DEF Owned
  <2> QED BY <2>1 DEF DeliveriesOf
<1> HIDE DEF D, gone
<1>8. Owned(z, J \ X)
  <2>1. \A d \in DOMAIN z.ledger.active :
            /\ d \in DOMAIN active /\ d \notin D /\ z.ledger.active[d] = active[d]
    BY <1>2 DEF Restrict
  <2>2. \A d \in DOMAIN z.ledger.active :
            /\ z.ledger.active[d].connection = z.client.connectionId
            /\ z.ledger.active[d].retryExpected \/ \E j \in Held(z, J \ X) : j.delivery = d
    <3> SUFFICES ASSUME NEW d \in DOMAIN z.ledger.active
                 PROVE  /\ z.ledger.active[d].connection = z.client.connectionId
                        /\ z.ledger.active[d].retryExpected
                           \/ \E j \in Held(z, J \ X) : j.delivery = d
      OBVIOUS
    <3>1. /\ active[d].connection = s.client.connectionId
          /\ active[d].retryExpected \/ \E j \in Held(s, J) : j.delivery = d
      BY <1>1, <2>1 DEF Owned
    <3> QED BY <1>1, <1>4, <1>6, <2>1, <3>1
  <2>3. \A j \in Held(z, J \ X) :
            /\ j.delivery \in DOMAIN z.ledger.active
            /\ ~z.ledger.active[j.delivery].retryExpected
    <3> SUFFICES ASSUME NEW j \in Held(z, J \ X)
                 PROVE  /\ j.delivery \in DOMAIN z.ledger.active
                        /\ ~z.ledger.active[j.delivery].retryExpected
      OBVIOUS
    <3>1. j \in Held(s, J) /\ j.delivery \notin D BY <1>4, <1>6
    <3>2. j.delivery \in DOMAIN active /\ ~active[j.delivery].retryExpected BY <1>1, <3>1 DEF Owned
    <3> QED BY <1>2, <3>1, <3>2 DEF Restrict
  <2> QED BY <2>2, <2>3 DEF Owned
<1>9. Agreed(z)
  <2>1. DOMAIN z.ledger.active \cup Elements(z.ledger.released) \subseteq DOMAIN z.server.deliveries
    <3>1. DOMAIN active \cup Elements(s.ledger.released) \subseteq DOMAIN s.server.deliveries
      BY <1>1 DEF Agreed
    <3>2. DOMAIN z.ledger.active \subseteq DOMAIN active BY <1>2 DEF Restrict
    <3> QED BY <1>2, <1>3, <1>7, <3>1, <3>2
  <2> DEFINE Fits(w, d) ==
        LET receipt == w.server.deliveries[d].receipt
        IN  IF d \in DOMAIN w.ledger.active
            THEN /\ receipt.acks = 0
                 /\ receipt.asks = w.ledger.active[d].retryRequests
                 /\ receipt.asks <= MaxSelectiveRetries
                 /\ receipt.copies =
                        IF w.ledger.active[d].retryExpected THEN receipt.asks
                        ELSE receipt.asks + 1
            ELSE receipt.acks = 1 /\ receipt.copies = receipt.asks + 1
  <2>2. \A d \in DOMAIN s.server.deliveries : Fits(s, d) BY <1>1 DEF Agreed
  <2>3. ASSUME NEW d \in DOMAIN s.server.deliveries PROVE Fits(z, d)
    <3>1. CASE d \notin D
      <4>1. z.server.deliveries[d] = s.server.deliveries[d] BY <1>3, <3>1 DEF AckedBy
      <4>2. (d \in DOMAIN z.ledger.active <=> d \in DOMAIN active)
            /\ (d \in DOMAIN active => z.ledger.active[d] = active[d])
        BY <1>2, <3>1 DEF Restrict
      <4>3. Fits(s, d) BY <2>2
      <4> QED BY <4>1, <4>2, <4>3
    <3>2. CASE d \in D
      <4>1. z.server.deliveries[d] = [s.server.deliveries[d] EXCEPT !.receipt.acks = @ + 1]
        BY <1>3, <3>2 DEF AckedBy
      <4>2. s.server.deliveries[d] \in Sent BY DEF Typed, ServerOK
      <4>3. LET receipt == z.server.deliveries[d].receipt
                before == s.server.deliveries[d].receipt
            IN  receipt.acks = before.acks + 1 /\ receipt.asks = before.asks
                /\ receipt.copies = before.copies
        BY <4>1, <4>2 DEF Sent, Counts
      <4>4. d \notin DOMAIN z.ledger.active BY <1>2, <3>2 DEF Restrict
      <4>5. d \in DOMAIN active /\ ~active[d].retryExpected BY <1>7, <3>2
      <4>6. Fits(s, d) BY <2>2
      <4> QED BY <4>3, <4>4, <4>5, <4>6
    <3> QED BY <3>1, <3>2
  <2>4. \A d \in DOMAIN z.server.deliveries : Fits(z, d) BY <1>3, <2>3
  <2> QED BY <2>1, <2>4 DEF Agreed
<1> QED BY <1>8, <1>9

LEMMA ChangedAccounts ==
    ASSUME NEW s, NEW J, Typed(s), Placed(s, J), Accounts(s, J), NEW r, NEW z, NEW v,
           NEW U \in SUBSET UndrawnTiles(s), NEW X \in SUBSET J,
           Changed(s, r, z, v, U, Cardinality(X)), Redrawn(s, v, U, X), IsBudget(z.budget)
    PROVE  Accounts(z, J \ X)
<1>1. /\ Pending(z) = Pending(s) /\ z.client.received = s.client.received
      /\ IsOpen(z) = IsOpen(s) /\ z.client.welcome = s.client.welcome
  BY ChangedFields
<1>2. Cardinality(UndrawnTiles(z)) =
            (Cardinality(UndrawnTiles(s)) + Cardinality(X)) - Cardinality(U)
  <2>1. Recounted(s, z, U, X) BY ChangedHeld
  <2> QED BY <2>1 DEF Recounted
<1>3. SumOfAsks(z.server.deliveries) = SumOfAsks(s.server.deliveries)
  <2>1. /\ DOMAIN z.server.deliveries = DOMAIN s.server.deliveries
        /\ AsksOf(z.server.deliveries) = AsksOf(s.server.deliveries)
    BY ChangedServer DEF Typed
  <2> QED BY <2>1 DEF SumOfAsks
<1>4. /\ Cardinality(U) \in Nat /\ IsFiniteSet(J) /\ IsFiniteSet(X) /\ J \cap X = X
      /\ IsFiniteSet(J \ X)
  BY ChangedTyped, FS_Subset DEF Placed
<1>5. Cardinality(J \ X) = Cardinality(J) - Cardinality(X) BY <1>4, FS_Difference
<1>6. Cardinality(J) \in Nat /\ Cardinality(X) \in Nat /\ Cardinality(Pending(s)) \in Nat
  BY <1>4, FS_CardinalityType DEF Typed, ClientOK, Pending
<1>7. /\ z.client.terminal = s.client.terminal + Cardinality(U)
      /\ z.client.pendingPresentations =
            (s.client.pendingPresentations + Cardinality(X)) - Cardinality(U)
      /\ IsOpen(s) => z.client.releases = s.client.releases + Cardinality(U)
  BY DEF Changed, Confirmed
<1>8. /\ s.client.terminal \in Nat /\ s.client.pendingPresentations \in Nat
      /\ s.client.releases \in Nat /\ s.client.received \in Nat
  BY DEF Typed, ClientOK
<1>9. z.client.pendingPresentations = Cardinality(UndrawnTiles(z)) BY <1>2, <1>7 DEF Accounts
<1>10. ASSUME z.client.welcome
       PROVE  z.client.received = z.client.terminal + Cardinality(Pending(z))
                                    + z.client.pendingPresentations + Cardinality(J \ X)
  <2>1. s.client.received = s.client.terminal + Cardinality(Pending(s))
                                + s.client.pendingPresentations + Cardinality(J)
    BY <1>1, <1>10 DEF Accounts
  <2> QED BY <1>1, <1>4, <1>5, <1>6, <1>7, <1>8, <2>1
<1>11. ASSUME z.client.welcome, IsOpen(z)
       PROVE  z.client.terminal = z.client.releases + SumOfAsks(z.server.deliveries)
  <2>1. s.client.terminal = s.client.releases + SumOfAsks(s.server.deliveries)
    BY <1>1, <1>11 DEF Accounts
  <2>2. SumOfAsks(s.server.deliveries) \in Int
    <3>1. IsFiniteSet(DOMAIN s.server.deliveries)
          /\ \A d \in DOMAIN s.server.deliveries : s.server.deliveries[d] \in Sent
      <4>1. s.server.deliveries \in Seq(Sent) /\ DOMAIN s.server.deliveries = 1..Len(s.server.deliveries)
            /\ Len(s.server.deliveries) \in Nat
        BY DEF Typed, ServerOK
      <4>2. IsFiniteSet(1..Len(s.server.deliveries))
        <5> DEFINE n == Len(s.server.deliveries)
        <5>1. 1 \in Int /\ n \in Int BY <4>1
        <5> HIDE DEF n
        <5>2. IsFiniteSet(1..n) BY <5>1, FS_Interval
        <5> QED BY <5>2 DEF n
      <4> QED BY <4>1, <4>2
    <3>2. \A d \in DOMAIN s.server.deliveries : AsksOf(s.server.deliveries)[d] \in Nat
      BY <3>1 DEF AsksOf, Sent, Counts
    <3>3. SumOfAsks(s.server.deliveries) \in Nat BY <3>1, <3>2, SumIsNat DEF SumOfAsks
    <3> QED BY <3>3
  <2> QED BY <1>1, <1>3, <1>4, <1>7, <1>8, <1>11, <2>1, <2>2
<1>12. UndrawnTiles(z) # {} => z.canvas.frame BY DEF Changed, Redrawn, UndrawnTiles
<1> QED BY <1>9, <1>10, <1>11, <1>12 DEF Accounts

LEMMA ChangedRest ==
    ASSUME NEW s, NEW J, Core(s, J), NEW r, NEW z, NEW v,
           NEW U \in SUBSET UndrawnTiles(s), NEW X \in SUBSET J, s.client.welcome \/ X = {},
           Changed(s, r, z, v, U, Cardinality(X)), Redrawn(s, v, U, X),
           ~s.client.welcome => z.budget = s.budget
    PROVE  Spoken(z) /\ Known(z) /\ Asked(z) /\ Quiet(z) /\ Sockets(z)
<1>1. Typed(s) /\ Spoken(s) /\ Known(s) /\ Asked(s) /\ Quiet(s) /\ Sockets(s) BY DEF Core
<1>2. /\ z.client.connectionId = s.client.connectionId /\ z.client.epoch = s.client.epoch
      /\ z.client.selected = s.client.selected /\ z.client.manifest = s.client.manifest
      /\ z.client.manifestHistory = s.client.manifestHistory
      /\ z.client.welcome = s.client.welcome
      /\ z.client.received = s.client.received
      /\ IsOpen(z) = IsOpen(s) /\ IsLive(z) = IsLive(s) /\ Pending(z) = Pending(s)
      /\ EpochsExhausted(z) = EpochsExhausted(s)
  BY ChangedFields DEF EpochsExhausted
<1>3. /\ DOMAIN z.server.deliveries = DOMAIN s.server.deliveries
      /\ z.server.controls = s.server.controls /\ z.server.epoch = s.server.epoch
      /\ z.server.stage = s.server.stage
      /\ \A d \in DOMAIN s.server.deliveries :
                z.server.deliveries[d].epoch = s.server.deliveries[d].epoch
  BY <1>1, ChangedServer DEF Typed
<1>4. z.sockets = s.sockets /\ z.worker = s.worker /\ z.canvas = v BY DEF Changed
<1>5. Spoken(z) BY <1>1, <1>2, <1>3 DEF Spoken
<1>6. Known(z) BY <1>1, <1>2, <1>3 DEF Known
<1>7. Asked(z) BY <1>1, <1>2, <1>3 DEF Asked
<1>8. Sockets(z) BY <1>1, <1>2, <1>4 DEF Sockets
<1>9. Quiet(z)
  <2> SUFFICES ASSUME ~z.client.welcome PROVE Quiet(z)
    BY DEF Quiet
  <2>1. /\ Pending(s) = {} /\ s.client.pendingPresentations = 0 /\ s.client.manifest = NoImage
        /\ DOMAIN s.canvas.entries = {} /\ s.canvas.manifest = NoImage
        /\ s.ledger = EmptyLedger /\ s.budget = EmptyBudget
        /\ IsLive(s) =>
            /\ s.client.received = 0 /\ s.client.terminal = 0 /\ s.client.releases = 0
            /\ s.server.controls = <<>> /\ s.server.deliveries = <<>>
            /\ \A j \in JobsOf(s.worker) : j.connection # s.client.connectionId
    BY <1>1, <1>2 DEF Quiet
  <2>2. X = {} /\ U = {} /\ Cardinality({}) = 0
    BY <1>2, <2>1, FS_EmptySet DEF UndrawnTiles, Unpresented
  <2>3. DOMAIN v.entries = {} /\ v.manifest = NoImage BY <2>1, <2>2 DEF Redrawn
  <2>4. /\ z.client.terminal = s.client.terminal
        /\ z.client.pendingPresentations = s.client.pendingPresentations
        /\ z.client.releases = s.client.releases /\ z.ledger = s.ledger /\ z.server = s.server
    <3>1. s.client.terminal \in Nat /\ s.client.pendingPresentations \in Nat
      BY <1>1 DEF Typed, ClientOK
    <3> QED BY <2>2, <3>1 DEF Changed
  <2>5. z.budget = s.budget BY <1>2
  <2> QED BY <1>2, <1>4, <2>1, <2>3, <2>4, <2>5 DEF Quiet
<1> QED BY <1>5, <1>6, <1>7, <1>8, <1>9

LEMMA ChangedCore ==
    ASSUME NEW s, NEW J, Core(s, J), NEW r, NEW z, NEW v,
           NEW U \in SUBSET UndrawnTiles(s), NEW X \in SUBSET J, s.client.welcome \/ X = {},
           Changed(s, r, z, v, U, Cardinality(X)), Redrawn(s, v, U, X),
           ~s.client.welcome => z.budget = s.budget,
           IsBudget(z.budget), Budgets(z, J \ X)
    PROVE  Core(z, J \ X)
<1>1. /\ Typed(s) /\ Placed(s, J) /\ AtWork(s, J) /\ Owned(s, J) /\ Agreed(s) /\ Accounts(s, J)
  BY DEF Core
<1>2. Typed(z) BY <1>1, ChangedTyped
<1>3. Placed(z, J \ X) /\ AtWork(z, J \ X) BY <1>1, ChangedPlaced
<1>4. Owned(z, J \ X) /\ Agreed(z) BY <1>1, ChangedOwned
<1>5. Accounts(z, J \ X) BY <1>1, ChangedAccounts
<1>6. Spoken(z) /\ Known(z) /\ Asked(z) /\ Quiet(z) /\ Sockets(z) BY ChangedRest
<1> QED BY <1>2, <1>3, <1>4, <1>5, <1>6 DEF Core

--------------------------------------------------------------------------------
\* The budget

LEMMA BytesAreNumbers ==
    \A t \in Tiles : Bytes[t] \in Nat /\ Bytes[t] > 0
BY ClientAssumption

LEMMA KeptFinite ==
    ASSUME NEW entries, IsFiniteSet(DOMAIN entries), DOMAIN entries \in SUBSET Tiles, NEW kind
    PROVE  /\ IsFiniteSet(KeptTiles(entries, kind)) /\ KeptTiles(entries, kind) \in SUBSET Tiles
           /\ KeptBytes(entries, kind) \in Nat
<1>1. KeptTiles(entries, kind) \in SUBSET DOMAIN entries BY DEF KeptTiles
<1>2. IsFiniteSet(KeptTiles(entries, kind)) BY <1>1, FS_Subset
<1>3. KeptBytes(entries, kind) \in Nat BY <1>1, <1>2, SumIsNat, BytesAreNumbers DEF KeptBytes
<1> QED BY <1>1, <1>2, <1>3

\* Without one tile.
LEMMA KeptWithout ==
    ASSUME NEW entries, IsFiniteSet(DOMAIN entries), DOMAIN entries \in SUBSET Tiles,
           NEW x \in DOMAIN entries, NEW kind
    PROVE  LET rest == Restrict(entries, DOMAIN entries \ {x})
           IN  KeptBytes(entries, kind) =
                    IF entries[x].kind = kind THEN Bytes[x] + KeptBytes(rest, kind)
                    ELSE KeptBytes(rest, kind)
<1> DEFINE rest == Restrict(entries, DOMAIN entries \ {x})
<1>1. KeptTiles(rest, kind) = KeptTiles(entries, kind) \ {x} BY DEF KeptTiles, Restrict
<1>2. IsFiniteSet(KeptTiles(entries, kind)) /\ KeptTiles(entries, kind) \in SUBSET Tiles
  BY KeptFinite
<1>3. CASE entries[x].kind = kind
  <2>1. x \in KeptTiles(entries, kind) BY <1>3 DEF KeptTiles
  <2>2. \A t \in KeptTiles(entries, kind) : Bytes[t] \in Nat BY <1>2, BytesAreNumbers
  <2> QED BY <1>1, <1>2, <1>3, <2>1, <2>2, SumWithout, SMTT(30), ZenonT(60) DEF KeptBytes
<1>4. CASE entries[x].kind # kind
  <2>1. KeptTiles(rest, kind) = KeptTiles(entries, kind) BY <1>1, <1>4 DEF KeptTiles
  <2> QED BY <1>4, <2>1 DEF KeptBytes
<1> QED BY <1>3, <1>4

LEMMA RemoveStoredOK ==
    ASSUME NEW b, IsBudget(b), NEW kind \in Kinds, NEW bytes \in Nat,
           bytes <= (IF kind = "context" THEN b.contextBytes ELSE b.detailBytes)
    PROVE  LET r == RemoveStored(b, kind, bytes)
           IN  /\ IsBudget(r) /\ r.reservations = b.reservations
               /\ r.transientBytes = b.transientBytes
               /\ r.contextBytes = IF kind = "context" THEN b.contextBytes - bytes ELSE b.contextBytes
               /\ r.detailBytes = IF kind = "context" THEN b.detailBytes ELSE b.detailBytes - bytes
<1> DEFINE r == RemoveStored(b, kind, bytes)
<1>1. /\ b = [reservations |-> b.reservations, transientBytes |-> b.transientBytes,
              contextBytes |-> b.contextBytes, detailBytes |-> b.detailBytes]
      /\ b.transientBytes \in Nat /\ b.contextBytes \in Nat /\ b.detailBytes \in Nat
  BY DEF IsBudget
<1>2. CASE kind = "context"
  <2>1. AtLeastZero(b.contextBytes, bytes) = b.contextBytes - bytes BY <1>1, <1>2 DEF AtLeastZero
  <2>2. r = [reservations |-> b.reservations, transientBytes |-> b.transientBytes,
             contextBytes |-> b.contextBytes - bytes, detailBytes |-> b.detailBytes]
    BY <1>1, <1>2, <2>1 DEF RemoveStored
  <2> HIDE DEF r
  <2>3. b.contextBytes - bytes \in Nat BY <1>1, <1>2
  <2>4. IsBudget(r) BY <1>1, <2>2, <2>3 DEF IsBudget
  <2> QED BY <1>2, <2>2, <2>4 DEF r
<1>3. CASE kind # "context"
  <2>1. AtLeastZero(b.detailBytes, bytes) = b.detailBytes - bytes BY <1>1, <1>3 DEF AtLeastZero
  <2>2. r = [reservations |-> b.reservations, transientBytes |-> b.transientBytes,
             contextBytes |-> b.contextBytes, detailBytes |-> b.detailBytes - bytes]
    BY <1>1, <1>3, <2>1 DEF RemoveStored
  <2> HIDE DEF r
  <2>3. b.detailBytes - bytes \in Nat BY <1>1, <1>3
  <2>4. IsBudget(r) BY <1>1, <2>2, <2>3 DEF IsBudget
  <2> QED BY <1>3, <2>2, <2>4 DEF r
<1> QED BY <1>2, <1>3

\* The budget b keeps the bytes of the entries, and x and y more.
KeepsBytes(b, entries, x, y) ==
    /\ IsBudget(b)
    /\ b.contextBytes = KeptBytes(entries, "context") + x
    /\ b.detailBytes = KeptBytes(entries, "detail") + y

\* The tiles that leave take their bytes with them.
LEMMA RemovedFromBudgetOK ==
    ASSUME NEW entries, IsFiniteSet(DOMAIN entries), DOMAIN entries \in SUBSET Tiles,
           entries \in [DOMAIN entries -> Entry],
           NEW x, x \in Nat, NEW y, y \in Nat, NEW b, KeepsBytes(b, entries, x, y),
           NEW T \in SUBSET DOMAIN entries
    PROVE  LET r == RemovedFromBudget(b, entries, T)
           IN  /\ KeepsBytes(r, Restrict(entries, DOMAIN entries \ T), x, y)
               /\ r.reservations = b.reservations /\ r.transientBytes = b.transientBytes
               /\ r.contextBytes <= b.contextBytes /\ r.detailBytes <= b.detailBytes
               /\ T = {} => r = b
<1>1. IsFiniteSet(T) BY FS_Subset
<1>2. PICK f : IsRemoval(f, b, entries, SUBSET T) /\ RemovedFromBudget(b, entries, T) = f[T]
  BY <1>1, IsRemovalUnfolds
<1> DEFINE Good == {U \in SUBSET T :
                        /\ KeepsBytes(f[U], Restrict(entries, DOMAIN entries \ U), x, y)
                        /\ f[U].reservations = b.reservations
                        /\ f[U].transientBytes = b.transientBytes
                        /\ f[U].contextBytes <= b.contextBytes /\ f[U].detailBytes <= b.detailBytes
                        /\ U = {} => f[U] = b}
<1>3. ASSUME NEW U \in SUBSET T, \A z \in U : U \ {z} \in Good
      PROVE  U \in Good
  <2>1. CASE U = {}
    <3>1. f[U] = b BY <1>2, <2>1 DEF IsRemoval
    <3>2. Restrict(entries, DOMAIN entries \ U) = entries BY <2>1 DEF Restrict
    <3>3. b.contextBytes <= b.contextBytes /\ b.detailBytes <= b.detailBytes
      BY DEF KeepsBytes, IsBudget
    <3> QED BY <3>1, <3>2, <3>3
  <2>2. CASE U # {}
    <3> DEFINE z == Picked(U)
    <3>1. z \in U BY <2>2 DEF Picked
    <3> DEFINE V == U \ {z}
               before == Restrict(entries, DOMAIN entries \ V)
               after == Restrict(entries, DOMAIN entries \ U)
               kind == entries[z].kind
    <3>2. f[U] = RemoveStored(f[V], kind, Bytes[z]) BY <1>2, <2>2 DEF IsRemoval
    <3> HIDE DEF z
    <3>3. /\ KeepsBytes(f[V], before, x, y)
          /\ f[V].reservations = b.reservations /\ f[V].transientBytes = b.transientBytes
          /\ f[V].contextBytes <= b.contextBytes /\ f[V].detailBytes <= b.detailBytes
      BY <1>3, <3>1
    <3>4. /\ DOMAIN before = DOMAIN entries \ V /\ z \in DOMAIN before
          /\ before[z] = entries[z] /\ kind \in Kinds /\ z \in Tiles
      BY <3>1 DEF Restrict, Entry
    <3>5. Restrict(before, DOMAIN before \ {z}) = after BY <3>1 DEF Restrict
    <3>6. IsFiniteSet(DOMAIN before) /\ DOMAIN before \in SUBSET Tiles BY <3>4, FS_Subset
    <3>7. IsFiniteSet(DOMAIN after) /\ DOMAIN after \in SUBSET Tiles
      BY <3>5, <3>6, FS_Subset DEF Restrict
    <3> HIDE DEF V, before, after
    <3>8. \A k \in Kinds : KeptBytes(before, k) =
                IF kind = k THEN Bytes[z] + KeptBytes(after, k) ELSE KeptBytes(after, k)
      BY <3>4, <3>5, <3>6, KeptWithout
    <3>9. /\ \A k \in Kinds : KeptBytes(before, k) \in Nat /\ KeptBytes(after, k) \in Nat
          /\ Bytes[z] \in Nat
      BY <3>4, <3>6, <3>7, KeptFinite, BytesAreNumbers
    <3> HIDE DEF kind
    <3>10. /\ f[V].contextBytes = KeptBytes(before, "context") + x
           /\ f[V].detailBytes = KeptBytes(before, "detail") + y
           /\ IsBudget(f[V])
      BY <3>3 DEF KeepsBytes
    <3>11. kind = "context" \/ kind = "detail" BY <3>4 DEF Kinds
    <3>12. /\ KeptBytes(before, "context") =
                IF kind = "context" THEN Bytes[z] + KeptBytes(after, "context")
                ELSE KeptBytes(after, "context")
           /\ KeptBytes(before, "detail") =
                IF kind = "detail" THEN Bytes[z] + KeptBytes(after, "detail")
                ELSE KeptBytes(after, "detail")
           /\ KeptBytes(after, "context") \in Nat /\ KeptBytes(after, "detail") \in Nat
      BY <3>8, <3>9 DEF Kinds
    <3>13. Bytes[z] <= (IF kind = "context" THEN f[V].contextBytes ELSE f[V].detailBytes)
      BY <3>9, <3>10, <3>11, <3>12
    <3>14. /\ IsBudget(f[U]) /\ f[U].reservations = f[V].reservations
           /\ f[U].transientBytes = f[V].transientBytes
           /\ f[U].contextBytes =
                IF kind = "context" THEN f[V].contextBytes - Bytes[z] ELSE f[V].contextBytes
           /\ f[U].detailBytes =
                IF kind = "context" THEN f[V].detailBytes ELSE f[V].detailBytes - Bytes[z]
      BY <3>2, <3>4, <3>9, <3>10, <3>13, RemoveStoredOK
    <3>15. /\ f[U].contextBytes = KeptBytes(after, "context") + x
           /\ f[U].detailBytes = KeptBytes(after, "detail") + y
      BY <3>9, <3>10, <3>11, <3>12, <3>14
    <3>16. f[U].contextBytes <= b.contextBytes /\ f[U].detailBytes <= b.detailBytes
      <4>1. b.contextBytes \in Nat /\ b.detailBytes \in Nat
            /\ f[V].contextBytes \in Nat /\ f[V].detailBytes \in Nat
        BY <3>10 DEF KeepsBytes, IsBudget
      <4>2. f[V].contextBytes - Bytes[z] <= f[V].contextBytes
            /\ f[V].detailBytes - Bytes[z] <= f[V].detailBytes
        BY <3>9, <4>1
      <4> QED BY <3>3, <3>9, <3>14, <4>1, <4>2
    <3> QED BY <2>2, <3>3, <3>14, <3>15, <3>16 DEF KeepsBytes, after
  <2> QED BY <2>1, <2>2
<1>4. T \in Good
  <2> HIDE DEF Good
  <2> QED BY <1>1, <1>3, SubsetInduction
<1> QED BY <1>2, <1>4

\* The reservations of b are of its jobs, and add up.
Reserved(b) ==
    /\ IsBudget(b)
    /\ DOMAIN b.reservations \in SUBSET Jobs /\ IsFiniteSet(DOMAIN b.reservations)
    /\ \A j \in DOMAIN b.reservations : b.reservations[j] = Bytes[j.tile]
    /\ b.transientBytes = ReservedBytes(b)

LEMMA ReservedNumbers ==
    ASSUME NEW b, Reserved(b)
    PROVE  /\ \A j \in DOMAIN b.reservations : b.reservations[j] \in Nat
           /\ b.transientBytes \in Nat /\ b.contextBytes \in Nat /\ b.detailBytes \in Nat
<1>1. \A j \in DOMAIN b.reservations : j.tile \in Tiles BY DEF Reserved, Jobs
<1> QED BY <1>1, BytesAreNumbers DEF Reserved, IsBudget

LEMMA CancelOK ==
    ASSUME NEW b, Reserved(b), NEW job
    PROVE  LET r == Cancel(b, job)
           IN  /\ Reserved(r) /\ DOMAIN r.reservations = DOMAIN b.reservations \ {job}
               /\ r.contextBytes = b.contextBytes /\ r.detailBytes = b.detailBytes
               /\ r.transientBytes =
                    IF job \in DOMAIN b.reservations THEN b.transientBytes - Bytes[job.tile]
                    ELSE b.transientBytes
               /\ r.transientBytes <= b.transientBytes
<1> DEFINE r == Cancel(b, job)
           rs == b.reservations
<1>1. CASE job \notin DOMAIN rs
  <2>1. r = b BY <1>1 DEF Cancel
  <2>2. b.transientBytes <= b.transientBytes BY ReservedNumbers
  <2> QED BY <1>1, <2>1, <2>2
<1>2. CASE job \in DOMAIN rs
  <2> DEFINE rest == Restrict(rs, DOMAIN rs \ {job})
  <2>1. b = [reservations |-> rs, transientBytes |-> b.transientBytes,
             contextBytes |-> b.contextBytes, detailBytes |-> b.detailBytes]
    BY DEF Reserved, IsBudget
  <2>2. r = [reservations |-> rest, transientBytes |-> b.transientBytes - rs[job],
             contextBytes |-> b.contextBytes, detailBytes |-> b.detailBytes]
    BY <1>2, <2>1 DEF Cancel
  <2>3. /\ DOMAIN rest = DOMAIN rs \ {job} /\ \A j \in DOMAIN rest : rest[j] = rs[j] BY DEF Restrict
  <2>4. /\ IsFiniteSet(DOMAIN rs) /\ IsFiniteSet(DOMAIN rest)
        /\ \A j \in DOMAIN rs : rs[j] \in Nat
    BY <2>3, ReservedNumbers, FS_Subset DEF Reserved
  <2>5. SumFunctionOnSet(rs, DOMAIN rs) = rs[job] + SumFunctionOnSet(rs, DOMAIN rest)
    BY <1>2, <2>3, <2>4, SumWithout
  <2>6. SumFunctionOnSet(rs, DOMAIN rest) = SumFunctionOnSet(rest, DOMAIN rest)
    BY <2>3, <2>4, SumSame
  <2>7. SumFunctionOnSet(rs, DOMAIN rest) \in Nat BY <2>3, <2>4, SumIsNat
  <2>8. b.transientBytes = SumFunctionOnSet(rs, DOMAIN rs) BY DEF Reserved, ReservedBytes
  <2>9. rs[job] \in Nat /\ rs[job] = Bytes[job.tile] BY <1>2, <2>4 DEF Reserved
  <2> HIDE DEF rest, rs
  <2>10. /\ b.transientBytes - rs[job] = SumFunctionOnSet(rest, DOMAIN rest)
         /\ b.transientBytes - rs[job] \in Nat
         /\ b.transientBytes - rs[job] <= b.transientBytes
    BY <2>5, <2>6, <2>7, <2>8, <2>9
  <2>11. b.contextBytes \in Nat /\ b.detailBytes \in Nat BY ReservedNumbers
  <2>12. IsBudget(r) BY <2>2, <2>10, <2>11 DEF IsBudget
  <2>13. /\ DOMAIN rest \in SUBSET Jobs /\ \A j \in DOMAIN rest : rest[j] = Bytes[j.tile]
    BY <2>3 DEF Reserved, rs
  <2>14. Reserved(r) BY <2>2, <2>4, <2>10, <2>12, <2>13 DEF Reserved, ReservedBytes
  <2> QED BY <1>2, <2>2, <2>3, <2>9, <2>10, <2>14 DEF rs
<1> QED BY <1>1, <1>2

LEMMA CancelAllOK ==
    ASSUME NEW b, Reserved(b), NEW S, IsFiniteSet(S)
    PROVE  LET r == CancelAll(b, S)
           IN  /\ Reserved(r) /\ DOMAIN r.reservations = DOMAIN b.reservations \ S
               /\ r.contextBytes = b.contextBytes /\ r.detailBytes = b.detailBytes
               /\ r.transientBytes <= b.transientBytes
<1>1. PICK f : IsCancelling(f, b, SUBSET S) /\ CancelAll(b, S) = f[S] BY IsCancellingUnfolds
<1> DEFINE Good == {U \in SUBSET S :
                        /\ Reserved(f[U]) /\ DOMAIN f[U].reservations = DOMAIN b.reservations \ U
                        /\ f[U].contextBytes = b.contextBytes /\ f[U].detailBytes = b.detailBytes
                        /\ f[U].transientBytes <= b.transientBytes}
<1>2. ASSUME NEW U \in SUBSET S, \A z \in U : U \ {z} \in Good
      PROVE  U \in Good
  <2>1. CASE U = {}
    <3>1. f[U] = b BY <1>1, <2>1 DEF IsCancelling
    <3>2. b.transientBytes <= b.transientBytes BY ReservedNumbers
    <3> QED BY <2>1, <3>1, <3>2
  <2>2. CASE U # {}
    <3> DEFINE z == Picked(U)
    <3>1. z \in U BY <2>2 DEF Picked
    <3> DEFINE V == U \ {z}
    <3>2. f[U] = Cancel(f[V], z) BY <1>1, <2>2 DEF IsCancelling
    <3> HIDE DEF z
    <3>3. /\ Reserved(f[V]) /\ DOMAIN f[V].reservations = DOMAIN b.reservations \ V
          /\ f[V].contextBytes = b.contextBytes /\ f[V].detailBytes = b.detailBytes
          /\ f[V].transientBytes <= b.transientBytes
      BY <1>2, <3>1
    <3>4. U = V \cup {z} BY <3>1
    <3> HIDE DEF V
    <3>5. /\ Reserved(f[U]) /\ DOMAIN f[U].reservations = DOMAIN f[V].reservations \ {z}
          /\ f[U].contextBytes = f[V].contextBytes /\ f[U].detailBytes = f[V].detailBytes
          /\ f[U].transientBytes <= f[V].transientBytes
      <4> DEFINE q == f[V]
                 r == Cancel(q, z)
      <4>1. Reserved(q) /\ f[U] = r BY <3>2, <3>3
      <4> HIDE DEF q
      <4>2. /\ Reserved(r) /\ DOMAIN r.reservations = DOMAIN q.reservations \ {z}
            /\ r.contextBytes = q.contextBytes /\ r.detailBytes = q.detailBytes
            /\ r.transientBytes <= q.transientBytes
        BY <4>1, CancelOK
      <4> QED BY <4>1, <4>2 DEF q
    <3>6. f[U].transientBytes <= b.transientBytes
      <4>1. f[U].transientBytes \in Nat /\ f[V].transientBytes \in Nat /\ b.transientBytes \in Nat
        BY <3>3, <3>5, ReservedNumbers
      <4> QED BY <3>3, <3>5, <4>1
    <3> QED BY <3>3, <3>4, <3>5, <3>6
  <2> QED BY <2>1, <2>2
<1>3. S \in Good
  <2> HIDE DEF Good
  <2> QED BY <1>2, SubsetInduction, SMTT(30), ZenonT(60)
<1> QED BY <1>1, <1>3

LEMMA ReserveOK ==
    ASSUME NEW b, Reserved(b), NEW job \in Jobs, job \notin DOMAIN b.reservations
    PROVE  LET r == Reserve(b, job, Bytes[job.tile])
           IN  /\ Reserved(r) /\ DOMAIN r.reservations = DOMAIN b.reservations \cup {job}
               /\ r.contextBytes = b.contextBytes /\ r.detailBytes = b.detailBytes
               /\ r.transientBytes = b.transientBytes + Bytes[job.tile]
<1> DEFINE r == Reserve(b, job, Bytes[job.tile])
           rs == b.reservations
           more == [j \in DOMAIN rs \cup {job} |-> IF j = job THEN Bytes[job.tile] ELSE rs[j]]
<1>1. b = [reservations |-> rs, transientBytes |-> b.transientBytes,
           contextBytes |-> b.contextBytes, detailBytes |-> b.detailBytes]
  BY DEF Reserved, IsBudget
<1>2. r = [reservations |-> more, transientBytes |-> b.transientBytes + Bytes[job.tile],
           contextBytes |-> b.contextBytes, detailBytes |-> b.detailBytes]
  <2>1. r = [b EXCEPT !.reservations = more, !.transientBytes = b.transientBytes + Bytes[job.tile]]
    BY DEF Reserve
  <2> HIDE DEF more, r, rs
  <2> QED BY <1>1, <2>1
<1>3. /\ DOMAIN more = DOMAIN rs \cup {job} /\ more[job] = Bytes[job.tile]
      /\ \A j \in DOMAIN rs : more[j] = rs[j]
  OBVIOUS
<1> HIDE DEF more
<1>4. /\ IsFiniteSet(DOMAIN rs) /\ IsFiniteSet(DOMAIN more)
      /\ \A j \in DOMAIN rs : rs[j] \in Nat
  BY <1>3, ReservedNumbers, FS_AddElement DEF Reserved
<1>5. Bytes[job.tile] \in Nat BY BytesAreNumbers DEF Jobs
<1>6. SumFunctionOnSet(more, DOMAIN rs \cup {job}) =
            more[job] + SumFunctionOnSet(more, DOMAIN rs)
  BY <1>3, <1>4, <1>5, SumWith
<1>7. SumFunctionOnSet(more, DOMAIN rs) = SumFunctionOnSet(rs, DOMAIN rs) BY <1>3, <1>4, SumSame
<1>8. b.transientBytes = SumFunctionOnSet(rs, DOMAIN rs) BY DEF Reserved, ReservedBytes
<1>9. b.transientBytes \in Nat /\ b.contextBytes \in Nat /\ b.detailBytes \in Nat BY ReservedNumbers
<1>10. /\ \A j \in DOMAIN more : more[j] = Bytes[j.tile]
       /\ DOMAIN more \in SUBSET Jobs
  BY <1>3 DEF Reserved
<1> HIDE DEF rs
<1>11. b.transientBytes + Bytes[job.tile] = SumFunctionOnSet(more, DOMAIN more)
       /\ b.transientBytes + Bytes[job.tile] \in Nat
  BY <1>3, <1>5, <1>6, <1>7, <1>8, <1>9
<1> HIDE DEF r
<1>12. IsBudget(r) BY <1>2, <1>9, <1>11 DEF IsBudget
<1>13. Reserved(r) BY <1>2, <1>4, <1>10, <1>11, <1>12 DEF Reserved, ReservedBytes
<1> QED BY <1>2, <1>3, <1>13 DEF r, rs

LEMMA CommitOK ==
    ASSUME NEW b, Reserved(b), NEW job, NEW kind \in Kinds
    PROVE  LET r == Commit(b, job, kind)
           IN  /\ Reserved(r) /\ DOMAIN r.reservations = DOMAIN b.reservations \ {job}
               /\ r.transientBytes =
                    IF job \in DOMAIN b.reservations THEN b.transientBytes - Bytes[job.tile]
                    ELSE b.transientBytes
               /\ r.transientBytes <= b.transientBytes
               /\ ~CommitFits(b, job, kind) =>
                    r.contextBytes = b.contextBytes /\ r.detailBytes = b.detailBytes
               /\ CommitFits(b, job, kind) =>
                    /\ job \in DOMAIN b.reservations /\ Bytes[job.tile] \in Nat
                    /\ r.contextBytes = IF kind = "context" THEN b.contextBytes + Bytes[job.tile]
                                        ELSE b.contextBytes
                    /\ r.detailBytes = IF kind = "context" THEN b.detailBytes
                                       ELSE b.detailBytes + Bytes[job.tile]
                    /\ kind = "detail" => b.detailBytes + Bytes[job.tile] <= DetailBudgetBytes
<1> DEFINE r == Commit(b, job, kind)
           freed == Cancel(b, job)
<1>1. /\ Reserved(freed) /\ DOMAIN freed.reservations = DOMAIN b.reservations \ {job}
      /\ freed.contextBytes = b.contextBytes /\ freed.detailBytes = b.detailBytes
      /\ freed.transientBytes =
            IF job \in DOMAIN b.reservations THEN b.transientBytes - Bytes[job.tile]
            ELSE b.transientBytes
      /\ freed.transientBytes <= b.transientBytes
  BY CancelOK
<1>2. CASE ~CommitFits(b, job, kind)
  <2>1. r = freed BY <1>2 DEF Commit
  <2> QED BY <1>1, <1>2, <2>1
<1>3. CASE CommitFits(b, job, kind)
  <2> DEFINE bytes == b.reservations[job]
  <2>1. /\ job \in DOMAIN b.reservations /\ bytes \in Nat /\ bytes = Bytes[job.tile]
        /\ kind = "detail" => b.detailBytes + bytes <= DetailBudgetBytes
    BY <1>3, ReservedNumbers DEF CommitFits, Reserved
  <2>2. r = IF kind = "context" THEN [freed EXCEPT !.contextBytes = @ + bytes]
            ELSE [freed EXCEPT !.detailBytes = @ + bytes]
    BY <1>3 DEF Commit
  <2> HIDE DEF r, freed, bytes
  <2>3. /\ freed = [reservations |-> freed.reservations, transientBytes |-> freed.transientBytes,
                    contextBytes |-> freed.contextBytes, detailBytes |-> freed.detailBytes]
        /\ freed.transientBytes \in Nat /\ freed.contextBytes \in Nat /\ freed.detailBytes \in Nat
    BY <1>1, ReservedNumbers DEF Reserved, IsBudget
  <2>4. r = [reservations |-> freed.reservations, transientBytes |-> freed.transientBytes,
             contextBytes |-> IF kind = "context" THEN freed.contextBytes + bytes
                              ELSE freed.contextBytes,
             detailBytes |-> IF kind = "context" THEN freed.detailBytes
                             ELSE freed.detailBytes + bytes]
    BY <2>2, <2>3
  <2>5. /\ (IF kind = "context" THEN freed.contextBytes + bytes ELSE freed.contextBytes) \in Nat
        /\ (IF kind = "context" THEN freed.detailBytes ELSE freed.detailBytes + bytes) \in Nat
    BY <2>1, <2>3
  <2>6. IsBudget(r) /\ r.reservations = freed.reservations /\ r.transientBytes = freed.transientBytes
    BY <2>3, <2>4, <2>5 DEF IsBudget
  <2>7. Reserved(r) BY <1>1, <2>6 DEF Reserved, ReservedBytes
  <2> QED BY <1>1, <1>3, <2>1, <2>4, <2>6, <2>7 DEF r
<1> QED BY <1>2, <1>3

--------------------------------------------------------------------------------
\* The compositor and its callbacks

LEMMA UndrawnFinite ==
    ASSUME NEW s, CanvasOK(s.canvas), NEW U \in SUBSET UndrawnTiles(s)
    PROVE  /\ IsFiniteSet(U) /\ Cardinality(U) \in Nat
           /\ IsFiniteSet(UndrawnTiles(s)) /\ Cardinality(UndrawnTiles(s)) \in Nat
           /\ Cardinality(U) <= Cardinality(UndrawnTiles(s))
<1>1. UndrawnTiles(s) \subseteq DOMAIN s.canvas.entries /\ IsFiniteSet(DOMAIN s.canvas.entries)
  BY DEF UndrawnTiles, Unpresented, CanvasOK
<1>2. IsFiniteSet(UndrawnTiles(s)) BY <1>1, FS_Subset
<1> QED BY <1>2, FS_Subset, FS_CardinalityType

\* The record c is s, with n presentations counted more.
Counting(s, c, n) ==
    /\ IsState(c) /\ IsClient(c.client)
    /\ \A f \in StateFields \ {"client", "budget"} : c[f] = s[f]
    /\ \A f \in ClientFields \ {"pendingPresentations"} : c.client[f] = s.client[f]
    /\ c.client.pendingPresentations = s.client.pendingPresentations + n

LEMMA CoreMayEnd ==
    ASSUME NEW s, NEW J, Core(s, J), NEW n \in Nat, NEW c, Counting(s, c, n),
           NEW U \in SUBSET UndrawnTiles(s)
    PROVE  MayEnd(c, U)
<1>1. /\ Typed(s) /\ Placed(s, J) /\ Owned(s, J) /\ Accounts(s, J)
      /\ ClientOK(s.client) /\ LedgerOK(s.ledger) /\ ServerOK(s.server) /\ CanvasOK(s.canvas)
  BY DEF Core, Typed
<1>2. /\ c.ledger = s.ledger /\ c.server = s.server /\ c.canvas = s.canvas
      /\ c.sockets = s.sockets
  BY DEF Counting, StateFields
<1>3. /\ c.client.phase = s.client.phase /\ c.client.terminal = s.client.terminal
      /\ c.client.releases = s.client.releases
      /\ c.client.connectionId = s.client.connectionId
  BY DEF Counting, ClientFields
<1>4. /\ IsFiniteSet(U) /\ Cardinality(U) \in Nat
      /\ Cardinality(U) <= s.client.pendingPresentations
      /\ s.client.pendingPresentations \in Nat
  BY <1>1, UndrawnFinite DEF Accounts, ClientOK
<1>5. /\ c.client.pendingPresentations \in Nat
      /\ Cardinality(U) <= c.client.pendingPresentations
  BY <1>4 DEF Counting
<1>6. ASSUME IsOpen(c)
      PROVE  /\ \A t \in U : /\ c.canvas.entries[t].job.connection = c.client.connectionId
                             /\ MayConfirm(c, c.canvas.entries[t].job.delivery)
             /\ \A t, u \in U :
                    c.canvas.entries[t].job.delivery = c.canvas.entries[u].job.delivery => t = u
  <2>1. IsOpen(s) BY <1>2, <1>3, <1>6 DEF IsOpen
  <2>2. \A t \in U : /\ t \in DOMAIN s.canvas.entries
                     /\ s.canvas.entries[t].job \in Held(s, J)
                     /\ s.canvas.entries[t].job.tile = t
                     /\ s.canvas.entries[t].job.connection = s.client.connectionId
    BY <1>1 DEF UndrawnTiles, Unpresented, UndrawnJobs, Held, Placed
  <2>3. \A t \in U : MayConfirm(s, s.canvas.entries[t].job.delivery)
    BY <1>1, <2>1, <2>2 DEF Owned, Placed, MayConfirm
  <2>4. \A d : MayConfirm(s, d) => MayConfirm(c, d) BY <1>2, <1>3 DEF MayConfirm
  <2>5. \A t, u \in U :
            s.canvas.entries[t].job.delivery = s.canvas.entries[u].job.delivery => t = u
    BY <1>1, <2>2 DEF Placed
  <2> QED BY <1>2, <1>3, <2>2, <2>3, <2>4, <2>5
<1> QED BY <1>1, <1>2, <1>3, <1>4, <1>5, <1>6 DEF MayEnd, Counting, ClientOK

\* The canvas of r becomes v and its budget b.
WithCanvas(r, v, b) == [r EXCEPT !.canvas = v, !.budget = b]

LEMMA EndedChanges ==
    ASSUME NEW s, NEW n, n \in Nat, NEW c, Counting(s, c, n), NEW U, NEW r, Ended(c, r, U),
           NEW v, NEW b, NEW z, z = WithCanvas(r, v, b)
    PROVE  Changed(s, r, z, v, U, n) /\ z.budget = b /\ r.canvas = s.canvas /\ r.budget = c.budget
<1>1. /\ IsState(r) /\ IsClient(r.client)
      /\ \A f \in StateFields \ {"client", "ledger", "server"} : r[f] = c[f]
      /\ \A f \in ClientFields \ {"phase", "terminal", "releases", "pendingPresentations"} :
            r.client[f] = c.client[f]
  BY DEF Ended, SameElsewhere
<1>2. /\ IsState(z) /\ z.canvas = v /\ z.budget = b
      /\ \A f \in StateFields \ {"canvas", "budget"} : z[f] = r[f]
  BY <1>1 DEF WithCanvas, IsState, StateFields
<1>3. /\ c.ledger = s.ledger /\ c.server = s.server /\ c.canvas = s.canvas
      /\ c.sockets = s.sockets /\ c.worker = s.worker
      /\ c.client.terminal = s.client.terminal /\ c.client.releases = s.client.releases
      /\ c.client.connectionId = s.client.connectionId
  BY DEF Counting, StateFields, ClientFields
<1>4. /\ z.client = r.client /\ z.ledger = r.ledger /\ z.server = r.server
      /\ z.worker = s.worker /\ z.sockets = s.sockets
      /\ r.canvas = s.canvas /\ r.budget = c.budget
  BY <1>1, <1>2, <1>3 DEF StateFields
<1>5. \A f \in ClientFields \ {"phase", "terminal", "releases", "pendingPresentations"} :
            r.client[f] = s.client[f]
  BY <1>1 DEF Counting
<1>6. IsOpen(c) = IsOpen(s) /\ DeliveriesOf(c, U) = DeliveriesOf(s, U)
  BY <1>3 DEF IsOpen, DeliveriesOf
<1>7. Confirmed(s, r, DeliveriesOf(s, U), Cardinality(U)) BY <1>3, <1>6 DEF Ended, Confirmed
<1>8. U = {} => r.client.releases = s.client.releases /\ r.ledger = s.ledger /\ r.server = s.server
  BY <1>3 DEF Ended
<1>9. /\ r.client.terminal = s.client.terminal + Cardinality(U)
      /\ r.client.pendingPresentations = (s.client.pendingPresentations + n) - Cardinality(U)
      /\ r.client.phase \in Phases
  BY <1>3 DEF Ended, Counting
<1> QED BY <1>1, <1>2, <1>4, <1>5, <1>7, <1>8, <1>9 DEF Changed

\* All the server hears is that tiles it counts on are confirmed.
Hears(now, then) ==
    /\ then.copies = now.copies /\ then.asks = now.asks
    /\ then.acks = now.acks \/ (now.acks = 0 /\ then.acks = 1 /\ now.copies > now.asks)

Heard(s, z) ==
    /\ DOMAIN z.server.deliveries = DOMAIN s.server.deliveries
    /\ \A d \in DOMAIN s.server.deliveries :
        Hears(s.server.deliveries[d].receipt, z.server.deliveries[d].receipt)

LEMMA HeardTwice ==
    ASSUME NEW s, NEW q, NEW z, Heard(s, q), Heard(q, z)
    PROVE  Heard(s, z)
BY DEF Heard, Hears

LEMMA NothingHeard ==
    ASSUME NEW s, NEW z, z.server.deliveries = s.server.deliveries
    PROVE  Heard(s, z)
BY DEF Heard, Hears

LEMMA ConfirmedHeard ==
    ASSUME NEW s, NEW J, Typed(s), Owned(s, J), Agreed(s), NEW r, NEW n,
           NEW D, \A d \in D : \E j \in Held(s, J) : j.delivery = d,
           Confirmed(s, r, D, n)
    PROVE  Heard(s, r)
<1>1. CASE ~IsOpen(s) BY <1>1, NothingHeard DEF Confirmed
<1>2. CASE IsOpen(s)
  <2>1. r.server = Acked(s.server, D) BY <1>2 DEF Confirmed
  <2> DEFINE ds == s.server.deliveries
  <2>2. ds \in Seq(Sent) /\ ServerOK(s.server) BY DEF Typed, ServerOK
  <2>3. r.server.deliveries = AckedBy(ds, D) BY <2>1, <2>2, AckedOK
  <2>4. \A d \in D : /\ d \in DOMAIN s.ledger.active
                     /\ ~s.ledger.active[d].retryExpected
    BY <1>2 DEF Owned
  <2>5. ASSUME NEW d \in DOMAIN ds PROVE Hears(ds[d].receipt, AckedBy(ds, D)[d].receipt)
    <3>1. /\ ds[d] \in Sent /\ ds[d].receipt \in Counts
          /\ ds[d].receipt.copies \in Nat /\ ds[d].receipt.asks \in Nat
      <4>1. ds[d] \in Sent
        <5> HIDE DEF ds
        <5> QED BY <2>2
      <4> HIDE DEF ds
      <4> QED BY <4>1 DEF Sent, Counts
    <3>2. CASE d \notin D BY <3>2 DEF AckedBy, Hears
    <3>3. CASE d \in D
      <4>1. /\ ds[d].receipt.acks = 0 /\ ds[d].receipt.copies = ds[d].receipt.asks + 1
        BY <1>2, <2>4, <3>3 DEF Agreed
      <4>2. AckedBy(ds, D)[d] = [ds[d] EXCEPT !.receipt.acks = @ + 1] BY <3>3 DEF AckedBy
      <4> DEFINE then == AckedBy(ds, D)[d].receipt
      <4>3. then = [ds[d].receipt EXCEPT !.acks = 1]
        <5> HIDE DEF ds
        <5> QED BY <3>1, <4>1, <4>2 DEF Sent, Counts
      <4> HIDE DEF then, ds
      <4>4. then.copies = ds[d].receipt.copies /\ then.asks = ds[d].receipt.asks /\ then.acks = 1
        BY <3>1, <4>3 DEF Counts
      <4> QED BY <3>1, <4>1, <4>4 DEF Hears, then
    <3> QED BY <3>2, <3>3
  <2>6. DOMAIN AckedBy(ds, D) = DOMAIN ds BY DEF AckedBy
  <2> QED BY <2>3, <2>5, <2>6 DEF Heard
<1> QED BY <1>1, <1>2

LEMMA ChangedHeard ==
    ASSUME NEW s, NEW J, Typed(s), Owned(s, J), Agreed(s), NEW r, NEW z, NEW v,
           NEW U \in SUBSET UndrawnTiles(s), NEW n, Changed(s, r, z, v, U, n)
    PROVE  Heard(s, z)
<1>1. \A d \in DeliveriesOf(s, U) : \E j \in Held(s, J) : j.delivery = d
  BY DEF DeliveriesOf, Held, UndrawnJobs
<1>2. Confirmed(s, r, DeliveriesOf(s, U), Cardinality(U)) /\ z.server = r.server BY DEF Changed
<1>3. Heard(s, r) BY <1>1, <1>2, ConfirmedHeard
<1> QED BY <1>2, <1>3 DEF Heard

\* The fields of the client no callback of the canvas writes, and the others that last.
Kept(s, z) ==
    /\ \A f \in ClientFields \ {"phase", "terminal", "releases", "pendingPresentations"} :
            z.client[f] = s.client[f]
    /\ z.worker = s.worker /\ z.sockets = s.sockets
    /\ z.server.controls = s.server.controls /\ z.server.epoch = s.server.epoch
    /\ z.server.stage = s.server.stage
    /\ Heard(s, z)

\* The presentations of the tiles T end, and the canvas becomes v.
LEMMA RedrawnOK ==
    ASSUME NEW s, NEW J, Core(s, J), NEW T \in SUBSET DOMAIN s.canvas.entries, NEW v, NEW b,
           Redrawn(s, v, Unpresented(s.canvas, T), {}),
           KeepsBytes(b, v.entries, 0, 0), b.reservations = s.budget.reservations,
           b.transientBytes = s.budget.transientBytes,
           b.contextBytes <= s.budget.contextBytes, b.detailBytes <= s.budget.detailBytes,
           ~s.client.welcome => b = s.budget,
           NEW z, z = WithCanvas(EndPresentations(s, T), v, b)
    PROVE  /\ Core(z, J) /\ Kept(s, z) /\ z.canvas = v /\ z.budget = b
           /\ Settled(s) => Settled(z)
<1> DEFINE U == Unpresented(s.canvas, T)
           r == EndPresentations(s, T)
<1>1. /\ Typed(s) /\ Placed(s, J) /\ Budgets(s, J)
      /\ IsState(s) /\ IsClient(s.client) /\ ClientOK(s.client) /\ CanvasOK(s.canvas)
      /\ IsBudget(s.budget) /\ LedgerOK(s.ledger) /\ ServerOK(s.server)
  BY DEF Core, Typed, ClientOK
<1>2. U \in SUBSET UndrawnTiles(s) BY <1>1 DEF UndrawnTiles, Unpresented, CanvasOK
<1> DEFINE n == Cardinality({})
<1>3. n \in Nat /\ Counting(s, s, n)
  <2>1. n = 0 BY FS_EmptySet
  <2> HIDE DEF n
  <2> QED BY <1>1, <2>1 DEF Counting, ClientOK
<1> HIDE DEF n
<1>4. MayEnd(s, U) BY <1>2, <1>3, CoreMayEnd
<1>5. Ended(s, r, U) BY <1>4, EndPresentationsSays
<1>7. z = WithCanvas(r, v, b) OBVIOUS
<1> HIDE DEF r, U
<1>6. Changed(s, r, z, v, U, n) /\ z.budget = b BY <1>3, <1>5, <1>7, EndedChanges
<1>8. Changed(s, r, z, v, U, Cardinality({})) /\ Redrawn(s, v, U, {}) BY <1>6 DEF U, n
<1>9. Pending(z) = Pending(s) /\ z.canvas = v
  <2>1. Pending(z) = Pending(s) BY <1>6, ChangedFields
  <2> QED BY <1>6, <2>1 DEF Changed
<1>10. Budgets(z, J \ {})
  <2>1. /\ b.transientBytes \in Nat /\ b.contextBytes \in Nat /\ b.detailBytes \in Nat
        /\ b.contextBytes = KeptBytes(v.entries, "context") + 0
        /\ b.detailBytes = KeptBytes(v.entries, "detail") + 0
    BY DEF KeepsBytes, IsBudget
  <2>2. /\ KeptBytes(v.entries, "context") \in Nat /\ KeptBytes(v.entries, "detail") \in Nat
    BY KeptFinite DEF Redrawn, CanvasOK
  <2>3. s.budget.transientBytes \in Nat /\ s.budget.contextBytes \in Nat /\ s.budget.detailBytes \in Nat
    BY <1>1 DEF IsBudget
  <2>4. /\ s.budget.contextBytes + s.budget.transientBytes <= TransientBudgetBytes
        /\ s.budget.detailBytes <= DetailBudgetBytes
    BY <1>1 DEF Budgets
  <2>5. /\ b.contextBytes + b.transientBytes <= TransientBudgetBytes
        /\ b.detailBytes <= DetailBudgetBytes
    BY <2>1, <2>3, <2>4, BudgetAssumption DEF DetailBudgetBytes
  <2>6. b.transientBytes = ReservedBytes(b) BY <1>1 DEF Budgets, ReservedBytes
  <2>7. b.contextBytes = KeptBytes(v.entries, "context") /\ b.detailBytes = KeptBytes(v.entries, "detail")
    BY <2>1, <2>2
  <2> QED BY <1>1, <1>6, <1>9, <2>5, <2>6, <2>7 DEF Budgets
<1>11. IsBudget(z.budget) BY <1>6 DEF KeepsBytes
<1>12. Core(z, J \ {})
  <2>1. {} \in SUBSET J /\ (s.client.welcome \/ {} = {}) OBVIOUS
  <2>2. ~s.client.welcome => z.budget = s.budget BY <1>6
  <2> QED BY <1>2, <1>8, <1>10, <1>11, <2>1, <2>2, ChangedCore
<1>13. J \ {} = J OBVIOUS
<1>14. Kept(s, z)
  <2>1. /\ z.server.controls = s.server.controls /\ z.server.epoch = s.server.epoch
        /\ z.server.stage = s.server.stage
    BY <1>1, <1>6, ChangedServer
  <2>2. Heard(s, z) BY <1>2, <1>6, ChangedHeard DEF Core
  <2> QED BY <1>6, <2>1, <2>2 DEF Kept, Changed
<1>15. Settled(s) => Settled(z)
  <2>1. z.client = r.client BY <1>6 DEF Changed
  <2>2. Settled(s) => Settled(r) BY <1>5 DEF Ended
  <2> QED BY <2>1, <2>2 DEF Settled, Pending
<1> QED BY <1>6, <1>9, <1>12, <1>13, <1>14, <1>15

LEMMA CoreEnds ==
    ASSUME NEW s, NEW J, Core(s, J), NEW T \in SUBSET DOMAIN s.canvas.entries
    PROVE  LET r == EndPresentations(s, T)
           IN  IsState(r) /\ r.budget = s.budget /\ r.canvas = s.canvas
<1> DEFINE U == Unpresented(s.canvas, T)
           r == EndPresentations(s, T)
           n == Cardinality({})
<1>1. U \in SUBSET UndrawnTiles(s) BY DEF Core, Typed, UndrawnTiles, Unpresented, CanvasOK
<1>2. n \in Nat /\ Counting(s, s, n)
  <2>1. n = 0 BY FS_EmptySet
  <2> HIDE DEF n
  <2> QED BY <2>1 DEF Core, Typed, Counting, ClientOK
<1> HIDE DEF n
<1>3. MayEnd(s, U) BY <1>1, <1>2, CoreMayEnd
<1>4. Ended(s, r, U) BY <1>3, EndPresentationsSays
<1> QED BY <1>4 DEF Ended, SameElsewhere, StateFields

\* Tiles leave the canvas, and the others stay as they are.
LEMMA LeavingOK ==
    ASSUME NEW s, NEW J, Core(s, J), NEW T \in SUBSET DOMAIN s.canvas.entries, NEW v, CanvasOK(v),
           v.manifest \in {NoImage, s.canvas.manifest},
           DOMAIN v.entries = DOMAIN s.canvas.entries \ T,
           \A t \in DOMAIN v.entries : v.entries[t] = s.canvas.entries[t],
           Unpresented(v, Tiles) # {} => v.frame,
           NEW b, b = RemovedFromBudget(s.budget, s.canvas.entries, T),
           NEW z, z = WithCanvas(EndPresentations(s, T), v, b)
    PROVE  /\ Core(z, J) /\ Kept(s, z) /\ z.canvas = v
           /\ Settled(s) => Settled(z)
<1> DEFINE e == s.canvas.entries
           U == Unpresented(s.canvas, T)
           rest == Restrict(e, DOMAIN e \ T)
<1>1. /\ CanvasOK(s.canvas) /\ Budgets(s, J) /\ Quiet(s) /\ IsBudget(s.budget)
      /\ DOMAIN e \in SUBSET Tiles /\ IsFiniteSet(DOMAIN e) /\ e \in [DOMAIN e -> Entry]
  BY DEF Core, Typed, CanvasOK
<1>2. KeepsBytes(s.budget, e, 0, 0)
  <2>1. KeptBytes(e, "context") \in Nat /\ KeptBytes(e, "detail") \in Nat BY <1>1, KeptFinite
  <2>2. s.budget.contextBytes = KeptBytes(e, "context") /\ s.budget.detailBytes = KeptBytes(e, "detail")
    BY <1>1 DEF Budgets
  <2> QED BY <1>1, <2>1, <2>2 DEF KeepsBytes
<1>3. /\ KeepsBytes(b, rest, 0, 0)
      /\ b.reservations = s.budget.reservations /\ b.transientBytes = s.budget.transientBytes
      /\ b.contextBytes <= s.budget.contextBytes /\ b.detailBytes <= s.budget.detailBytes
      /\ T = {} => b = s.budget
  <2> DEFINE o == 0
  <2>1. o \in Nat /\ KeepsBytes(s.budget, s.canvas.entries, o, o) BY <1>2
  <2> HIDE DEF o
  <2> DEFINE before == s.budget
             q == RemovedFromBudget(before, e, T)
  <2>2. /\ IsBudget(before) /\ KeepsBytes(before, e, o, o) /\ T \in SUBSET DOMAIN e
        /\ q = b
    BY <1>1, <2>1
  <2> HIDE DEF e, before
  <2>3. /\ KeepsBytes(q, rest, o, o)
        /\ q.reservations = before.reservations /\ q.transientBytes = before.transientBytes
        /\ q.contextBytes <= before.contextBytes /\ q.detailBytes <= before.detailBytes
        /\ T = {} => q = before
    BY <1>1, <2>1, <2>2, RemovedFromBudgetOK
  <2> HIDE DEF q
  <2> QED BY <2>2, <2>3 DEF o, before
<1>4. KeepsBytes(b, v.entries, 0, 0)
  <2>1. \A k : KeptTiles(v.entries, k) = KeptTiles(rest, k) BY DEF KeptTiles, Restrict
  <2>2. \A k : KeptBytes(v.entries, k) = KeptBytes(rest, k) BY <2>1 DEF KeptBytes
  <2> QED BY <1>3, <2>2 DEF KeepsBytes
<1>5. ~s.client.welcome => b = s.budget BY <1>1, <1>3 DEF Quiet
<1>6. Redrawn(s, v, U, {})
  <2>1. Unpresented(v, Tiles) = (UndrawnTiles(s) \ U) \cup {x.tile : x \in {}}
    BY <1>1 DEF Unpresented, UndrawnTiles
  <2>2. \A t \in UndrawnTiles(s) \ U : v.entries[t].job = e[t].job BY DEF Unpresented, UndrawnTiles
  <2> QED BY <2>1, <2>2 DEF Redrawn
<1> HIDE DEF e, U, rest
<1> QED BY <1>3, <1>4, <1>5, <1>6, RedrawnOK DEF U

LEMMA EmptyCanvasOK ==
    ASSUME NEW frame \in BOOLEAN
    PROVE  /\ CanvasOK(EmptyCanvas(frame)) /\ DOMAIN EmptyCanvas(frame).entries = {}
           /\ EmptyCanvas(frame).manifest = NoImage /\ EmptyCanvas(frame).frame = frame
<1>1. DOMAIN <<>> = {} /\ IsFiniteSet({}) BY FS_EmptySet
<1> QED BY <1>1 DEF EmptyCanvas, CanvasOK

LEMMA CompositorResetOK ==
    ASSUME NEW s, NEW J, Core(s, J)
    PROVE  LET z == CompositorReset(s)
           IN  /\ Core(z, J) /\ Kept(s, z) /\ z.canvas = EmptyCanvas(FALSE)
               /\ Settled(s) => Settled(z)
<1> DEFINE T == DOMAIN s.canvas.entries
           r == EndPresentations(s, T)
           v == EmptyCanvas(FALSE)
           b == RemovedFromBudget(s.budget, s.canvas.entries, T)
           z == CompositorReset(s)
<1>1. IsState(r) /\ r.budget = s.budget BY CoreEnds
<1>2. z = WithCanvas(r, v, b)
  <2>1. z = [r EXCEPT !.canvas = v, !.budget = RemovedFromBudget(r.budget, s.canvas.entries, T)]
    BY DEF CompositorReset
  <2> QED BY <1>1, <2>1 DEF WithCanvas
<1>3. /\ CanvasOK(v) /\ DOMAIN v.entries = {} /\ v.manifest = NoImage BY EmptyCanvasOK
<1> HIDE DEF z, v, b
<1>4. /\ Unpresented(v, Tiles) = {} /\ T \in SUBSET DOMAIN s.canvas.entries
      /\ DOMAIN v.entries = DOMAIN s.canvas.entries \ T
  BY <1>3 DEF Unpresented
<1> HIDE DEF T
<1>5. b = RemovedFromBudget(s.budget, s.canvas.entries, T) BY DEF b
<1>6. /\ Core(z, J) /\ Kept(s, z) /\ z.canvas = v
      /\ Settled(s) => Settled(z)
  BY <1>2, <1>3, <1>4, <1>5, LeavingOK
<1> QED BY <1>6 DEF z, v

LEMMA BeginEpochOK ==
    ASSUME NEW v, CanvasOK(v), NEW epoch
    PROVE  LET w == BeginEpoch(v, epoch)
           IN  /\ CanvasOK(w) /\ DOMAIN w.entries = DOMAIN v.entries \ OfOldEpoch(v)
               /\ \A t \in DOMAIN w.entries : w.entries[t] = v.entries[t]
               /\ w.frame = TRUE /\ w.manifest = v.manifest
<1> DEFINE w == BeginEpoch(v, epoch)
           rest == Restrict(v.entries, DOMAIN v.entries \ OfOldEpoch(v))
<1>1. w = [manifest |-> v.manifest, currentEpoch |-> epoch, entries |-> rest, frame |-> TRUE]
  <2>1. v = [manifest |-> v.manifest, currentEpoch |-> v.currentEpoch, entries |-> v.entries,
             frame |-> v.frame]
    BY DEF CanvasOK
  <2>2. w = [[v EXCEPT !.currentEpoch = epoch, !.entries = rest] EXCEPT !.frame = TRUE]
    BY DEF BeginEpoch, SchedulePaint
  <2> HIDE DEF w, rest
  <2> QED BY <2>1, <2>2
<1>2. /\ DOMAIN rest = DOMAIN v.entries \ OfOldEpoch(v)
      /\ \A t \in DOMAIN rest : rest[t] = v.entries[t]
      /\ rest = [t \in DOMAIN rest |-> rest[t]]
  BY DEF Restrict
<1> HIDE DEF rest
<1>3. IsFiniteSet(DOMAIN rest) /\ DOMAIN rest \in SUBSET Tiles /\ rest \in [DOMAIN rest -> Entry]
  BY <1>2, FS_Subset DEF CanvasOK
<1> QED BY <1>1, <1>2, <1>3 DEF CanvasOK

LEMMA CompositorBeginEpochOK ==
    ASSUME NEW s, NEW J, Core(s, J), NEW epoch
    PROVE  LET z == CompositorBeginEpoch(s, epoch)
           IN  Core(z, J) /\ Kept(s, z) /\ z.canvas = BeginEpoch(s.canvas, epoch)
<1> DEFINE T == OfOldEpoch(s.canvas)
           r == EndPresentations(s, T)
           v == BeginEpoch(s.canvas, epoch)
           b == RemovedFromBudget(s.budget, s.canvas.entries, T)
           z == CompositorBeginEpoch(s, epoch)
<1>1. T \in SUBSET DOMAIN s.canvas.entries BY DEF OfOldEpoch
<1> HIDE DEF T
<1>2. IsState(r) /\ r.budget = s.budget /\ r.canvas = s.canvas BY <1>1, CoreEnds
<1>3. z = WithCanvas(r, v, b)
  <2>1. z = [r EXCEPT !.canvas = BeginEpoch(r.canvas, epoch),
                      !.budget = RemovedFromBudget(r.budget, s.canvas.entries, T)]
    BY DEF CompositorBeginEpoch, T
  <2> QED BY <1>2, <2>1 DEF WithCanvas
<1>4. /\ CanvasOK(v) /\ DOMAIN v.entries = DOMAIN s.canvas.entries \ T
      /\ \A t \in DOMAIN v.entries : v.entries[t] = s.canvas.entries[t]
      /\ v.frame = TRUE /\ v.manifest = s.canvas.manifest
  BY BeginEpochOK DEF Core, Typed, T
<1> HIDE DEF z, v, b
<1> QED BY <1>1, <1>3, <1>4, LeavingOK DEF z, v, b

LEMMA PaintAllOK ==
    ASSUME NEW v, CanvasOK(v)
    PROVE  LET w == PaintAll(v)
           IN  /\ CanvasOK(w) /\ DOMAIN w.entries = DOMAIN v.entries
               /\ \A t \in DOMAIN w.entries : /\ w.entries[t].job = v.entries[t].job
                                              /\ w.entries[t].kind = v.entries[t].kind
                                              /\ w.entries[t].presented
               /\ w.manifest = v.manifest
<1> DEFINE w == PaintAll(v)
           drawn == [t \in DOMAIN v.entries |-> [v.entries[t] EXCEPT !.presented = TRUE]]
<1>1. w = [manifest |-> v.manifest, currentEpoch |-> v.currentEpoch, entries |-> drawn, frame |-> FALSE]
  <2>1. v = [manifest |-> v.manifest, currentEpoch |-> v.currentEpoch, entries |-> v.entries,
             frame |-> v.frame]
    BY DEF CanvasOK
  <2>2. w = [v EXCEPT !.frame = FALSE, !.entries = drawn] BY DEF PaintAll
  <2> HIDE DEF w, drawn
  <2> QED BY <2>1, <2>2
<1>2. \A t \in DOMAIN v.entries : /\ drawn[t] \in Entry /\ drawn[t].job = v.entries[t].job
                                  /\ drawn[t].kind = v.entries[t].kind /\ drawn[t].presented
  <2> SUFFICES ASSUME NEW t \in DOMAIN v.entries
               PROVE  /\ drawn[t] \in Entry /\ drawn[t].job = v.entries[t].job
                      /\ drawn[t].kind = v.entries[t].kind /\ drawn[t].presented
    OBVIOUS
  <2>1. v.entries[t] \in Entry BY DEF CanvasOK
  <2> QED BY <2>1 DEF Entry
<1>3. DOMAIN drawn = DOMAIN v.entries /\ drawn \in [DOMAIN v.entries -> Entry] BY <1>2
<1> HIDE DEF drawn
<1> QED BY <1>1, <1>2, <1>3 DEF CanvasOK

LEMMA PaintOK ==
    ASSUME NEW s, NEW J, Core(s, J)
    PROVE  LET z == [EndPresentations(s, DOMAIN s.canvas.entries) EXCEPT !.canvas = PaintAll(@)]
           IN  /\ Core(z, J) /\ Kept(s, z) /\ z.canvas = PaintAll(s.canvas)
               /\ Settled(s) => Settled(z)
<1> DEFINE T == DOMAIN s.canvas.entries
           U == Unpresented(s.canvas, T)
           r == EndPresentations(s, T)
           v == PaintAll(s.canvas)
           z == [r EXCEPT !.canvas = PaintAll(@)]
<1>1. IsState(r) /\ r.budget = s.budget /\ r.canvas = s.canvas BY CoreEnds
<1>2. z = WithCanvas(r, v, s.budget)
  <2>1. z = [r EXCEPT !.canvas = v] BY <1>1
  <2> HIDE DEF v, r
  <2> QED BY <1>1, <2>1 DEF WithCanvas, IsState, StateFields
<1>3. /\ CanvasOK(s.canvas) /\ Budgets(s, J) /\ IsBudget(s.budget) BY DEF Core, Typed
<1>4. /\ CanvasOK(v) /\ DOMAIN v.entries = T /\ v.manifest = s.canvas.manifest
      /\ \A t \in T : /\ v.entries[t].job = s.canvas.entries[t].job
                      /\ v.entries[t].kind = s.canvas.entries[t].kind
                      /\ v.entries[t].presented
  BY <1>3, PaintAllOK
<1> HIDE DEF z, v
<1>5. Redrawn(s, v, U, {})
  <2>1. Unpresented(v, Tiles) = {} /\ UndrawnTiles(s) \ U = {} BY <1>4 DEF Unpresented, UndrawnTiles
  <2> QED BY <1>4, <2>1 DEF Redrawn
<1>6. KeepsBytes(s.budget, v.entries, 0, 0)
  <2>1. \A k : KeptTiles(v.entries, k) = KeptTiles(s.canvas.entries, k) BY <1>4 DEF KeptTiles
  <2>2. \A k : KeptBytes(v.entries, k) = KeptBytes(s.canvas.entries, k) BY <2>1 DEF KeptBytes
  <2>3. s.budget.contextBytes \in Nat /\ s.budget.detailBytes \in Nat BY <1>3 DEF IsBudget
  <2>4. /\ s.budget.contextBytes = KeptBytes(v.entries, "context")
        /\ s.budget.detailBytes = KeptBytes(v.entries, "detail")
    BY <1>3, <2>2 DEF Budgets
  <2> QED BY <1>3, <2>3, <2>4 DEF KeepsBytes
<1>7. s.budget.contextBytes <= s.budget.contextBytes /\ s.budget.detailBytes <= s.budget.detailBytes
  BY <1>3 DEF IsBudget
<1>8. T \in SUBSET DOMAIN s.canvas.entries OBVIOUS
<1> HIDE DEF U, T
<1>9. Redrawn(s, v, Unpresented(s.canvas, T), {}) BY <1>5 DEF U
<1>10. /\ Core(z, J) /\ Kept(s, z) /\ z.canvas = v
       /\ Settled(s) => Settled(z)
  BY <1>2, <1>6, <1>7, <1>8, <1>9, RedrawnOK
<1> QED BY <1>10 DEF z, v, r, T

--------------------------------------------------------------------------------
\* Changes that leave the tiles alone

Tiled(s, J) ==
    Placed(s, J) /\ AtWork(s, J) /\ Owned(s, J) /\ Agreed(s) /\ Accounts(s, J) /\ Budgets(s, J)

SameTiles(s, z) ==
    /\ z.client.connectionId = s.client.connectionId /\ z.client.pending = s.client.pending
    /\ z.client.received = s.client.received /\ z.client.terminal = s.client.terminal
    /\ z.client.releases = s.client.releases
    /\ z.client.pendingPresentations = s.client.pendingPresentations
    /\ z.client.welcome => s.client.welcome
    /\ z.canvas = s.canvas /\ z.ledger = s.ledger /\ z.budget = s.budget
    /\ z.server.deliveries = s.server.deliveries
    /\ JobsOf(z.worker) = JobsOf(s.worker)
    /\ IsOpen(z) => IsOpen(s)

\* What the ledger and the server agree on is about nothing else.
LEMMA AgreedSame ==
    ASSUME NEW s, Agreed(s), NEW z, z.ledger = s.ledger,
           z.server.deliveries = s.server.deliveries, IsOpen(z) => IsOpen(s)
    PROVE  Agreed(z)
BY ZenonT(60) DEF Agreed

LEMMA OwnedSame ==
    ASSUME NEW s, NEW J, Owned(s, J), NEW z, NEW K, Held(z, K) = Held(s, J), z.ledger = s.ledger,
           z.client.connectionId = s.client.connectionId, IsOpen(z) => IsOpen(s)
    PROVE  Owned(z, K)
BY SMTT(30), ZenonT(60) DEF Owned

LEMMA SameTilesOK ==
    ASSUME NEW s, NEW z, NEW J, Tiled(s, J), SameTiles(s, z)
    PROVE  Tiled(z, J)
<1>1. /\ Pending(z) = Pending(s) /\ UndrawnTiles(z) = UndrawnTiles(s)
      /\ UndrawnJobs(z) = UndrawnJobs(s) /\ Held(z, J) = Held(s, J)
  BY DEF SameTiles, Pending, UndrawnTiles, UndrawnJobs, Held
<1>2. Placed(z, J) BY <1>1 DEF Placed, SameTiles, Tiled
<1>3. AtWork(z, J) BY <1>1 DEF AtWork, SameTiles, Tiled
<1>4. Owned(z, J) BY <1>1 DEF Owned, SameTiles, Tiled
<1>5. Agreed(z) BY <1>1, AgreedSame DEF SameTiles, Tiled
<1>6. Accounts(z, J) BY <1>1 DEF Accounts, SameTiles, Tiled
<1>7. Budgets(z, J) BY <1>1 DEF Budgets, SameTiles, Tiled
<1> QED BY <1>2, <1>3, <1>4, <1>5, <1>6, <1>7 DEF Tiled

\* All but what the last control was about.
Base(s, J) ==
    Typed(s) /\ Tiled(s, J) /\ Spoken(s) /\ Known(s) /\ Quiet(s) /\ Sockets(s)

LEMMA CoreIsBase ==
    ASSUME NEW s, NEW J
    PROVE  Core(s, J) <=> Base(s, J) /\ Asked(s)
BY DEF Core, Base, Tiled

\* z is s but for the fields F, and the fields G of the client.
Differs(s, z, F, G) ==
    /\ IsState(z) /\ IsClient(z.client)
    /\ \A f \in StateFields \ F : z[f] = s[f]
    /\ \A f \in ClientFields \ G : z.client[f] = s.client[f]

Words == {"phase", "error", "plan", "serverDone", "viewport"}

LEMMA WordsOK ==
    ASSUME NEW s, NEW J, Base(s, J), NEW z, Differs(s, z, {"client"}, Words),
           z.client.phase \in Phases, z.client.error \in Errors, z.client.plan \in {NoPlan, 0, 1}
    PROVE  Base(z, J) /\ (Asked(s) => Asked(z))
<1>1. /\ IsState(z) /\ IsClient(z.client)
      /\ z.ledger = s.ledger /\ z.budget = s.budget /\ z.canvas = s.canvas /\ z.worker = s.worker
      /\ z.sockets = s.sockets /\ z.server = s.server
  BY DEF Differs, StateFields
<1>2. /\ z.client.connectionId = s.client.connectionId /\ z.client.epoch = s.client.epoch
      /\ z.client.selected = s.client.selected /\ z.client.manifest = s.client.manifest
      /\ z.client.manifestHistory = s.client.manifestHistory
      /\ z.client.welcome = s.client.welcome /\ z.client.pending = s.client.pending
      /\ z.client.received = s.client.received /\ z.client.terminal = s.client.terminal
      /\ z.client.releases = s.client.releases
      /\ z.client.pendingPresentations = s.client.pendingPresentations
  BY DEF Differs, ClientFields, Words
<1>3. IsOpen(z) = IsOpen(s) /\ IsLive(z) = IsLive(s) /\ Pending(z) = Pending(s)
      /\ EpochsExhausted(z) = EpochsExhausted(s)
  BY <1>1, <1>2 DEF IsOpen, IsLive, Pending, EpochsExhausted
<1>4. Tiled(z, J) BY <1>1, <1>2, <1>3, SameTilesOK DEF SameTiles, Base
<1>5. ClientOK(z.client) BY <1>1, <1>2 DEF Base, Typed, ClientOK
<1>6. Typed(z) BY <1>1, <1>5 DEF Base, Typed
<1>7. Spoken(z) /\ Known(z) BY <1>1, <1>2 DEF Base, Spoken, Known
<1>8. Quiet(z) /\ Sockets(z) BY <1>1, <1>2, <1>3 DEF Base, Quiet, Sockets
<1>9. Asked(s) => Asked(z) BY <1>1, <1>2, <1>3 DEF Asked
<1> QED BY <1>4, <1>6, <1>7, <1>8, <1>9 DEF Base

LEMMA FailOK ==
    ASSUME NEW s, NEW J, Base(s, J), NEW error \in Errors
    PROVE  LET z == Fail(s, error)
           IN  /\ Base(z, J) /\ (Asked(s) => Asked(z))
               /\ Differs(s, z, {"client"}, Words) /\ z.client.error = error
               /\ z.client.phase = "error" /\ z.client.viewport = s.client.viewport
               /\ Settled(z)
<1> DEFINE z == Fail(s, error)
<1>1. /\ IsState(s) /\ IsClient(s.client) /\ ClientOK(s.client) BY DEF Base, Typed, ClientOK
<1>2. z = [s EXCEPT !.client = [s.client EXCEPT !.error = error, !.phase = "error"]]
  BY <1>1 DEF Fail, IsState, IsClient, StateFields, ClientFields
<1> HIDE DEF z
<1>3. /\ IsState(z) /\ z.client = [s.client EXCEPT !.error = error, !.phase = "error"]
      /\ \A f \in StateFields \ {"client"} : z[f] = s[f]
  BY <1>1, <1>2 DEF IsState, StateFields
<1>4. /\ IsClient(z.client) /\ z.client.error = error /\ z.client.phase = "error"
      /\ z.client.viewport = s.client.viewport /\ z.client.plan = s.client.plan
      /\ \A f \in ClientFields \ {"error", "phase"} : z.client[f] = s.client[f]
  BY <1>1, <1>3 DEF IsClient, ClientFields
<1>5. Differs(s, z, {"client"}, Words) BY <1>3, <1>4 DEF Differs, Words
<1>6. z.client.phase \in Phases /\ z.client.plan \in {NoPlan, 0, 1} /\ Settled(z)
  BY <1>1, <1>4 DEF Phases, ClientOK, Settled
<1> QED BY <1>4, <1>5, <1>6, WordsOK DEF z

\* Sockets close.
LEMMA SocketsOK ==
    ASSUME NEW s, NEW J, Base(s, J), NEW z, Differs(s, z, {"sockets"}, {}),
           z.sockets \in [Connections -> SocketStates], Sockets(z), IsLive(z) => IsLive(s),
           IsOpen(z) => IsOpen(s)
    PROVE  Base(z, J) /\ (Asked(s) => Asked(z))
<1>1. /\ IsState(z)
      /\ z.ledger = s.ledger /\ z.budget = s.budget /\ z.canvas = s.canvas /\ z.worker = s.worker
      /\ z.client = s.client /\ z.server = s.server
  BY DEF Differs, StateFields
<1>2. Tiled(z, J) BY <1>1, SameTilesOK DEF SameTiles, Base
<1>3. Typed(z) BY <1>1 DEF Base, Typed
<1>4. Spoken(z) /\ Known(z) BY <1>1 DEF Base, Spoken, Known
<1>5. Quiet(z) /\ (Asked(s) => Asked(z)) BY <1>1 DEF Base, Quiet, Asked, Pending, EpochsExhausted
<1> QED BY <1>2, <1>3, <1>4, <1>5 DEF Base

LEMMA CloseTransportOK ==
    ASSUME NEW s, NEW J, Base(s, J)
    PROVE  LET z == CloseTransport(s)
           IN  /\ Base(z, J) /\ Asked(z) /\ Differs(s, z, {"sockets"}, {})
               /\ ~IsLive(z) /\ ~IsOpen(z)
               /\ \A c \in Connections : c # s.client.connectionId => z.sockets[c] = s.sockets[c]
               /\ z.sockets \in [Connections -> SocketStates]
<1> DEFINE z == CloseTransport(s)
           c == s.client.connectionId
           state == IF s.sockets[c] \in {"connecting", "open"} THEN "closing" ELSE s.sockets[c]
           ws == [s.sockets EXCEPT ![c] = state]
<1>1. /\ IsState(s) /\ IsClient(s.client) /\ s.sockets \in [Connections -> SocketStates]
      /\ c \in Connections /\ Sockets(s)
  BY DEF Base, Typed, ClientOK
<1>2. z = [s EXCEPT !.sockets = ws] BY <1>1 DEF CloseTransport
<1> HIDE DEF ws, z
<1>3. /\ IsState(z) /\ z.sockets = ws /\ \A f \in StateFields \ {"sockets"} : z[f] = s[f]
  BY <1>1, <1>2 DEF IsState, StateFields
<1>4. z.client = s.client BY <1>3 DEF StateFields
<1>5. Differs(s, z, {"sockets"}, {}) BY <1>1, <1>3, <1>4 DEF Differs
<1>6. /\ ws \in [Connections -> SocketStates] /\ ws[c] \notin {"connecting", "open"}
      /\ \A k \in Connections : k # c => ws[k] = s.sockets[k]
      /\ s.sockets[c] = "none" => ws[c] = "none"
  BY <1>1 DEF ws, SocketStates
<1>7. ~IsLive(z) /\ ~IsOpen(z) BY <1>3, <1>4, <1>6 DEF IsLive, IsOpen
<1>8. Sockets(z)
  <2>1. 0 \in Connections BY ClientAssumption DEF Connections
  <2>2. z.sockets[0] = "none" BY <1>1, <1>3, <1>6, <2>1 DEF Sockets
  <2>3. \A k \in Connections : k > c => k # c BY <1>1 DEF Connections
  <2> QED BY <1>1, <1>3, <1>4, <1>6, <2>2, <2>3 DEF Sockets
<1>9. Base(z, J) BY <1>3, <1>5, <1>6, <1>7, <1>8, SocketsOK
<1> QED BY <1>3, <1>5, <1>6, <1>7, <1>9 DEF Asked, z

LEMMA ProtocolViolationOK ==
    ASSUME NEW s, NEW J, Base(s, J)
    PROVE  LET z == ProtocolViolation(s)
           IN  /\ Base(z, J) /\ Asked(z) /\ Settled(z)
               /\ z.canvas = s.canvas /\ z.client.connectionId = s.client.connectionId
               /\ z.client.manifest = s.client.manifest /\ z.client.epoch = s.client.epoch
               /\ z.client.viewport = s.client.viewport
<1> DEFINE q == CloseTransport(s)
           z == ProtocolViolation(s)
<1>1. /\ Base(q, J) /\ Asked(q) /\ Differs(s, q, {"sockets"}, {}) BY CloseTransportOK
<1>2. z = Fail(q, "violation") BY DEF ProtocolViolation
<1> HIDE DEF q, z
<1>3. /\ Base(z, J) /\ Asked(z) /\ Differs(q, z, {"client"}, Words)
      /\ z.client.viewport = q.client.viewport /\ Settled(z)
  BY <1>1, <1>2, FailOK DEF Errors
<1> QED BY <1>1, <1>3 DEF Differs, StateFields, ClientFields, Words, z

--------------------------------------------------------------------------------
\* Images, frames, answers of the server, epochs

\* From s to z the server hears no more than confirmations, and is not accused.
Follows(s, z) ==
    /\ z.client.error = "violation" => s.client.error = "violation"
    /\ Heard(s, z)

LEMMA FollowsTwice ==
    ASSUME NEW s, NEW q, NEW z, Follows(s, q), Follows(q, z)
    PROVE  Follows(s, z)
BY HeardTwice DEF Follows

LEMMA KeptFollows ==
    ASSUME NEW s, NEW z, Kept(s, z)
    PROVE  Follows(s, z)
BY DEF Kept, Follows, ClientFields

LEMMA SilentFollows ==
    ASSUME NEW s, NEW z, z.server.deliveries = s.server.deliveries,
           z.client.error = s.client.error \/ z.client.error # "violation"
    PROVE  Follows(s, z)
BY NothingHeard DEF Follows

\* The image changes, or the selection.
ImageWords == Words \cup {"manifest", "manifestHistory", "selected"}

LEMMA ImageOK ==
    ASSUME NEW s, NEW J, Base(s, J), NEW z, Differs(s, z, {"client"}, ImageWords),
           z.client.phase \in Phases, z.client.error \in Errors, z.client.plan \in {NoPlan, 0, 1},
           z.client.selected \in Images \cup {NoImage}, z.client.manifest \in Images \cup {NoImage},
           z.client.manifestHistory \in Seq(Images),
           s.client.welcome \/ z.client.manifest = NoImage, Known(z)
    PROVE  Base(z, J)
<1>1. /\ IsState(z) /\ IsClient(z.client)
      /\ z.ledger = s.ledger /\ z.budget = s.budget /\ z.canvas = s.canvas /\ z.worker = s.worker
      /\ z.sockets = s.sockets /\ z.server = s.server
  BY DEF Differs, StateFields
<1>2. /\ z.client.connectionId = s.client.connectionId /\ z.client.epoch = s.client.epoch
      /\ z.client.welcome = s.client.welcome /\ z.client.pending = s.client.pending
      /\ z.client.received = s.client.received /\ z.client.terminal = s.client.terminal
      /\ z.client.releases = s.client.releases
      /\ z.client.pendingPresentations = s.client.pendingPresentations
  BY DEF Differs, ClientFields, Words, ImageWords
<1>3. IsOpen(z) = IsOpen(s) /\ IsLive(z) = IsLive(s) /\ Pending(z) = Pending(s)
  BY <1>1, <1>2 DEF IsOpen, IsLive, Pending
<1>4. Tiled(z, J) BY <1>1, <1>2, <1>3, SameTilesOK DEF SameTiles, Base
<1>5. ClientOK(z.client) BY <1>1, <1>2 DEF Base, Typed, ClientOK
<1>6. Typed(z) BY <1>1, <1>5 DEF Base, Typed
<1>7. Spoken(z) BY <1>1, <1>2 DEF Base, Spoken
<1>8. Quiet(z) /\ Sockets(z) BY <1>1, <1>2, <1>3 DEF Base, Quiet, Sockets
<1> QED BY <1>4, <1>6, <1>7, <1>8 DEF Base

\* A frame is requested, and an empty canvas may take an image.
LEMMA FrameOK ==
    ASSUME NEW s, NEW J, Core(s, J), NEW z, Differs(s, z, {"canvas"}, {}),
           CanvasOK(z.canvas), z.canvas.frame = TRUE, z.canvas.entries = s.canvas.entries,
           s.client.welcome \/ z.canvas.manifest = NoImage
    PROVE  Core(z, J)
<1>1. /\ IsState(z) /\ IsClient(z.client) /\ z.client = s.client
      /\ z.ledger = s.ledger /\ z.budget = s.budget /\ z.worker = s.worker
      /\ z.sockets = s.sockets /\ z.server = s.server
  BY DEF Differs, StateFields
<1>2. /\ Pending(z) = Pending(s) /\ UndrawnTiles(z) = UndrawnTiles(s)
      /\ UndrawnJobs(z) = UndrawnJobs(s) /\ Held(z, J) = Held(s, J)
      /\ IsOpen(z) = IsOpen(s) /\ IsLive(z) = IsLive(s) /\ EpochsExhausted(z) = EpochsExhausted(s)
  BY <1>1 DEF Pending, UndrawnTiles, UndrawnJobs, Held, Unpresented, IsOpen, IsLive, EpochsExhausted
<1>3. Placed(z, J) BY <1>1, <1>2 DEF Placed, Core
<1>4. AtWork(z, J) BY <1>1, <1>2 DEF AtWork, Core
<1>5. Owned(z, J) BY <1>1, <1>2 DEF Owned, Core
<1>6. Agreed(z) BY <1>1, <1>2, AgreedSame DEF Core
<1>7. Accounts(z, J) BY <1>1, <1>2 DEF Accounts, Core
<1>8. Budgets(z, J) BY <1>1, <1>2 DEF Budgets, Core
<1>9. Typed(z) BY <1>1 DEF Typed, Core
<1>10. Spoken(z) /\ Known(z) /\ Asked(z) BY <1>1, <1>2 DEF Spoken, Known, Asked, Core
<1>11. Quiet(z) /\ Sockets(z) BY <1>1, <1>2 DEF Quiet, Sockets, Core
<1> QED BY <1>3, <1>4, <1>5, <1>6, <1>7, <1>8, <1>9, <1>10, <1>11 DEF Core

\* The server takes a control, or ends what it does.
LEMMA StageOK ==
    ASSUME NEW s, NEW J, Core(s, J), NEW z, Differs(s, z, {"server"}, {}), ServerOK(z.server),
           z.server.controls = s.server.controls, z.server.deliveries = s.server.deliveries,
           Spoken(z), Known(z)
    PROVE  Core(z, J)
<1>1. /\ IsState(z) /\ IsClient(z.client) /\ z.client = s.client
      /\ z.ledger = s.ledger /\ z.budget = s.budget /\ z.worker = s.worker
      /\ z.sockets = s.sockets /\ z.canvas = s.canvas
  BY DEF Differs, StateFields
<1>2. Pending(z) = Pending(s) /\ IsOpen(z) = IsOpen(s) /\ IsLive(z) = IsLive(s)
      /\ EpochsExhausted(z) = EpochsExhausted(s)
  BY <1>1 DEF Pending, IsOpen, IsLive, EpochsExhausted
<1>3. Tiled(z, J) BY <1>1, <1>2, SameTilesOK, CoreIsBase DEF SameTiles, Base
<1>4. Typed(z) BY <1>1 DEF Typed, Core
<1>5. Asked(z) BY <1>1, <1>2 DEF Asked, Core
<1>6. Quiet(z) /\ Sockets(z) BY <1>1, <1>2 DEF Quiet, Sockets, Core
<1> QED BY <1>3, <1>4, <1>5, <1>6, CoreIsBase DEF Base

\* What NewEpoch writes.
LEMMA NewEpochSays ==
    ASSUME NEW s, Typed(s), NEW type, NEW image
    PROVE  LET z == NewEpoch(s, type, image)
           IN  /\ Differs(s, z, {"client", "worker", "server"}, {"epoch", "plan", "serverDone", "error"})
               /\ z.client.epoch = s.client.epoch + 1 /\ z.client.plan = NoPlan
               /\ z.client.error = "none"
               /\ z.worker = Invalidate(s.worker, s.client.connectionId, s.client.epoch + 1)
               /\ z.server = [s.server EXCEPT
                                !.controls = Append(s.server.controls, [type |-> type, image |-> image])]
<1> DEFINE z == NewEpoch(s, type, image)
           c == [s.client EXCEPT !.epoch = s.client.epoch + 1, !.plan = NoPlan, !.serverDone = FALSE,
                                 !.error = "none"]
           w == Invalidate(s.worker, s.client.connectionId, s.client.epoch + 1)
           e == [s.server EXCEPT !.controls = Append(s.server.controls, [type |-> type, image |-> image])]
<1>1. IsState(s) /\ IsClient(s.client) BY DEF Typed, ClientOK
<1>2. z = [s EXCEPT !.client = c, !.worker = w, !.server = e]
  BY <1>1 DEF NewEpoch, IsState, StateFields
<1> HIDE DEF z, w, e, c
<1>3. /\ IsState(z) /\ z.client = c /\ z.worker = w /\ z.server = e
      /\ \A f \in StateFields \ {"client", "worker", "server"} : z[f] = s[f]
  BY <1>1, <1>2 DEF IsState, StateFields
<1>4. /\ IsClient(c) /\ c.epoch = s.client.epoch + 1 /\ c.plan = NoPlan /\ c.error = "none"
      /\ \A f \in ClientFields \ {"epoch", "plan", "serverDone", "error"} : c[f] = s.client[f]
  BY <1>1 DEF IsClient, ClientFields, c
<1> QED BY <1>3, <1>4 DEF Differs, z, w, e

LEMMA NewEpochOK ==
    ASSUME NEW s, NEW J, Base(s, J), s.client.welcome, ~EpochsExhausted(s), NEW type, NEW image,
           \/ type = "VIEW" /\ image = s.client.manifest /\ image \in Images
           \/ type = "OPEN" /\ image = s.client.selected /\ image \in Images
    PROVE  LET z == NewEpoch(s, type, image)
           IN  /\ Core(z, J)
               /\ Differs(s, z, {"client", "worker", "server"}, {"epoch", "plan", "serverDone", "error"})
               /\ z.server.controls # <<>> /\ LastOf(z.server.controls) = [type |-> type, image |-> image]
               /\ Follows(s, z)
<1> DEFINE z == NewEpoch(s, type, image)
           control == [type |-> type, image |-> image]
           now == s.client.epoch + 1
<1>1. /\ Differs(s, z, {"client", "worker", "server"}, {"epoch", "plan", "serverDone", "error"})
      /\ z.client.epoch = now /\ z.client.plan = NoPlan /\ z.client.error = "none"
      /\ z.worker = Invalidate(s.worker, s.client.connectionId, now)
      /\ z.server = [s.server EXCEPT !.controls = Append(s.server.controls, control)]
  BY NewEpochSays DEF Base
<1> HIDE DEF z
<1>2. /\ IsState(z) /\ IsClient(z.client)
      /\ z.ledger = s.ledger /\ z.budget = s.budget /\ z.canvas = s.canvas /\ z.sockets = s.sockets
  BY <1>1 DEF Differs, StateFields
<1>3. /\ z.client.connectionId = s.client.connectionId /\ z.client.selected = s.client.selected
      /\ z.client.manifest = s.client.manifest /\ z.client.manifestHistory = s.client.manifestHistory
      /\ z.client.welcome = s.client.welcome /\ z.client.viewport = s.client.viewport
      /\ z.client.pending = s.client.pending /\ z.client.phase = s.client.phase
      /\ z.client.received = s.client.received /\ z.client.terminal = s.client.terminal
      /\ z.client.releases = s.client.releases
      /\ z.client.pendingPresentations = s.client.pendingPresentations
  BY <1>1 DEF Differs, ClientFields
<1>4. /\ s.server = [stage |-> s.server.stage, epoch |-> s.server.epoch,
                     controls |-> s.server.controls, deliveries |-> s.server.deliveries]
      /\ s.server.controls \in Seq(Control) /\ ServerOK(s.server)
      /\ s.client.epoch \in 0..MaxEpoch /\ WorkerOK(s.worker)
  BY DEF Base, Typed, ServerOK, ClientOK
<1>5. z.server = [stage |-> s.server.stage, epoch |-> s.server.epoch,
                  controls |-> Append(s.server.controls, control),
                  deliveries |-> s.server.deliveries]
  <2> HIDE DEF control
  <2> QED BY <1>1, <1>4
<1>6. control \in Control /\ control.type = type /\ control.image = image BY DEF Control
<1> HIDE DEF control
<1>7. /\ z.server.stage = s.server.stage /\ z.server.epoch = s.server.epoch
      /\ z.server.deliveries = s.server.deliveries
      /\ z.server.controls = Append(s.server.controls, control)
  BY <1>5
<1>8. /\ z.server.controls \in Seq(Control) /\ Len(s.server.controls) \in Nat
      /\ Len(z.server.controls) = Len(s.server.controls) + 1
      /\ z.server.controls[Len(s.server.controls) + 1] = control
      /\ \A i \in 1..Len(s.server.controls) : z.server.controls[i] = s.server.controls[i]
      /\ DOMAIN s.server.controls = 1..Len(s.server.controls)
      /\ DOMAIN z.server.controls = 1..Len(z.server.controls)
  BY <1>4, <1>6, <1>7, AppendProperties
<1>9. z.server.controls # <<>> /\ LastOf(z.server.controls) = control BY <1>8 DEF LastOf
<1>10. now \in 0..MaxEpoch /\ now \in Nat BY <1>4, ClientAssumption DEF EpochsExhausted
<1> HIDE DEF now
<1>11. WorkerOK(z.worker) /\ JobsOf(z.worker) = JobsOf(s.worker) BY <1>1, <1>4, InvalidateOK
<1>12. IsOpen(z) = IsOpen(s) /\ IsLive(z) = IsLive(s) /\ Pending(z) = Pending(s)
  BY <1>2, <1>3 DEF IsOpen, IsLive, Pending
<1>13. Tiled(z, J) BY <1>2, <1>3, <1>7, <1>11, <1>12, SameTilesOK DEF SameTiles, Base
<1>14. ServerOK(z.server) BY <1>4, <1>5, <1>7, <1>8 DEF ServerOK
<1>15. ClientOK(z.client)
  <2>1. ClientOK(s.client) BY DEF Base, Typed
  <2> QED BY <1>1, <1>2, <1>3, <1>10, <2>1 DEF ClientOK, Errors
<1>16. Typed(z) BY <1>2, <1>11, <1>14, <1>15 DEF Base, Typed
<1>17. Spoken(z)
  <2>1. Spoken(s) BY DEF Base
  <2>2. Len(z.server.controls) = z.client.epoch /\ z.server.epoch <= z.client.epoch
    BY <1>1, <1>4, <1>7, <1>8, <2>1 DEF Spoken, now, ServerOK
  <2>3. s.server.epoch # 0 => s.server.epoch \in 1..Len(s.server.controls)
    BY <1>4, <2>1 DEF Spoken, ServerOK
  <2> QED BY <1>7, <1>8, <2>1, <2>2, <2>3 DEF Spoken
<1>18. Known(z)
  <2>1. Known(s) BY DEF Base
  <2>2. \A e \in DOMAIN z.server.controls : e \in DOMAIN s.server.controls \/ e = Len(s.server.controls) + 1
    BY <1>8
  <2>3. \A e \in DOMAIN s.server.controls : z.server.controls[e] = s.server.controls[e] BY <1>8
  <2>4. NoImage \notin Images BY ClientAssumption
  <2>5. ASSUME NEW e \in DOMAIN z.server.controls, z.server.controls[e].type = "VIEW",
               e > z.server.epoch \/ (e = z.server.epoch /\ z.server.stage = "sending")
        PROVE  /\ z.client.manifestHistory # <<>>
               /\ z.server.controls[e].image = LastOf(z.client.manifestHistory)
    <3>1. CASE e \in DOMAIN s.server.controls BY <1>3, <1>7, <2>1, <2>3, <2>5, <3>1 DEF Known
    <3>2. CASE e = Len(s.server.controls) + 1
      <4>1. z.server.controls[e] = control BY <1>8, <3>2
      <4>2. image = s.client.manifest /\ image # NoImage BY <1>6, <2>4, <2>5, <4>1
      <4> QED BY <1>3, <1>6, <2>1, <4>1, <4>2 DEF Known
    <3> QED BY <2>2, <3>1, <3>2
  <2> QED BY <1>3, <2>1, <2>5 DEF Known
<1>19. Quiet(z) /\ Sockets(z) BY <1>2, <1>3 DEF Base, Quiet, Sockets
<1>20. Asked(z) BY <1>3, <1>6, <1>9, ClientAssumption DEF Asked
<1>21. Core(z, J) BY <1>13, <1>16, <1>17, <1>18, <1>19, <1>20, CoreIsBase DEF Base
<1>22. Follows(s, z) BY <1>1, <1>7, SilentFollows
<1> QED BY <1>1, <1>9, <1>21, <1>22 DEF control, z
--------------------------------------------------------------------------------
\* OPEN and VIEW

LEMMA CoreReserved ==
    ASSUME NEW s, NEW J, Typed(s), Placed(s, J), Budgets(s, J)
    PROVE  Reserved(s.budget)
<1>1. /\ DOMAIN s.budget.reservations \subseteq Pending(s) \cup J
      /\ Pending(s) \cup J \in SUBSET Jobs /\ IsFiniteSet(Pending(s) \cup J)
  <2>1. /\ Pending(s) \in SUBSET Jobs /\ IsFiniteSet(Pending(s)) /\ J \in SUBSET Jobs
        /\ IsFiniteSet(J) /\ DOMAIN s.budget.reservations \subseteq Pending(s) \cup J
    BY DEF Typed, ClientOK, Pending, Placed, Budgets
  <2> QED BY <2>1, FS_Union
<1>2. IsFiniteSet(DOMAIN s.budget.reservations) BY <1>1, FS_Subset
<1> QED BY <1>1, <1>2 DEF Reserved, Budgets, Typed

\* Only the budget changes.
LEMMA BudgetOK ==
    ASSUME NEW s, NEW J, Core(s, J), s.client.welcome, NEW z, Differs(s, z, {"budget"}, {}),
           IsBudget(z.budget), Budgets(z, J)
    PROVE  Core(z, J)
<1>1. /\ IsState(z) /\ IsClient(z.client) /\ z.client = s.client
      /\ z.ledger = s.ledger /\ z.server = s.server /\ z.worker = s.worker
      /\ z.sockets = s.sockets /\ z.canvas = s.canvas
  BY DEF Differs, StateFields
<1>2. /\ Pending(z) = Pending(s) /\ UndrawnTiles(z) = UndrawnTiles(s)
      /\ UndrawnJobs(z) = UndrawnJobs(s) /\ Held(z, J) = Held(s, J)
      /\ IsOpen(z) = IsOpen(s) /\ EpochsExhausted(z) = EpochsExhausted(s)
  BY <1>1 DEF Pending, UndrawnTiles, UndrawnJobs, Held, IsOpen, EpochsExhausted
<1>3. Placed(z, J) BY <1>1, <1>2 DEF Placed, Core
<1>4. AtWork(z, J) BY <1>1, <1>2 DEF AtWork, Core
<1>5. Owned(z, J) BY <1>1, <1>2 DEF Owned, Core
<1>6. Agreed(z) BY <1>1, <1>2, AgreedSame DEF Core
<1>7. Accounts(z, J) BY <1>1, <1>2 DEF Accounts, Core
<1>8. Typed(z) BY <1>1 DEF Typed, Core
<1>9. Spoken(z) /\ Known(z) /\ Asked(z) BY <1>1, <1>2 DEF Spoken, Known, Asked, Core
<1>10. Quiet(z) /\ Sockets(z) BY <1>1 DEF Quiet, Sockets, Core
<1> QED BY <1>3, <1>4, <1>5, <1>6, <1>7, <1>8, <1>9, <1>10 DEF Core

\* Reservations are given back, and the bytes kept stay.
LEMMA SmallerBudgetOK ==
    ASSUME NEW s, NEW J, Core(s, J), s.client.welcome, NEW b, Reserved(b),
           DOMAIN b.reservations \subseteq DOMAIN s.budget.reservations,
           b.contextBytes = s.budget.contextBytes, b.detailBytes = s.budget.detailBytes,
           b.transientBytes <= s.budget.transientBytes,
           NEW z, z = [s EXCEPT !.budget = b]
    PROVE  /\ Core(z, J) /\ Differs(s, z, {"budget"}, {}) /\ z.budget = b
           /\ z.client = s.client /\ z.server = s.server /\ z.canvas = s.canvas
           /\ Fresh(s) => Fresh(z)
<1>1. /\ IsState(s) /\ IsClient(s.client) /\ Typed(s) /\ Placed(s, J) /\ Budgets(s, J)
  BY DEF Core, Typed, ClientOK
<1>2. Reserved(s.budget) BY <1>1, CoreReserved
<1>3. /\ IsState(z) /\ z.budget = b /\ \A f \in StateFields \ {"budget"} : z[f] = s[f]
  BY <1>1 DEF IsState, StateFields
<1>4. z.client = s.client /\ z.canvas = s.canvas /\ z.server = s.server BY <1>3 DEF StateFields
<1>5. Differs(s, z, {"budget"}, {}) BY <1>1, <1>3, <1>4 DEF Differs
<1>6. Budgets(z, J)
  <2>1. /\ b.transientBytes \in Nat /\ s.budget.transientBytes \in Nat
        /\ b.contextBytes \in Nat /\ b.detailBytes \in Nat /\ TransientBudgetBytes \in Nat
    BY <1>2, BudgetAssumption DEF Reserved, IsBudget
  <2>2. Pending(z) = Pending(s) BY <1>4 DEF Pending
  <2>3. /\ DOMAIN b.reservations \subseteq Pending(z) \cup J
        /\ \A j \in DOMAIN b.reservations : b.reservations[j] = Bytes[j.tile]
        /\ b.transientBytes = ReservedBytes(b)
    BY <1>1, <2>2 DEF Budgets, Reserved
  <2>4. /\ b.contextBytes = KeptBytes(z.canvas.entries, "context")
        /\ b.detailBytes = KeptBytes(z.canvas.entries, "detail")
        /\ b.detailBytes <= DetailBudgetBytes
    BY <1>1, <1>4 DEF Budgets
  <2>5. s.budget.contextBytes + s.budget.transientBytes <= TransientBudgetBytes BY <1>1 DEF Budgets
  <2>6. b.contextBytes + b.transientBytes <= TransientBudgetBytes BY <2>1, <2>5
  <2> QED BY <1>3, <2>3, <2>4, <2>6 DEF Budgets
<1>7. IsBudget(z.budget) BY <1>3 DEF Reserved
<1>8. Core(z, J) BY <1>5, <1>6, <1>7, BudgetOK
<1> QED BY <1>3, <1>4, <1>5, <1>8 DEF Fresh

LEMMA CancelReservationsOK ==
    ASSUME NEW s, NEW J, Core(s, J), s.client.welcome
    PROVE  LET z == CancelReservations(s)
           IN  Core(z, J) /\ Differs(s, z, {"budget"}, {})
<1> DEFINE z == CancelReservations(s)
           b == CancelAll(s.budget, Pending(s))
<1>1. Reserved(s.budget) /\ IsFiniteSet(Pending(s))
  BY CoreReserved DEF Core, Typed, ClientOK, Pending
<1>2. z = [s EXCEPT !.budget = b] BY DEF CancelReservations, CancelAll, Pending
<1>3. /\ Reserved(b) /\ DOMAIN b.reservations \subseteq DOMAIN s.budget.reservations
      /\ b.contextBytes = s.budget.contextBytes /\ b.detailBytes = s.budget.detailBytes
      /\ b.transientBytes <= s.budget.transientBytes
  BY <1>1, CancelAllOK
<1> HIDE DEF z, b
<1> QED BY <1>2, <1>3, SmallerBudgetOK DEF z

\* The phase of s becomes another.
LEMMA PhaseSays ==
    ASSUME NEW s, NEW J, Core(s, J), NEW phase \in Phases
    PROVE  LET z == [s EXCEPT !.client.phase = phase]
           IN  /\ Core(z, J) /\ Differs(s, z, {"client"}, {"phase"}) /\ z.client.phase = phase
               /\ z.canvas = s.canvas
<1> DEFINE z == [s EXCEPT !.client.phase = phase]
           c == [s.client EXCEPT !.phase = phase]
<1>1. IsState(s) /\ IsClient(s.client) /\ ClientOK(s.client) BY DEF Core, Typed, ClientOK
<1>2. z = [s EXCEPT !.client = c] BY <1>1 DEF IsState, StateFields
<1> HIDE DEF z, c
<1>3. /\ IsState(z) /\ z.client = c /\ \A f \in StateFields \ {"client"} : z[f] = s[f]
  BY <1>1, <1>2 DEF IsState, StateFields
<1>4. /\ IsClient(c) /\ c.phase = phase /\ \A f \in ClientFields \ {"phase"} : c[f] = s.client[f]
  BY <1>1 DEF IsClient, ClientFields, c
<1>5. Differs(s, z, {"client"}, {"phase"}) BY <1>3, <1>4 DEF Differs
<1>6. /\ Differs(s, z, {"client"}, Words) /\ z.client.phase \in Phases
      /\ z.client.error \in Errors /\ z.client.plan \in {NoPlan, 0, 1}
  <2>1. z.client.error = s.client.error /\ z.client.plan = s.client.plan
    BY <1>3, <1>4 DEF ClientFields
  <2>2. Differs(s, z, {"client"}, Words) BY <1>5 DEF Differs, Words
  <2> QED BY <1>1, <1>3, <1>4, <2>1, <2>2 DEF ClientOK
<1>7. Base(s, J) /\ Asked(s) BY CoreIsBase
<1>8. Base(z, J) /\ Asked(z) BY <1>6, <1>7, WordsOK
<1>9. z.canvas = s.canvas BY <1>3 DEF StateFields
<1> QED BY <1>3, <1>4, <1>5, <1>8, <1>9, CoreIsBase DEF z

\* A manifest is shown if the last control asks for a view.
Viewed(s) ==
    IsOpen(s) /\ s.server.controls # <<>> =>
        (LastOf(s.server.controls).type = "VIEW" => s.client.manifest # NoImage)

LEMMA AskedIsViewed ==
    ASSUME NEW s, Asked(s)
    PROVE  Viewed(s)
BY DEF Asked, Viewed

LEMMA OpenSelectedOK ==
    ASSUME NEW s, NEW J, Base(s, J), s.client.welcome, Viewed(s),
           Asked(s) \/ s.client.selected # NoImage, Fresh(s), Settled(s)
    PROVE  LET z == OpenSelected(s)
           IN  Core(z, J) /\ Fresh(z) /\ Settled(z) /\ Follows(s, z)
<1> DEFINE z == OpenSelected(s)
<1>1. IsState(s) /\ IsClient(s.client) /\ ClientOK(s.client) /\ Typed(s)
  BY DEF Base, Typed, ClientOK
<1>2. CASE s.client.selected = NoImage
  <2>1. z = s BY <1>2 DEF OpenSelected
  <2>2. Follows(s, z) BY <2>1, SilentFollows
  <2> QED BY <1>2, <2>1, <2>2, CoreIsBase
<1>3. CASE s.client.selected # NoImage /\ EpochsExhausted(s)
  <2>1. z = Fail(s, "exhausted") BY <1>3 DEF OpenSelected
  <2> HIDE DEF z
  <2>2. /\ Base(z, J) /\ Differs(s, z, {"client"}, Words) /\ z.client.viewport = s.client.viewport
        /\ Settled(z) /\ z.client.error = "exhausted"
    BY <2>1, FailOK DEF Errors
  <2>3. /\ z.canvas = s.canvas /\ z.server = s.server /\ z.sockets = s.sockets
        /\ z.client.connectionId = s.client.connectionId /\ z.client.epoch = s.client.epoch
        /\ z.client.manifest = s.client.manifest
    BY <2>2 DEF Differs, StateFields, ClientFields, Words
  <2>4. Asked(z) BY <1>3, <2>3 DEF Asked, Viewed, EpochsExhausted, IsOpen
  <2>5. Fresh(z) BY <2>2, <2>3 DEF Fresh
  <2>6. Follows(s, z) BY <2>2, <2>3, SilentFollows
  <2> QED BY <2>2, <2>4, <2>5, <2>6, CoreIsBase DEF z
<1>4. CASE s.client.selected # NoImage /\ ~EpochsExhausted(s)
  <2> DEFINE image == s.client.selected
             a == NewEpoch(s, "OPEN", image)
             b == CancelReservations(a)
             o == [b EXCEPT !.client.manifest = NoImage]
             r == CompositorReset(o)
  <2>1. z = [r EXCEPT !.client.phase = "opening"] BY <1>4 DEF OpenSelected
  <2>2. image \in Images BY <1>1, <1>4 DEF ClientOK
  <2>3. /\ Core(a, J)
        /\ Differs(s, a, {"client", "worker", "server"}, {"epoch", "plan", "serverDone", "error"})
        /\ a.server.controls # <<>> /\ LastOf(a.server.controls) = [type |-> "OPEN", image |-> image]
        /\ Follows(s, a)
    <3> HIDE DEF image
    <3>1. image = s.client.selected BY DEF image
    <3> QED BY <1>4, <2>2, <3>1, NewEpochOK
  <2> HIDE DEF z, a, r
  <2>4. a.client.welcome /\ a.client.selected = image BY <2>3 DEF Differs, ClientFields
  <2>5. Core(b, J) /\ Differs(a, b, {"budget"}, {}) BY <2>3, <2>4, CancelReservationsOK
  <2> HIDE DEF b
  <2>6. b.client = a.client /\ b.server = a.server BY <2>5 DEF Differs, StateFields
  <2>7. /\ IsState(b) /\ IsClient(b.client) /\ ClientOK(b.client) /\ Base(b, J)
    BY <2>5, CoreIsBase DEF Base, Typed, ClientOK
  <2> DEFINE c == [b.client EXCEPT !.manifest = NoImage]
  <2>8. o = [b EXCEPT !.client = c] BY <2>7 DEF IsState, StateFields
  <2> HIDE DEF o, c
  <2>9. /\ IsState(o) /\ o.client = c /\ \A f \in StateFields \ {"client"} : o[f] = b[f]
    BY <2>7, <2>8 DEF IsState, StateFields
  <2>10. /\ IsClient(c) /\ c.manifest = NoImage
         /\ \A f \in ClientFields \ {"manifest"} : c[f] = b.client[f]
    BY <2>7 DEF IsClient, ClientFields, c
  <2>11. Differs(b, o, {"client"}, ImageWords) BY <2>9, <2>10 DEF Differs, ImageWords
  <2>12. /\ o.client.manifest = NoImage /\ o.client.phase = b.client.phase
         /\ o.client.error = b.client.error /\ o.client.plan = b.client.plan
         /\ o.client.selected = b.client.selected
         /\ o.client.manifestHistory = b.client.manifestHistory /\ o.client.welcome = b.client.welcome
         /\ o.server = b.server
    BY <2>9, <2>10 DEF ClientFields, StateFields
  <2>13. Known(o) BY <2>7, <2>12 DEF Base, Known
  <2>14. Base(o, J)
    <3>1. /\ o.client.phase \in Phases /\ o.client.error \in Errors /\ o.client.plan \in {NoPlan, 0, 1}
          /\ o.client.selected \in Images \cup {NoImage}
          /\ o.client.manifest \in Images \cup {NoImage} /\ o.client.manifestHistory \in Seq(Images)
      BY <2>7, <2>12 DEF ClientOK
    <3> QED BY <2>7, <2>11, <2>12, <2>13, <3>1, ImageOK
  <2>15. Asked(o) BY <2>3, <2>4, <2>6, <2>12 DEF Asked
  <2>16. Core(r, J) /\ Kept(o, r) /\ r.canvas = EmptyCanvas(FALSE)
    BY <2>14, <2>15, CoreIsBase, CompositorResetOK DEF r
  <2>17. /\ Core(z, J) /\ z.canvas = EmptyCanvas(FALSE) /\ z.client.phase = "opening"
         /\ Differs(r, z, {"client"}, {"phase"})
    BY <2>1, <2>16, PhaseSays DEF Phases
  <2>18. Settled(z) BY <2>17 DEF Settled
  <2>19. Fresh(z) BY <2>17, EmptyCanvasOK DEF Fresh
  <2>20. Follows(s, z)
    <3>1. Follows(a, o) BY <2>6, <2>12, SilentFollows
    <3>2. Follows(o, r) BY <2>16, KeptFollows
    <3>3. Follows(r, z)
      <4>1. z.server = r.server /\ z.client.error = r.client.error
        BY <2>17 DEF Differs, StateFields, ClientFields
      <4> QED BY <4>1, SilentFollows
    <3> QED BY <2>3, <3>1, <3>2, <3>3, FollowsTwice
  <2> QED BY <2>17, <2>18, <2>19, <2>20 DEF z
<1> QED BY <1>2, <1>3, <1>4

LEMMA RequestViewOK ==
    ASSUME NEW s, NEW J, Core(s, J), Fresh(s), Settled(s)
    PROVE  LET z == RequestView(s)
           IN  Core(z, J) /\ Fresh(z) /\ Settled(z) /\ Follows(s, z)
<1> DEFINE z == RequestView(s)
           asks == s.client.manifest # NoImage /\ s.client.viewport /\ s.client.selected # NoImage
                   /\ IsOpen(s)
<1>1. IsState(s) /\ IsClient(s.client) /\ ClientOK(s.client) /\ Base(s, J) /\ Asked(s)
  BY CoreIsBase DEF Base, Typed, ClientOK
<1>2. CASE ~asks
  <2>1. z = s BY <1>2 DEF RequestView
  <2>2. Follows(s, z) BY <2>1, SilentFollows
  <2> QED BY <2>1, <2>2
<1>3. CASE asks /\ EpochsExhausted(s)
  <2>1. z = Fail(s, "exhausted") BY <1>3 DEF RequestView
  <2> HIDE DEF z
  <2>2. /\ Base(z, J) /\ Differs(s, z, {"client"}, Words) /\ z.client.viewport = s.client.viewport
        /\ Settled(z) /\ Asked(z) /\ z.client.error = "exhausted"
    BY <1>1, <2>1, FailOK DEF Errors
  <2>3. /\ z.canvas = s.canvas /\ z.client.epoch = s.client.epoch
        /\ z.client.manifest = s.client.manifest /\ z.server = s.server
    BY <2>2 DEF Differs, StateFields, ClientFields, Words
  <2>4. Fresh(z) BY <2>2, <2>3 DEF Fresh
  <2>5. Follows(s, z) BY <2>2, <2>3, SilentFollows
  <2> QED BY <2>2, <2>4, <2>5, CoreIsBase DEF z
<1>4. CASE asks /\ ~EpochsExhausted(s)
  <2> DEFINE image == s.client.manifest
             a == NewEpoch(s, "VIEW", image)
             epoch == a.client.epoch
             r == CompositorBeginEpoch(a, epoch)
  <2>1. z = [r EXCEPT !.client.phase = "receiving"] BY <1>4 DEF RequestView
  <2>2. image \in Images /\ s.client.welcome BY <1>1, <1>4 DEF ClientOK, Base, Quiet
  <2>3. /\ Core(a, J)
        /\ Differs(s, a, {"client", "worker", "server"}, {"epoch", "plan", "serverDone", "error"})
        /\ Follows(s, a)
    <3> HIDE DEF image
    <3>1. image = s.client.manifest BY DEF image
    <3> QED BY <1>1, <1>4, <2>2, <3>1, NewEpochOK
  <2>4. a.canvas = s.canvas /\ a.client.manifest = image /\ a.client.viewport = s.client.viewport
    BY <2>3 DEF Differs, StateFields, ClientFields
  <2> HIDE DEF z, a, r, epoch
  <2>5. Core(r, J) /\ Kept(a, r) /\ r.canvas = BeginEpoch(a.canvas, epoch)
    BY <2>3, CompositorBeginEpochOK DEF r
  <2>6. r.client.manifest = image /\ r.client.viewport = s.client.viewport
    BY <2>4, <2>5 DEF Kept, ClientFields
  <2>7. /\ Core(z, J) /\ z.canvas = r.canvas /\ z.client.phase = "receiving"
        /\ Differs(r, z, {"client"}, {"phase"})
    BY <2>1, <2>5, PhaseSays DEF Phases
  <2>8. z.client.manifest = image /\ z.client.viewport = s.client.viewport
    BY <2>6, <2>7 DEF Differs, ClientFields
  <2>9. Settled(z) BY <2>7 DEF Settled
  <2>10. Fresh(z)
    <3>1. CanvasOK(a.canvas) BY <2>3 DEF Core, Typed
    <3>2. /\ DOMAIN z.canvas.entries = DOMAIN s.canvas.entries \ OfOldEpoch(s.canvas)
          /\ \A t \in DOMAIN z.canvas.entries : z.canvas.entries[t] = s.canvas.entries[t]
          /\ z.canvas.manifest = s.canvas.manifest
      <4> DEFINE v == a.canvas
                 w == BeginEpoch(v, epoch)
      <4>1. CanvasOK(v) /\ v = s.canvas /\ z.canvas = w BY <2>4, <2>5, <2>7, <3>1
      <4> HIDE DEF v
      <4>2. /\ DOMAIN w.entries = DOMAIN v.entries \ OfOldEpoch(v)
            /\ \A t \in DOMAIN w.entries : w.entries[t] = v.entries[t]
            /\ w.manifest = v.manifest
        <5>1. CanvasOK(v) BY <4>1
        <5> QED BY <5>1, BeginEpochOK
      <4> HIDE DEF w
      <4> QED BY <4>1, <4>2
    <3>3. \A t \in DOMAIN z.canvas.entries : Level[t] = 0 /\ t \in DOMAIN s.canvas.entries
      BY <3>2 DEF OfOldEpoch
    <3> QED BY <2>8, <3>2, <3>3 DEF Fresh
  <2>11. Follows(s, z)
    <3>1. Follows(a, r) BY <2>5, KeptFollows
    <3>2. z.server = r.server /\ z.client.error = r.client.error
      BY <2>7 DEF Differs, StateFields, ClientFields
    <3>3. Follows(r, z) BY <3>2, SilentFollows
    <3> QED BY <2>3, <3>1, <3>3, FollowsTwice
  <2> QED BY <2>7, <2>9, <2>10, <2>11 DEF z
<1> QED BY <1>2, <1>3, <1>4

================================================================================
