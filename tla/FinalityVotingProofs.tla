------------------------ MODULE FinalityVotingProofs ------------------------
(***************************************************************************)
(* Proofs about FinalityVoting for every length of chain, every set of     *)
(* block hashes, every batch size and every configuration of retries.      *)
(* First the subsequences that filtering takes of a batch: the steps that  *)
(* need induction take the least counterexample instead (LeastElement).    *)
(***************************************************************************)
EXTENDS FinalityStepsProofs, FiniteSetTheorems

(* Order and finite sets *)

\* Every set of natural numbers that is not empty has a least element.
LEMMA LeastElement ==
  ASSUME NEW S \in SUBSET Nat, S # {}
  PROVE  \E n \in S : \A m \in S : n <= m
<1>1. \E n \in S : \A m \in S : <<m, n>> \notin OpToRel(<, Nat)
  BY NatLessThanWellFounded, WFMin, Zenon
<1>2. \E n \in S : \A m \in S : ~(m < n)
  BY <1>1, Zenon DEF OpToRel
<1>3. QED
  BY <1>2

\* Every bounded one has a greatest.
LEMMA GreatestElement ==
  ASSUME NEW b \in Nat, NEW S \in SUBSET (0..b), S # {}
  PROVE  \E n \in S : \A m \in S : m <= n
<1> DEFINE U == {u \in Nat : \A m \in S : m <= u}
<1>1. PICK u \in U : \A v \in U : u <= v
  <2>1. b \in U
    OBVIOUS
  <2>2. QED
    BY <2>1, LeastElement, Zenon
<1>2. CASE u \in S
  BY <1>2
<1>3. CASE u \notin S
  <2>1. \A m \in S : m <= u - 1 /\ u - 1 \in Nat
    BY <1>3
  <2>2. u - 1 \in U
    BY <2>1, Zenon
  <2>3. QED
    BY <1>1, <2>2
<1>4. QED
  BY <1>2, <1>3

Increasing(f) == \A i, j \in DOMAIN f : i < j => f[i] < f[j]

Enumerable(I) == \E f \in [1..Cardinality(I) -> I] : Increasing(f)

\* A set of indices up to n is finite and has at most n elements.
LEMMA IndicesFinite ==
  ASSUME NEW n \in Nat, NEW I \in SUBSET (1..n)
  PROVE  IsFiniteSet(I) /\ Cardinality(I) \in Nat /\ Cardinality(I) <= n
<1>1. IsFiniteSet(1..n) /\ Cardinality(1..n) = n
  BY FS_Interval
<1>2. IsFiniteSet(I) /\ Cardinality(I) <= n
  BY <1>1, FS_Subset, Zenon
<1>3. QED
  BY <1>2, FS_CardinalityType

\* The greatest index is enumerated last.
LEMMA EnumerateOneMore ==
  ASSUME NEW k \in Nat, NEW J \in SUBSET (1..k), k \in J, Enumerable(J \ {k})
  PROVE  Enumerable(J)
<1> DEFINE K == J \ {k}
           c == Cardinality(K)
<1>1. PICK g \in [1..c -> K] : Increasing(g)
  BY DEF Enumerable
<1>2. c \in Nat /\ Cardinality(J) = c + 1
  <2>1. IsFiniteSet(J) /\ Cardinality(J) \in Nat
    BY IndicesFinite
  <2>2. Cardinality(K) = Cardinality(J) - 1
    BY <2>1, FS_RemoveElement, Zenon
  <2>3. Cardinality(K) \in Nat
    BY IndicesFinite
  <2>4. QED
    BY <2>1, <2>2, <2>3
<1>3. \A i \in 1..c : g[i] \in J /\ g[i] \in 1..k /\ g[i] # k
  BY <1>1, Zenon
<1> HIDE DEF c, K
<1> DEFINE f == [i \in 1..(c + 1) |-> IF i = c + 1 THEN k ELSE g[i]]
<1>4. f \in [1..(c + 1) -> J]
  BY <1>2, <1>3
<1>5. ASSUME NEW i \in 1..(c + 1), NEW j \in 1..(c + 1), i < j
      PROVE  f[i] < f[j]
  <2>1. i \in 1..c /\ f[i] = g[i]
    BY <1>2, <1>5
  <2>2. CASE j = c + 1
    BY <1>2, <1>3, <2>1, <2>2
  <2>3. CASE j # c + 1
    <3>1. j \in 1..c /\ f[j] = g[j]
      BY <1>2, <2>3
    <3>2. QED
      BY <1>1, <1>5, <2>1, <3>1 DEF Increasing
  <2>4. QED
    BY <2>2, <2>3
<1>6. Increasing(f)
  BY <1>5 DEF Increasing
<1> HIDE DEF f
<1>7. QED
  BY <1>2, <1>4, <1>6 DEF Enumerable

\* Every finite set of indices can be put in order: the least n for which some
\* set of indices up to n could not would have a set without n.
LEMMA EveryEnumerable ==
  ASSUME NEW n \in Nat, NEW I \in SUBSET (1..n)
  PROVE  Enumerable(I)
<1> DEFINE Bad == {k \in Nat : \E J \in SUBSET (1..k) : ~Enumerable(J)}
<1> SUFFICES ASSUME Bad # {} PROVE FALSE
  OBVIOUS
<1>1. PICK k \in Bad : \A l \in Bad : k <= l
  BY LeastElement, Zenon
<1>2. PICK J \in SUBSET (1..k) : ~Enumerable(J)
  OBVIOUS
<1>3. k # 0
  <2> SUFFICES ASSUME k = 0 PROVE FALSE
    OBVIOUS
  <2>1. J = {}
    OBVIOUS
  <2>2. Cardinality(J) = 0
    BY <2>1, FS_EmptySet
  <2>3. <<>> \in [1..0 -> J] /\ Increasing(<<>>)
    BY DEF Increasing
  <2>4. QED
    BY <1>2, <2>2, <2>3, Zenon DEF Enumerable
<1>4. k - 1 \in Nat /\ k - 1 \notin Bad
  <2>1. k \in Nat
    OBVIOUS
  <2> HIDE DEF Bad
  <2>2. QED
    BY <1>1, <1>3, <2>1
<1>5. \A K \in SUBSET (1..(k - 1)) : Enumerable(K)
  BY <1>4
<1>6. J \ {k} \in SUBSET (1..(k - 1))
  BY <1>3
<1>7. Enumerable(J \ {k})
  BY <1>5, <1>6
<1>8. CASE k \notin J
  <2>1. J \ {k} = J
    BY <1>8
  <2>2. QED
    BY <1>2, <1>7, <2>1
<1>9. CASE k \in J
  BY <1>2, <1>7, <1>9, EnumerateOneMore
<1>10. QED
  BY <1>8, <1>9

\* The enumeration is increasing and leaves no index out.
LEMMA AscendingProperties ==
  ASSUME NEW n \in Nat, NEW I \in SUBSET (1..n)
  PROVE  /\ Ascending(I) \in [1..Cardinality(I) -> I]
         /\ Increasing(Ascending(I))
         /\ \A i \in I : \E k \in 1..Cardinality(I) : Ascending(I)[k] = i
<1> DEFINE f == Ascending(I)
           c == Cardinality(I)
<1>0. \A x \in I : x \in Int
  OBVIOUS
<1>1. f \in [1..c -> I] /\ Increasing(f)
  BY EveryEnumerable, Zenon DEF Ascending, Enumerable, Increasing
<1>2. IsFiniteSet(I) /\ c \in Nat
  BY IndicesFinite
<1>3. f \in Injection(1..c, I)
  <2> HIDE DEF f, c
  <2>1. ASSUME NEW i \in 1..c, NEW j \in 1..c, f[i] = f[j]
        PROVE  i = j
    <3>1. f[i] \in I
      BY <1>1
    <3>2. f[i] \in Int
      BY <3>1, <1>0, Zenon
    <3>3. ~(i < j) /\ ~(j < i)
      BY <1>1, <2>1, <3>2 DEF Increasing
    <3>4. QED
      BY <1>2, <3>3
  <2>2. QED
    BY <1>1, <2>1 DEF Injection, IsInjective
<1>4. f \in Surjection(1..c, I)
  <2>1. Cardinality(1..c) = c
    BY <1>2, FS_Interval
  <2>2. QED
    BY <1>2, <1>3, <2>1, FS_Injection
<1>5. QED
  BY <1>1, <1>4 DEF Surjection

\* What a subsequence is: there is an increasing map of its positions onto the
\* chosen indices.
LEMMA SubsequenceProperties ==
  ASSUME NEW S, NEW s \in Seq(S), NEW I \in SUBSET (DOMAIN s)
  PROVE  /\ Subsequence(s, I) \in Seq(S)
         /\ Len(Subsequence(s, I)) <= Len(s)
         /\ \E f \in [DOMAIN Subsequence(s, I) -> I] :
              /\ Increasing(f)
              /\ \A k \in DOMAIN Subsequence(s, I) : Subsequence(s, I)[k] = s[f[k]]
              /\ \A i \in I : \E k \in DOMAIN Subsequence(s, I) : f[k] = i
<1> DEFINE f == Ascending(I)
           c == Cardinality(I)
           q == Subsequence(s, I)
<1>1. Len(s) \in Nat /\ DOMAIN s = 1..Len(s)
  OBVIOUS
<1>2. c \in Nat /\ c <= Len(s)
  BY <1>1, IndicesFinite
<1>3. /\ f \in [1..c -> I]
      /\ Increasing(f)
      /\ \A i \in I : \E k \in 1..c : f[k] = i
  BY <1>1, AscendingProperties, Zenon
<1>4. q = [k \in 1..c |-> s[f[k]]]
  BY DEF Subsequence
<1> HIDE DEF f, c, q
<1>5. \A k \in 1..c : s[f[k]] \in S
  BY <1>3
<1>6. q \in Seq(S) /\ Len(q) = c /\ DOMAIN q = 1..c
  BY <1>2, <1>4, <1>5
<1>7. \A k \in 1..c : q[k] = s[f[k]]
  BY <1>4
<1>8. \E g \in [DOMAIN q -> I] :
        /\ Increasing(g)
        /\ \A k \in DOMAIN q : q[k] = s[g[k]]
        /\ \A i \in I : \E k \in DOMAIN q : g[k] = i
  <2> DEFINE d == DOMAIN q
  <2>1. 1..c = d
    BY <1>6
  <2> HIDE DEF d
  <2>2. /\ f \in [d -> I]
        /\ \A k \in d : q[k] = s[f[k]]
        /\ \A i \in I : \E k \in d : f[k] = i
    BY <1>3, <1>7, <2>1, Zenon
  <2>3. QED
    BY <1>3, <2>2, Zenon DEF d
<1>9. QED
  BY <1>2, <1>6, <1>8, Zenon DEF q

\* A subsequence without one index has all the other elements.
LEMMA RemoveIndex ==
  ASSUME NEW S, NEW s \in Seq(S), NEW i \in DOMAIN s
  PROVE  /\ Subsequence(s, DOMAIN s \ {i}) \in Seq(S)
         /\ Len(Subsequence(s, DOMAIN s \ {i})) = Len(s) - 1
         /\ \A k \in DOMAIN Subsequence(s, DOMAIN s \ {i}) : \E j \in DOMAIN s : Subsequence(s, DOMAIN s \ {i})[k] = s[j]
         /\ \A j \in DOMAIN s : j # i => \E k \in DOMAIN Subsequence(s, DOMAIN s \ {i}) : Subsequence(s, DOMAIN s \ {i})[k] = s[j]
<1> DEFINE I == DOMAIN s \ {i}
           q == Subsequence(s, I)
<1>1. I \in SUBSET (DOMAIN s) /\ \A j \in DOMAIN s : j # i => j \in I
  OBVIOUS
<1>2. Cardinality(I) = Len(s) - 1 /\ Cardinality(I) \in Nat
  <2>1. DOMAIN s = 1..Len(s) /\ Len(s) \in Nat
    OBVIOUS
  <2>2. IsFiniteSet(1..Len(s)) /\ Cardinality(1..Len(s)) = IF 1 > Len(s) THEN 0 ELSE Len(s) - 1 + 1
    BY <2>1, FS_Interval
  <2>3. Cardinality(I) = Len(s) - 1
    <3>1. IsFiniteSet(DOMAIN s) /\ Cardinality(DOMAIN s) = Len(s)
      BY <2>1, <2>2
    <3>2. Cardinality(DOMAIN s \ {i}) = IF i \in DOMAIN s THEN Cardinality(DOMAIN s) - 1 ELSE Cardinality(DOMAIN s)
      BY <3>1, FS_RemoveElement, Zenon
    <3>3. QED
      BY <3>1, <3>2
  <2>4. Cardinality(I) \in Nat
    BY <1>1, <2>1, IndicesFinite
  <2>5. QED
    BY <2>3, <2>4
<1>3. q = [k \in 1..Cardinality(I) |-> s[Ascending(I)[k]]]
  BY DEF Subsequence
<1> HIDE DEF I, q
<1>4. /\ q \in Seq(S)
      /\ \E f \in [DOMAIN q -> I] :
           /\ \A k \in DOMAIN q : q[k] = s[f[k]]
           /\ \A j \in I : \E k \in DOMAIN q : f[k] = j
  BY <1>1, SubsequenceProperties DEF q
<1>5. Len(q) = Len(s) - 1
  <2>1. DOMAIN q = 1..Cardinality(I)
    BY <1>3
  <2>2. QED
    BY <1>2, <1>4, <2>1
<1>6. PICK f \in [DOMAIN q -> I] :
           /\ \A k \in DOMAIN q : q[k] = s[f[k]]
           /\ \A j \in I : \E k \in DOMAIN q : f[k] = j
  BY <1>4, Zenon
<1>7. \A k \in DOMAIN q : \E j \in DOMAIN s : q[k] = s[j]
  BY <1>1, <1>6
<1>8. \A j \in DOMAIN s : j # i => \E k \in DOMAIN q : q[k] = s[j]
  BY <1>1, <1>6
<1>9. QED
  BY <1>4, <1>5, <1>7, <1>8, Zenon DEF q, I
-----------------------------------------------------------------------------
\* The highest height with a vote in the chain (HighestVoted).
LEMMA HighestVotedProperties ==
  ASSUME ChainTypes
  PROVE  /\ HighestVoted \in 0..MaxHeight
         /\ HighestVoted # 0 => HighestVoted \in Heights /\ votes[HighestVoted] # {}
         /\ \A h \in Heights : votes[h] # {} => h <= HighestVoted
<1> DEFINE V == {h \in Heights : votes[h] # {}}
<1>1. CASE V = {}
  <2>1. HighestVoted = 0
    BY <1>1 DEF HighestVoted
  <2>2. QED
    BY <1>1, <2>1, ConstantTypes
<1>2. CASE V # {}
  <2>1. \E h \in V : \A g \in V : g <= h
    <3>1. V \in SUBSET (0..MaxHeight)
      BY DEF Heights
    <3> HIDE DEF V
    <3>2. QED
      BY <1>2, <3>1, GreatestElement, ConstantTypes, Zenon
  <2>2. \E h \in Heights : votes[h] # {} /\ \A g \in Heights : votes[g] # {} => g <= h
    BY <2>1
  <2>3. HighestVoted = CHOOSE h \in Heights : votes[h] # {} /\ \A g \in Heights : votes[g] # {} => g <= h
    BY <1>2, Zenon DEF HighestVoted
  <2>4. HighestVoted \in Heights /\ votes[HighestVoted] # {} /\ \A g \in Heights : votes[g] # {} => g <= HighestVoted
    BY <2>2, <2>3, Zenon
  <2>5. QED
    BY <2>4, ConstantTypes DEF Heights
<1>3. QED
  BY <1>1, <1>2

\* A restart goes on behind the highest of three heights (DetermineStartHeight).
LEMMA StartHeightProperties ==
  ASSUME ChainTypes, StoreTypes
  PROVE  /\ DetermineStartHeight \in {dbVoted, HighestVoted, finalized}
         /\ DetermineStartHeight \in 0..MaxHeight
<1>1. dbVoted \in 0..MaxHeight /\ HighestVoted \in 0..MaxHeight /\ finalized \in 0..MaxHeight
  BY HighestVotedProperties, ConstantTypes DEF ChainTypes, StoreTypes, Heights
<1> DEFINE v == HighestVoted
<1> HIDE DEF v
<1>2. \E s \in {dbVoted, v, finalized} : s >= dbVoted /\ s >= v /\ s >= finalized
  BY <1>1 DEF v
<1>3. DetermineStartHeight \in {dbVoted, v, finalized}
  BY <1>2 DEF DetermineStartHeight, v
<1>4. QED
  BY <1>1, <1>3 DEF v

\* The state after a start is what the database and the chain say (Start).
LEMMA StartLoopInv ==
  ASSUME LoopInv, Start
  PROVE  LoopInv'
<1>1. /\ UNCHANGED <<chainVars, signed, dbVoted, batch, seen, msgs, tries, failures, err, appVars, givenUp, bounds>>
      /\ pc = "off"
  BY DEF Start
<1>2. ChainTypes' /\ AppTypes'
  BY <1>1 DEF LoopInv, ChainTypes, AppTypes, chainVars, appVars, bounds, givenUp
<1>3. dbStatus' \in Statuses
  BY DEF Start, syncStatus, Statuses
<1>4. SignInv'
  BY <1>1, SignUntouched DEF chainVars, appVars, bounds
<1>5. CASE UNCHANGED <<pc, start, next, memVars>>
  <2>1. StoreTypes'
    BY <1>1, <1>3, <1>5 DEF LoopInv, StoreTypes, memVars
  <2>2. LoopTypes' /\ LoopShape' /\ AboveVoted' /\ MsgsOfBatch'
    BY <1>1, <1>5, LoopUntouched DEF loopVars, memVars
  <2>3. QED
    BY <1>2, <1>4, <2>1, <2>2, Zenon DEF LoopInv
<1>6. CASE /\ pc' = "idle" /\ start' = DetermineStartHeight + 1 /\ next' = start'
           /\ voted' = dbVoted /\ status' = dbStatus'
  <2>1. StoreTypes'
    BY <1>1, <1>3, <1>6 DEF LoopInv, StoreTypes
  <2>2. DetermineStartHeight \in 0..MaxHeight
    BY StartHeightProperties DEF LoopInv
  <2>3. start' \in 1..MaxHeight + 1 /\ next' \in 1..MaxHeight + 1
    BY <1>6, <2>2, ConstantTypes
  <2>4. LoopTypes'
    BY <1>1, <1>6, <2>3 DEF LoopInv, LoopTypes
  <2>5. LoopShape' /\ AboveVoted' /\ MsgsOfBatch'
    BY <1>1, <1>6 DEF LoopInv, LoopShape, AboveVoted, MsgsOfBatch
  <2>6. QED
    BY <1>2, <1>4, <2>1, <2>4, <2>5, Zenon DEF LoopInv
<1>7. QED
  BY <1>5, <1>6 DEF Start, newFinalityProviderInstanceFromStore

\* The blocks that are kept: above lastVotedHeight and with voting power, all of
\* them, in their order (FilterBlocksForVoting).
LEMMA FilterProperties ==
  ASSUME LoopTypes
  PROVE  /\ ProcessedBlocks \in Seq(Blocks) /\ Len(ProcessedBlocks) <= Len(batch)
         /\ \E f \in [DOMAIN ProcessedBlocks -> DOMAIN batch] :
              /\ Increasing(f)
              /\ \A k \in DOMAIN ProcessedBlocks :
                   /\ ProcessedBlocks[k] = batch[f[k]]
                   /\ batch[f[k]].height > voted /\ batch[f[k]].height \in power
              /\ \A i \in DOMAIN batch :
                   batch[i].height > voted /\ batch[i].height \in power =>
                     \E k \in DOMAIN ProcessedBlocks : f[k] = i
<1> DEFINE I == {i \in DOMAIN batch : batch[i].height > voted}
           u == Unvoted
           J == {i \in DOMAIN u : u[i].height \in power}
           q == ProcessedBlocks
<1>1. batch \in Seq(Blocks) /\ I \in SUBSET (DOMAIN batch) /\ u = Subsequence(batch, I)
  BY DEF LoopTypes, Unvoted
<1>2. \A i \in DOMAIN batch : i \in I <=> batch[i].height > voted
  OBVIOUS
<1>3. J \in SUBSET (DOMAIN u) /\ q = Subsequence(u, J)
  BY DEF ProcessedBlocks, QueryFinalityProviderHasPower
<1>4. \A i \in DOMAIN u : i \in J <=> u[i].height \in power
  OBVIOUS
<1> HIDE DEF I, u, J, q
<1>5. /\ u \in Seq(Blocks) /\ Len(u) <= Len(batch)
      /\ \E f \in [DOMAIN u -> I] :
           /\ Increasing(f)
           /\ \A k \in DOMAIN u : u[k] = batch[f[k]]
           /\ \A i \in I : \E k \in DOMAIN u : f[k] = i
  BY <1>1, SubsequenceProperties
<1>6. PICK f \in [DOMAIN u -> I] :
           /\ Increasing(f)
           /\ \A k \in DOMAIN u : u[k] = batch[f[k]]
           /\ \A i \in I : \E k \in DOMAIN u : f[k] = i
  BY <1>5
<1>7. /\ q \in Seq(Blocks) /\ Len(q) <= Len(u)
      /\ \E g \in [DOMAIN q -> J] :
           /\ Increasing(g)
           /\ \A k \in DOMAIN q : q[k] = u[g[k]]
           /\ \A i \in J : \E k \in DOMAIN q : g[k] = i
  <2>1. u \in Seq(Blocks)
    BY <1>5
  <2>2. QED
    BY <1>3, <2>1, SubsequenceProperties
<1>8. PICK g \in [DOMAIN q -> J] :
           /\ Increasing(g)
           /\ \A k \in DOMAIN q : q[k] = u[g[k]]
           /\ \A i \in J : \E k \in DOMAIN q : g[k] = i
  BY <1>7
<1> DEFINE e == [k \in DOMAIN q |-> f[g[k]]]
<1>9. \A k \in DOMAIN q : g[k] \in DOMAIN u /\ f[g[k]] \in DOMAIN batch
  BY <1>1, <1>3, <1>6, <1>8
<1>10. e \in [DOMAIN q -> DOMAIN batch]
  BY <1>9
<1>11. Increasing(e)
  <2> SUFFICES ASSUME NEW i \in DOMAIN q, NEW j \in DOMAIN q, i < j
               PROVE  f[g[i]] < f[g[j]]
    BY DEF Increasing
  <2>1. g[i] < g[j]
    BY <1>8 DEF Increasing
  <2>2. QED
    BY <1>6, <1>9, <2>1 DEF Increasing
<1>12. \A k \in DOMAIN q : /\ q[k] = batch[e[k]]
                           /\ batch[e[k]].height > voted /\ batch[e[k]].height \in power
  <2> SUFFICES ASSUME NEW k \in DOMAIN q
               PROVE  /\ q[k] = batch[f[g[k]]]
                      /\ batch[f[g[k]]].height > voted /\ batch[f[g[k]]].height \in power
    OBVIOUS
  <2>1. g[k] \in J /\ g[k] \in DOMAIN u /\ q[k] = u[g[k]] /\ u[g[k]] = batch[f[g[k]]]
    BY <1>6, <1>8, <1>9
  <2>2. f[g[k]] \in I
    BY <1>6, <2>1
  <2>3. QED
    BY <1>2, <1>4, <1>9, <2>1, <2>2, Zenon
<1>13. ASSUME NEW i \in DOMAIN batch, batch[i].height > voted, batch[i].height \in power
       PROVE  \E k \in DOMAIN q : e[k] = i
  <2>1. PICK j \in DOMAIN u : f[j] = i
    BY <1>2, <1>6, <1>13
  <2>2. j \in J
    BY <1>4, <1>6, <1>13, <2>1, Zenon
  <2>3. PICK k \in DOMAIN q : g[k] = j
    BY <1>8, <2>2
  <2>4. QED
    BY <2>1, <2>3
<1> HIDE DEF e
<1>14. Len(q) <= Len(batch)
  BY <1>1, <1>5, <1>7
<1>15. \E h \in [DOMAIN q -> DOMAIN batch] :
         /\ Increasing(h)
         /\ \A k \in DOMAIN q : q[k] = batch[h[k]] /\ batch[h[k]].height > voted /\ batch[h[k]].height \in power
         /\ \A i \in DOMAIN batch :
              batch[i].height > voted /\ batch[i].height \in power => \E k \in DOMAIN q : h[k] = i
  BY <1>10, <1>11, <1>12, <1>13, Zenon
<1>16. QED
  BY <1>7, <1>14, <1>15, Zenon DEF q

\* The batch keeps blocks above lastVotedHeight (FilterBlocksForVoting).
LEMMA FilterLoopInv ==
  ASSUME LoopInv, FilterBlocksForVoting
  PROVE  LoopInv'
<1>1. /\ UNCHANGED <<chainVars, dbVars, voted, start, next, msgs, tries, failures, err, appVars, givenUp, bounds>>
      /\ pc = "filter" /\ pc' = "setStatus" /\ batch' = ProcessedBlocks
      /\ status' \in {"ACTIVE", "INACTIVE", status} /\ seen' \in {status', None}
  BY DEF FilterBlocksForVoting
<1>2. ChainTypes' /\ StoreTypes' /\ AppTypes'
  BY <1>1 DEF LoopInv, ChainTypes, StoreTypes, Statuses, AppTypes, chainVars, dbVars, appVars, bounds, givenUp
<1>3. batch' \in Seq(Blocks) /\ Len(batch') <= Len(batch) /\ \A k \in DOMAIN batch' : batch'[k].height > voted
  BY <1>1, FilterProperties, Zenon DEF LoopInv
<1>4. LoopTypes'
  <2>1. Len(batch') <= BatchSize
    BY <1>3, ConstantTypes DEF LoopInv, LoopTypes
  <2>2. seen' \in Statuses \cup {None}
    BY <1>1, <1>2 DEF StoreTypes
  <2>3. QED
    BY <1>1, <1>3, <2>1, <2>2, Zenon DEF LoopInv, LoopTypes
<1>5. LoopShape' /\ MsgsOfBatch'
  BY <1>1 DEF LoopInv, LoopShape, MsgsOfBatch, dbVars
<1>6. AboveVoted'
  BY <1>1, <1>3 DEF AboveVoted
<1>7. SignInv'
  BY <1>1, SignUntouched DEF chainVars, dbVars, appVars, bounds
<1>8. QED
  BY <1>2, <1>4, <1>5, <1>6, <1>7, Zenon DEF LoopInv

\* The messages: one for every block that may be signed
\* (submitBatchFinalitySignaturesOnce).
LEMMA ValidVotesProperties ==
  ASSUME LoopTypes, batch # <<>>
  PROVE  /\ ValidVotes \in Seq(Votes) /\ Len(ValidVotes) <= Len(batch)
         /\ \A k \in DOMAIN ValidVotes : \E i \in DOMAIN batch :
              /\ Signable(batch[i])
              /\ ValidVotes[k].height = batch[i].height /\ ValidVotes[k].msg = batch[i].msg
         /\ \A i \in DOMAIN batch : Signable(batch[i]) =>
              \E k \in DOMAIN ValidVotes : ValidVotes[k].height = batch[i].height
<1> DEFINE s == BatchVotes
           I == {i \in DOMAIN batch : Signable(batch[i])}
           q == ValidVotes
<1>1. /\ Len(batch) \in Nat /\ DOMAIN batch = 1..Len(batch)
      /\ \A i \in DOMAIN batch : batch[i].height \in Heights /\ batch[i].msg \in Msgs
  BY BatchElements
<1>2. 1 \in DOMAIN batch
  BY <1>1 DEF LoopTypes
<1>3. \A i \in DOMAIN batch : RandFor(i) \in Nat
  BY <1>1, <1>2, ConstantTypes DEF RandFor, Heights
<1>4. \A i \in DOMAIN batch : /\ s[i] \in Votes
                              /\ s[i].height = batch[i].height /\ s[i].msg = batch[i].msg
  BY <1>1, <1>3 DEF BatchVotes, Votes
<1>5. s \in Seq(Votes) /\ Len(s) = Len(batch) /\ DOMAIN s = DOMAIN batch
  <2>1. s = [i \in 1..Len(batch) |-> s[i]]
    BY <1>1 DEF BatchVotes
  <2> HIDE DEF s
  <2>2. QED
    BY <1>1, <1>4, <2>1
<1>6. I \in SUBSET (DOMAIN s) /\ q = Subsequence(s, I)
  BY <1>5 DEF ValidVotes
<1>7. \A i \in DOMAIN batch : i \in I <=> Signable(batch[i])
  OBVIOUS
<1> HIDE DEF s, I, q
<1>8. /\ q \in Seq(Votes) /\ Len(q) <= Len(s)
      /\ \E f \in [DOMAIN q -> I] :
           /\ Increasing(f)
           /\ \A k \in DOMAIN q : q[k] = s[f[k]]
           /\ \A i \in I : \E k \in DOMAIN q : f[k] = i
  <2>1. s \in Seq(Votes)
    BY <1>5
  <2>2. QED
    BY <1>6, <2>1, SubsequenceProperties
<1>9. PICK f \in [DOMAIN q -> I] :
           /\ \A k \in DOMAIN q : q[k] = s[f[k]]
           /\ \A i \in I : \E k \in DOMAIN q : f[k] = i
  BY <1>8, Zenon
<1>10. \A k \in DOMAIN q : \E i \in DOMAIN batch :
         Signable(batch[i]) /\ q[k].height = batch[i].height /\ q[k].msg = batch[i].msg
  <2> SUFFICES ASSUME NEW k \in DOMAIN q
               PROVE  \E i \in DOMAIN batch :
                        Signable(batch[i]) /\ q[k].height = batch[i].height /\ q[k].msg = batch[i].msg
    OBVIOUS
  <2>1. f[k] \in I /\ f[k] \in DOMAIN batch /\ q[k] = s[f[k]]
    BY <1>5, <1>6, <1>9
  <2>2. Signable(batch[f[k]])
    BY <1>7, <2>1
  <2>3. QED
    BY <1>4, <2>1, <2>2
<1>11. \A i \in DOMAIN batch : Signable(batch[i]) => \E k \in DOMAIN q : q[k].height = batch[i].height
  <2> SUFFICES ASSUME NEW i \in DOMAIN batch, Signable(batch[i])
               PROVE  \E k \in DOMAIN q : q[k].height = batch[i].height
    OBVIOUS
  <2>1. PICK k \in DOMAIN q : f[k] = i
    BY <1>7, <1>9
  <2>2. QED
    BY <1>4, <1>9, <2>1
<1>12. QED
  BY <1>5, <1>8, <1>10, <1>11, Zenon DEF q

\* The messages are those the manager signed (Sign).
LEMMA SignLoopInv ==
  ASSUME LoopInv, Sign
  PROVE  LoopInv'
<1>1. /\ UNCHANGED <<chainVars, dbVoted, dbStatus, memVars, start, next, seen, appVars, bounds>>
      /\ pc = "sign" /\ ~HasDuplicateHeights /\ signed' = SignBatchEOTS
  BY DEF Sign
<1>2. batch # <<>> /\ LoopTypes
  BY <1>1 DEF LoopInv, LoopShape
<1>3. \A i \in DOMAIN batch : batch[i].height \in Heights
  BY <1>2, BatchElements
<1>4. skipped' \subseteq Heights /\ stale' \subseteq Heights
  BY <1>3, Zenon DEF Sign, LoopInv, AppTypes
<1>5. ChainTypes' /\ StoreTypes' /\ AppTypes'
  BY <1>1, <1>4, SignBatchProperties, Zenon
  DEF LoopInv, ChainTypes, StoreTypes, AppTypes, chainVars, memVars, appVars, bounds
<1>6. \A h \in Heights : signed[h] # None => signed'[h] = signed[h]
  BY <1>1, SignBatchProperties
<1>7. CASE Rest
  <2>1. LoopTypes' /\ LoopShape' /\ AboveVoted' /\ MsgsOfBatch'
    BY <1>1, <1>7, RestLoop DEF LoopInv, LoopTypes, LoopShape, memVars
  <2>2. SignInv'
    <3>1. \A i \in DOMAIN msgs' : signed'[msgs'[i].height] = msgs'[i].msg
      BY <1>7 DEF Rest
    <3>2. QED
      BY <1>1, <1>6, <3>1, SignFills, Zenon DEF chainVars, appVars, bounds
  <2>3. QED
    BY <1>5, <2>1, <2>2, Zenon DEF LoopInv
<1>8. CASE /\ ValidVotes # <<>> /\ pc' = "send" /\ msgs' = ValidVotes /\ tries' = BatchRetries(Len(ValidVotes))
           /\ UNCHANGED <<batch, failures, err>>
  <2>1. ValidVotes \in Seq(Votes) /\ Len(ValidVotes) <= Len(batch)
    BY <1>2, ValidVotesProperties, Zenon
  <2>2. Len(msgs') \in Nat /\ Len(msgs') >= 1 /\ Len(msgs') <= BatchSize
    BY <1>2, <1>8, <2>1, ConstantTypes DEF LoopTypes
  <2>3. tries' \in Nat /\ 1 <= tries' /\ tries' <= Len(msgs')
    BY <1>8, <2>2, ConstantTypes DEF BatchRetries
  <2>4. LoopTypes'
    BY <1>1, <1>2, <1>8, <2>1, <2>2, <2>3, ConstantTypes DEF LoopTypes
  <2>5. LoopShape' /\ AboveVoted'
    BY <1>1, <1>2, <1>8, <2>3 DEF LoopInv, LoopShape, AboveVoted, memVars
  <2>6. \A k \in DOMAIN msgs' : \E i \in DOMAIN batch :
          Signable(batch[i]) /\ msgs'[k].height = batch[i].height /\ msgs'[k].msg = batch[i].msg
    BY <1>2, <1>8, ValidVotesProperties, Zenon
  <2>7. MsgsOfBatch'
    BY <1>8, <2>6, Zenon DEF MsgsOfBatch
  <2>8. \A k \in DOMAIN msgs' : signed'[msgs'[k].height] = msgs'[k].msg
    BY <1>1, <2>6, SignBatchProperties
  <2>9. SignInv'
    BY <1>1, <1>6, <2>8, SignFills DEF chainVars, appVars, bounds
  <2>10. QED
    BY <1>5, <2>4, <2>5, <2>7, <2>9, Zenon DEF LoopInv
<1>9. QED
  BY <1>7, <1>8 DEF Sign

\* A transaction that fails does so at its first failing message
\* (FailedMessageIndex).
LEMMA FailedIndexProperties ==
  ASSUME LoopTypes, TxVerdict # "ok"
  PROVE  /\ FailedMessageIndex \in DOMAIN msgs
         /\ TxVerdict = Verdict(msgs[FailedMessageIndex])
<1> DEFINE F == {i \in DOMAIN msgs : Verdict(msgs[i]) # "ok"}
<1>1. F # {} /\ TxVerdict = Verdict(msgs[FailedMessageIndex])
  BY DEF TxVerdict, FailedMessageIndex
<1>2. DOMAIN msgs = 1..Len(msgs) /\ Len(msgs) \in Nat
  BY MsgElements
<1>3. F \in SUBSET Nat
  BY <1>2
<1>4. PICK i \in F : \A j \in F : i <= j
  <2> HIDE DEF F
  <2>1. QED
    BY <1>1, <1>3, LeastElement
<1>5. i \in DOMAIN msgs /\ Verdict(msgs[i]) # "ok"
  OBVIOUS
<1>6. \A j \in 1..(i - 1) : Verdict(msgs[j]) = "ok"
  <2>1. \A j \in 1..(i - 1) : j \in DOMAIN msgs /\ ~(i <= j)
    BY <1>2, <1>5
  <2>2. QED
    BY <1>4, <2>1
<1>7. QED
  BY <1>1, <1>5, <1>6 DEF FailedMessageIndex

\* Removing a message keeps the others (RemoveMsgAtIndex).
LEMMA RemoveMsgProperties ==
  ASSUME NEW S, NEW s \in Seq(S), NEW i \in DOMAIN s
  PROVE  /\ RemoveMsgAtIndex(s, i) \in Seq(S) /\ Len(RemoveMsgAtIndex(s, i)) = Len(s) - 1
         /\ \A k \in DOMAIN RemoveMsgAtIndex(s, i) : \E j \in DOMAIN s : RemoveMsgAtIndex(s, i)[k] = s[j]
         /\ \A j \in DOMAIN s : j # i => \E k \in DOMAIN RemoveMsgAtIndex(s, i) : RemoveMsgAtIndex(s, i)[k] = s[j]
  BY RemoveIndex, Zenon DEF RemoveMsgAtIndex

\* The messages that remain after one is removed
\* (reliablySendMsgsResendingOnMsgErr).
LEMMA ExpectedLoopInv ==
  ASSUME LoopInv, SendExpectedErr
  PROVE  LoopInv'
<1>1. /\ UNCHANGED <<chainVars, dbVars, memVars, start, next, seen, appVars, givenUp, bounds>>
      /\ pc = "send" /\ TxVerdict # "ok"
  BY DEF SendExpectedErr
<1>2. ChainTypes' /\ StoreTypes' /\ AppTypes'
  BY <1>1, Zenon DEF LoopInv, ChainTypes, StoreTypes, AppTypes, chainVars, dbVars, memVars, appVars, bounds, givenUp
<1>3. CASE Rest
  <2>1. LoopTypes' /\ LoopShape' /\ AboveVoted' /\ MsgsOfBatch'
    BY <1>1, <1>3, RestLoop DEF LoopInv, LoopTypes, LoopShape, dbVars, memVars
  <2>2. SignInv'
    BY <1>1, <1>3, SignUntouched, Zenon DEF Rest, chainVars, dbVars, appVars, bounds
  <2>3. QED
    BY <1>2, <2>1, <2>2, Zenon DEF LoopInv
<1>4. CASE /\ tries # 1
           /\ msgs' = RemoveMsgAtIndex(msgs, FailedMessageIndex) /\ tries' = tries - 1
           /\ UNCHANGED <<pc, batch, failures, err>>
  <2>1. msgs \in Seq(Votes) /\ Len(msgs) \in Nat /\ Len(msgs) <= BatchSize /\ FailedMessageIndex \in DOMAIN msgs
    BY <1>1, FailedIndexProperties DEF LoopInv, LoopTypes
  <2>2. msgs' \in Seq(Votes) /\ Len(msgs') = Len(msgs) - 1
    BY <1>4, <2>1, RemoveMsgProperties, Zenon
  <2>3. \A j \in DOMAIN msgs' : \E i \in DOMAIN msgs : msgs'[j] = msgs[i]
    BY <1>4, <2>1, RemoveMsgProperties, Zenon
  <2>4. /\ tries \in Nat /\ 1 <= tries /\ tries <= Len(msgs)
        /\ tries' \in Nat /\ 1 <= tries' /\ tries' <= Len(msgs')
    BY <1>1, <1>4, <2>1, <2>2, ConstantTypes DEF LoopInv, LoopTypes, LoopShape
  <2>5. LoopTypes'
    <3>1. tries' \in 0..BatchSize /\ Len(msgs') <= BatchSize
      BY <2>1, <2>2, <2>4, ConstantTypes
    <3>2. QED
      BY <1>1, <1>4, <2>2, <3>1, Zenon DEF LoopInv, LoopTypes
  <2>6. LoopShape' /\ AboveVoted'
    BY <1>1, <1>4, <2>4, Zenon DEF LoopInv, LoopShape, AboveVoted, dbVars, memVars
  <2>7. MsgsOfBatch'
    BY <1>4, <2>3 DEF LoopInv, MsgsOfBatch
  <2>8. SignInv'
    <3>1. \A j \in DOMAIN msgs' : signed'[msgs'[j].height] = msgs'[j].msg
      BY <1>1, <2>3, Zenon DEF LoopInv, SignInv, dbVars
    <3>2. QED
      BY <1>1, <3>1, SignFills DEF chainVars, dbVars, appVars, bounds
  <2>9. QED
    BY <1>2, <2>5, <2>6, <2>7, <2>8, Zenon DEF LoopInv
<1>5. QED
  BY <1>3, <1>4 DEF SendExpectedErr
-----------------------------------------------------------------------------
\* Every step preserves the invariant of the loop.
LEMMA NextLoopInv == LoopInv /\ [Next]_vars => LoopInv'
<1> SUFFICES ASSUME LoopInv, [Next]_vars PROVE LoopInv'
  OBVIOUS
<1>1. CASE Chain \/ Punish
  BY <1>1, ChainLoopInv DEF Chain
<1>2. CASE Start
  BY <1>2, StartLoopInv
<1>3. CASE Crash
  BY <1>3, LoseMemoryLoopInv DEF Crash
<1>4. CASE Tick \/ UNCHANGED vars
  <2>1. UNCHANGED vars
    BY <1>4, Zenon DEF Tick
  <2>2. ChainTypes' /\ StoreTypes' /\ AppTypes'
    BY <2>1 DEF vars, LoopInv, ChainTypes, StoreTypes, AppTypes, chainVars, dbVars, memVars, appVars, bounds, givenUp
  <2>3. LoopTypes' /\ LoopShape' /\ AboveVoted' /\ MsgsOfBatch'
    BY <2>1, LoopUntouched, Zenon DEF vars, dbVars, memVars
  <2>4. SignInv'
    BY <2>1, SignUntouched DEF vars, chainVars, dbVars, loopVars, appVars, bounds
  <2>5. QED
    BY <2>2, <2>3, <2>4, Zenon DEF LoopInv
<1>5. CASE Submit \/ Outage
  BY Zenon, <1>5, GetLoopInv, IsJailedLoopInv, StatusLoopInv, FilterLoopInv, SignLoopInv, SignErrLoopInv, SendEndLoopInv,
     ExpectedLoopInv, SetVotedLoopInv, RetryLoopInv, AppLoopInv, Zenon DEF Submit, Outage, UnjailStep
<1>6. CASE Monitor
  BY <1>6, MonitorLoopInv
<1>7. CASE UnjailStep
  BY <1>7, AppLoopInv
<1>8. CASE runCommandAddFinalitySig
  BY <1>8, AddVoteLoopInv DEF runCommandAddFinalitySig
<1>9. CASE SubmitFinalitySignatureAndExtractPrivKey
  BY <1>9, SendByHandLoopInv
<1>10. QED
  BY <1>1, <1>2, <1>3, <1>4, <1>5, <1>6, <1>7, <1>8, <1>9, Zenon DEF Next, Undisturbed, UnjailAnswer, UnjailStep

\* The invariant of the loop holds in every state.
THEOREM LoopInvHolds == Spec => []LoopInv
  BY InitLoopInv, NextLoopInv, PTL DEF Spec

\* Types of the provider's state, for every chain and configuration.
THEOREM TypeCorrect == Spec => []TypeOK
<1>1. LoopInv => TypeOK
  BY TypeParts, Zenon DEF LoopInv
<1>2. QED
  BY <1>1, LoopInvHolds, PTL

\* The chain never holds two votes of the provider for different blocks at one
\* height, unless an operator turned the check off there: every vote on its way
\* is for the message that the sign store holds (SignInv), and the store never
\* changes one (SignBatchEOTS, SignFinalitySig).
THEOREM NeverEquivocates == Spec => []NoEquivocation
<1>1. LoopInv => NoEquivocation
  BY Zenon DEF LoopInv, SignInv, Unchecked, NoEquivocation
<1>2. QED
  BY <1>1, LoopInvHolds, PTL

\* No vote is sent for a height at or below lastVotedHeight of memory or
\* database: the batch was filtered against memory, and the two never differ
\* while the daemon runs.
THEOREM VotesAboveLastVoted == Spec => []OnlyAboveLastVoted
<1>1. LoopInv => OnlyAboveLastVoted
  BY DEF LoopInv, LoopShape, AboveVoted, MsgsOfBatch, OnlyAboveLastVoted
<1>2. QED
  BY <1>1, LoopInvHolds, PTL
-----------------------------------------------------------------------------
\* Signing a vote by hand with the check fills a free height (SignFinalitySig).
LEMMA AddVoteBinds ==
  ASSUME LoopInv, NEW b \in Blocks, SignFinalitySig(b)
  PROVE  \A h \in Heights : signed[h] # None => signed'[h] = signed[h]
<1>1. signed \in [Heights -> Msgs \cup {None}] /\ b.height \in Heights
  BY DEF LoopInv, StoreTypes, Blocks
<1>2. signed' = [signed EXCEPT ![b.height] = b.msg] /\ signed[b.height] \in {None, b.msg}
  BY DEF SignFinalitySig, Signable
<1>3. QED
  BY <1>1, <1>2

\* Steps leave sign store, votes and history alone, or bind heights, or publish
\* votes, or waive the protection of a height.
LEMMA ProtectionSteps ==
  ASSUME LoopInv, [Next]_vars
  PROVE  \/ UNCHANGED <<signed, votes, byHand>>
         \/ /\ UNCHANGED votes /\ Waived' = Waived
            /\ \A h \in Heights : signed[h] # None => signed'[h] = signed[h]
         \/ UNCHANGED <<signed, byHand>> /\ \A h \in Heights : votes[h] \subseteq votes'[h]
         \/ UNCHANGED <<signed, votes>> /\ byHand \subseteq byHand'
<1> DEFINE Still == UNCHANGED <<signed, votes, byHand>>
           Binds == /\ UNCHANGED votes /\ Waived' = Waived
                    /\ \A h \in Heights : signed[h] # None => signed'[h] = signed[h]
           Publishes == UNCHANGED <<signed, byHand>> /\ \A h \in Heights : votes[h] \subseteq votes'[h]
           Waives == UNCHANGED <<signed, votes>> /\ byHand \subseteq byHand'
<1> SUFFICES Still \/ Binds \/ Publishes \/ Waives
  BY Zenon
<1>1. CASE Chain \/ Punish \/ Start \/ Crash \/ Tick \/ UNCHANGED vars
  <2>1. Still
    BY <1>1, Zenon DEF Chain, NewBlock, Finalize, Outdate, Punish, Start, Crash, Tick, vars, chainVars, dbVars, bounds
  <2>2. QED
    BY <2>1
<1>2. ASSUME NEW heights, Take(heights)
      PROVE  Still
  BY <1>2 DEF Take, chainVars, dbVars
<1>3. CASE \/ \E n \in 1..BatchSize : GetBatch(n)
           \/ \E n \in 1..BatchSize, k \in 0..BatchSize, r \in start..MaxHeight : GetResentBatch(n, k, r)
  BY <1>2, <1>3, Zenon DEF GetBatch, GetResentBatch
<1>4. CASE IsJailed \/ ReturnIfJailed \/ FilterBlocksForVoting \/ SetStatus \/ SignRefused
  <2>1. Still
    BY <1>4, Zenon DEF IsJailed, ReturnIfJailed, FilterBlocksForVoting, SetStatus, SignRefused, chainVars, dbVars, bounds
  <2>2. QED
    BY <2>1
<1>5. CASE SendExpectedErr \/ SendRefused \/ SetLastVotedHeight \/ Retry
  <2>1. Still
    BY <1>5, Zenon DEF SendExpectedErr, SendRefused, SetLastVotedHeight, Retry, chainVars, dbVars, bounds
  <2>2. QED
    BY <2>1
<1>6. CASE Abandon \/ PowerQueryFailed \/ BlockQueryFailed
  <2>1. Still
    BY <1>6, Zenon DEF Abandon, PowerQueryFailed, BlockQueryFailed, ReportCritical, chainVars, dbVars, bounds
  <2>2. QED
    BY <2>1
<1>7. CASE Monitor \/ UnjailStep
  <2>1. Still
    BY <1>7, UnjailFrame, Zenon DEF Monitor, chainVars, bounds
  <2>2. QED
    BY <2>1
<1>8. CASE Sign \/ SignFailed
  <2>1. UNCHANGED <<votes, byHand>> /\ ~HasDuplicateHeights /\ signed' \in {signed, SignBatchEOTS}
    BY <1>8, Zenon DEF Sign, SignFailed, chainVars, bounds
  <2>2. \A h \in Heights : signed[h] # None => signed'[h] = signed[h]
    BY <2>1, SignBatchProperties, Zenon
  <2>3. QED
    BY <2>1, <2>2, Zenon DEF Waived
<1>9. CASE SendAccepted \/ SendFailed
  <2>1. UNCHANGED <<signed, byHand>> /\ (Deliver \/ UNCHANGED votes)
    BY <1>9 DEF SendAccepted, SendFailed, dbVars, bounds
  <2>2. \A h \in Heights : votes[h] \subseteq votes'[h]
    BY <2>1 DEF Deliver
  <2>3. QED
    BY <2>1, <2>2, Zenon
<1>10. CASE runCommandAddFinalitySig
  <2>1. PICK b \in Blocks, check \in BOOLEAN : AddFinalitySignature(b, check)
    BY <1>10, ConstantsAssumption, Zenon DEF runCommandAddFinalitySig
  <2>2. /\ UNCHANGED votes /\ byHand' = byHand \cup {[height |-> b.height, checked |-> check]}
        /\ IF check THEN SignFinalitySig(b) ELSE UNCHANGED signed
    BY <2>1 DEF AddFinalitySignature, chainVars
  <2>3. CASE check = TRUE
    <3>1. \A h \in Heights : signed[h] # None => signed'[h] = signed[h]
      BY <2>2, <2>3, AddVoteBinds, Zenon
    <3>2. \A h \in Heights : [height |-> h, checked |-> FALSE] # [height |-> b.height, checked |-> TRUE]
      OBVIOUS
    <3>3. Waived' = Waived
      BY <2>2, <2>3, <3>2, Zenon DEF Waived
    <3>4. QED
      BY <2>2, <3>1, <3>3, Zenon
  <2>4. CASE check = FALSE
    BY <2>2, <2>4, Zenon
  <2>5. QED
    BY <2>3, <2>4, Zenon
<1>11. CASE SubmitFinalitySignatureAndExtractPrivKey
  <2>1. UNCHANGED <<signed, byHand>>
    BY <1>11 DEF SubmitFinalitySignatureAndExtractPrivKey, dbVars, bounds
  <2>2. \A h \in Heights : votes[h] \subseteq votes'[h]
    BY <1>11 DEF SubmitFinalitySignatureAndExtractPrivKey, LoopInv, ChainTypes
  <2>3. QED
    BY <2>1, <2>2
<1> HIDE DEF Still, Binds, Publishes, Waives
<1>12. QED
  BY <1>1, <1>3, <1>4, <1>5, <1>6, <1>7, <1>8, <1>9, <1>10, <1>11, Zenon
     DEF Next, Undisturbed, Submit, Outage, UnjailAnswer, UnjailStep

\* Every step of the provider is one that SlashingProtection allows.
LEMMA ProtectionStep ==
  ASSUME LoopInv, LoopInv', [Next]_vars
  PROVE  [Protection!AbsNext]_(Protection!absVars)
<1>1. signed' \in [Heights -> Msgs \cup {None}]
  BY DEF LoopInv, StoreTypes
<1>2. CASE UNCHANGED <<signed, votes, byHand>>
  BY <1>2 DEF Protection!absVars, Published, Waived
<1>3. CASE /\ UNCHANGED votes /\ Waived' = Waived
           /\ \A h \in Heights : signed[h] # None => signed'[h] = signed[h]
  <2>1. Protection!Bind
    BY <1>1, <1>3 DEF Protection!Bind, Published
  <2>2. QED
    BY <2>1 DEF Protection!AbsNext
<1>4. CASE UNCHANGED <<signed, byHand>> /\ \A h \in Heights : votes[h] \subseteq votes'[h]
  <2>1. Published \subseteq Published'
    BY <1>4 DEF Published
  <2>2. ASSUME NEW p \in Published'
        PROVE  signed[p[1]] = p[2] \/ p[1] \in Waived
    <3>1. p[1] \in Heights /\ p[2] \in votes'[p[1]]
      BY Zenon DEF Published
    <3>2. (\A h \in Heights : ~Unchecked(h) => \A m \in votes[h] : m = signed[h])'
      BY DEF LoopInv, SignInv
    <3>3. QED
      BY <1>4, <3>1, <3>2 DEF Unchecked, Waived
  <2>3. Waived' = Waived
    BY <1>4 DEF Waived
  <2>4. Protection!Publish
    BY <1>4, <2>1, <2>2, <2>3 DEF Protection!Publish
  <2>5. QED
    BY <2>4 DEF Protection!AbsNext
<1>5. CASE UNCHANGED <<signed, votes>> /\ byHand \subseteq byHand'
  <2>1. Waived \subseteq Waived' /\ Waived' \subseteq Heights
    BY <1>5 DEF Waived
  <2>2. Protection!Waive
    BY <1>1, <1>5, <2>1 DEF Protection!Waive, Published
  <2>3. QED
    BY <2>2 DEF Protection!AbsNext
<1>6. QED
  BY <1>2, <1>3, <1>4, <1>5, ProtectionSteps, Zenon

\* The provider with all its crashes, retries and votes by hand implements the
\* promise of its EOTS manager in the chain (SignBatchEOTS,
\* AddFinalitySignature, Deliver).
THEOREM ProtectionKept == Spec => KeepsProtection
<1>1. Init => Protection!AbsInit
  BY DEF Init, Protection!AbsInit, Published, Waived
<1>2. LoopInv /\ LoopInv' /\ [Next]_vars => [Protection!AbsNext]_(Protection!absVars)
  BY ProtectionStep
<1>3. QED
  BY <1>1, <1>2, LoopInvHolds, PTL DEF Spec, KeepsProtection, Protection!AbsSpec
=============================================================================
