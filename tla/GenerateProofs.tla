--------------------------- MODULE GenerateProofs ---------------------------
(***************************************************************************)
(* Proofs about Generate, for any manifests, API types, versions and flags *)
(* and any number of commands and edits.                                   *)
(***************************************************************************)
EXTENDS Generate, SequenceTheorems, FiniteSetTheorems, WellFoundedInduction, TLAPS

----------------------------------------------------------------------------
(* Sequences                                                               *)

\* Sets that grow, up to one element of a set each, number its elements.
LEMMA Numbered ==
    ASSUME NEW P, IsFiniteSet(P), NEW upTo \in [P -> SUBSET P],
           \A p \in P : p \in upTo[p],
           \A p, q \in P : p # q => /\ upTo[p] # upTo[q]
                                    /\ upTo[p] \subseteq upTo[q] \/ upTo[q] \subseteq upTo[p]
    PROVE  /\ Cardinality(P) \in Nat
           /\ \A p \in P : IsFiniteSet(upTo[p]) /\ Cardinality(upTo[p]) \in 1 .. Cardinality(P)
           /\ \A p, q \in P : Cardinality(upTo[p]) = Cardinality(upTo[q]) => p = q
           /\ \A n \in 1 .. Cardinality(P) : \E p \in P : Cardinality(upTo[p]) = n
<1> DEFINE m == Cardinality(P)
           rank == [p \in P |-> Cardinality(upTo[p])]
<1>1. m \in Nat
  BY FS_CardinalityType
<1>2. \A p \in P : IsFiniteSet(upTo[p]) /\ Cardinality(upTo[p]) \in 1 .. m
  <2>1. TAKE p \in P
  <2>2. IsFiniteSet(upTo[p]) /\ Cardinality(upTo[p]) \in Nat /\ Cardinality(upTo[p]) <= m
    BY FS_Subset, FS_CardinalityType
  <2>3. Cardinality(upTo[p]) # 0
    BY <2>2, FS_EmptySet
  <2>4. QED
    BY <1>1, <2>2, <2>3
<1>3. \A p, q \in P : Cardinality(upTo[p]) = Cardinality(upTo[q]) => p = q
  BY <1>2, FS_Subset
<1> HIDE DEF m
<1>4. \A n \in 1 .. m : \E p \in P : Cardinality(upTo[p]) = n
  <2>1. rank \in Injection(P, 1 .. m)
    BY <1>2, <1>3 DEF Injection, IsInjective
  <2>2. IsFiniteSet(1 .. m) /\ Cardinality(1 .. m) = m
    <3>1. 1 \in Int /\ m \in Int /\ (IF 1 > m THEN 0 ELSE m - 1 + 1) = m
      BY <1>1
    <3>2. QED
      BY <3>1, FS_Interval
  <2>3. rank \in Surjection(P, 1 .. m)
    BY <2>1, <2>2, FS_Injection DEF m
  <2>4. QED
    BY <2>3 DEF Surjection
<1>5. QED
  BY <1>1, <1>2, <1>3, <1>4 DEF m

\* What is put in order is there once each, if the sets up to its elements grow.
LEMMA Ordered ==
    ASSUME NEW P, IsFiniteSet(P), NEW upTo \in [P -> SUBSET P],
           \A p \in P : p \in upTo[p],
           \A p, q \in P : p # q => /\ upTo[p] # upTo[q]
                                    /\ upTo[p] \subseteq upTo[q] \/ upTo[q] \subseteq upTo[p]
    PROVE  /\ Cardinality(P) \in Nat
           /\ DOMAIN InOrder(P, upTo) = 1 .. Cardinality(P)
           /\ \A n \in 1 .. Cardinality(P) : InOrder(P, upTo)[n] \in P
           /\ \A p \in P : \E n \in 1 .. Cardinality(P) : InOrder(P, upTo)[n] = p
<1> DEFINE m == Cardinality(P)
<1>1. /\ m \in Nat
      /\ \A p \in P : Cardinality(upTo[p]) \in 1 .. m
      /\ \A p, q \in P : Cardinality(upTo[p]) = Cardinality(upTo[q]) => p = q
      /\ \A n \in 1 .. m : \E p \in P : Cardinality(upTo[p]) = n
  BY Numbered
<1>2. InOrder(P, upTo) = [n \in 1 .. m |-> CHOOSE p \in P : Cardinality(upTo[p]) = n]
  BY DEF InOrder, m
<1> HIDE DEF m
<1>3. QED
  BY <1>1, <1>2 DEF m

\* The larger come behind the smaller.
LEMMA Increasing ==
    ASSUME NEW P, IsFiniteSet(P), NEW upTo \in [P -> SUBSET P],
           \A p \in P : p \in upTo[p],
           \A p, q \in P : p # q => /\ upTo[p] # upTo[q]
                                    /\ upTo[p] \subseteq upTo[q] \/ upTo[q] \subseteq upTo[p]
    PROVE  LET nth == InOrder(P, upTo)
           IN  /\ \A n \in 1 .. Cardinality(P) : Cardinality(upTo[nth[n]]) = n
               /\ \A k, l \in 1 .. Cardinality(P) : k < l => nth[k] # nth[l] /\ upTo[nth[k]] \subseteq upTo[nth[l]]
<1> DEFINE m == Cardinality(P)
           nth == InOrder(P, upTo)
<1>1. m \in Nat /\ \A n \in 1 .. m : nth[n] \in P /\ Cardinality(upTo[nth[n]]) = n
  <2>1. m \in Nat /\ \A n \in 1 .. m : \E p \in P : Cardinality(upTo[p]) = n
    BY Numbered
  <2>2. nth = [n \in 1 .. m |-> CHOOSE p \in P : Cardinality(upTo[p]) = n]
    BY DEF InOrder
  <2> HIDE DEF m, nth
  <2>3. QED
    BY <2>1, <2>2
<1> HIDE DEF m, nth
<1>2. ASSUME NEW k \in 1 .. m, NEW l \in 1 .. m, k < l
      PROVE  nth[k] # nth[l] /\ upTo[nth[k]] \subseteq upTo[nth[l]]
  <2>1. IsFiniteSet(upTo[nth[k]])
    BY <1>1, FS_Subset
  <2>2. ~(upTo[nth[l]] \subseteq upTo[nth[k]])
    BY <1>1, <1>2, <2>1, FS_Subset
  <2>3. QED
    BY <1>1, <1>2, <2>2
<1>3. QED
  BY <1>1, <1>2 DEF m, nth

\* Integers in order.
LEMMA Ascending ==
    ASSUME NEW P \in SUBSET Int, IsFiniteSet(P)
    PROVE  LET nth == InOrder(P, [i \in P |-> {j \in P : j <= i}])
           IN  /\ Cardinality(P) \in Nat /\ DOMAIN nth = 1 .. Cardinality(P)
               /\ \A n \in 1 .. Cardinality(P) : nth[n] \in P /\ Cardinality({j \in P : j <= nth[n]}) = n
               /\ \A i \in P : \E n \in 1 .. Cardinality(P) : nth[n] = i
               /\ \A k, l \in 1 .. Cardinality(P) : k < l => nth[k] < nth[l]
<1> DEFINE upTo == [i \in P |-> {j \in P : j <= i}]
           nth == InOrder(P, upTo)
<1>1. upTo \in [P -> SUBSET P] /\ \A i \in P : i \in upTo[i]
  OBVIOUS
<1>2. \A i, k \in P : i # k => /\ upTo[i] # upTo[k]
                               /\ upTo[i] \subseteq upTo[k] \/ upTo[k] \subseteq upTo[i]
  <2>1. TAKE i, k \in P
  <2>2. i \in Int /\ k \in Int /\ \A j \in P : j \in Int
    OBVIOUS
  <2>3. CASE i < k
    <3>1. k \in upTo[k] /\ k \notin upTo[i]
      BY <2>2, <2>3
    <3>2. \A j \in P : j <= i => j <= k
      BY <2>2, <2>3
    <3>3. QED
      BY <3>1, <3>2
  <2>4. CASE k < i
    <3>1. i \in upTo[i] /\ i \notin upTo[k]
      BY <2>2, <2>4
    <3>2. \A j \in P : j <= k => j <= i
      BY <2>2, <2>4
    <3>3. QED
      BY <3>1, <3>2
  <2>5. QED
    BY <2>2, <2>3, <2>4
<1>3. \A i \in P : upTo[i] = {j \in P : j <= i}
  OBVIOUS
<1>4. \A i, k \in P : i # k /\ upTo[i] \subseteq upTo[k] => i < k
  OBVIOUS
<1> HIDE DEF upTo
<1>5. /\ Cardinality(P) \in Nat /\ DOMAIN nth = 1 .. Cardinality(P)
      /\ \A n \in 1 .. Cardinality(P) : nth[n] \in P
  BY <1>1, <1>2, Ordered
<1>6. \A i \in P : \E n \in 1 .. Cardinality(P) : nth[n] = i
  BY <1>1, <1>2, Ordered, ZenonT(30)
<1>7. \A n \in 1 .. Cardinality(P) : Cardinality(upTo[nth[n]]) = n
  BY <1>1, <1>2, Increasing
<1>8. \A k, l \in 1 .. Cardinality(P) : k < l => nth[k] # nth[l] /\ upTo[nth[k]] \subseteq upTo[nth[l]]
  BY <1>1, <1>2, Increasing
<1> HIDE DEF nth
<1>9. /\ \A n \in 1 .. Cardinality(P) : Cardinality({j \in P : j <= nth[n]}) = n
      /\ \A k, l \in 1 .. Cardinality(P) : k < l => nth[k] < nth[l]
  BY <1>3, <1>4, <1>5, <1>7, <1>8
<1>10. QED
  BY <1>5, <1>6, <1>9 DEF nth, upTo

\* What two sequences have at positions that match in order is the same.
Matches(phi, s, A, u, B) ==
    /\ phi \in Surjection(A, B)
    /\ \A j, k \in A : j < k => phi[j] < phi[k]
    /\ \A k \in A : s[k] = u[phi[k]]

LEMMA FilteredAcross ==
    ASSUME NEW A \in SUBSET Int, IsFiniteSet(A), NEW B \in SUBSET Int, IsFiniteSet(B),
           NEW phi, NEW s, NEW u, Matches(phi, s, A, u, B)
    PROVE  Filtered(s, A) = Filtered(u, B)
<1> DEFINE nthA == InOrder(A, [i \in A |-> {j \in A : j <= i}])
           nthB == InOrder(B, [i \in B |-> {j \in B : j <= i}])
<1>0. (\A j, k \in A : j < k => phi[j] < phi[k]) /\ (\A k \in A : s[k] = u[phi[k]])
  BY DEF Matches
<1>1. phi \in [A -> B] /\ \A i \in B : \E k \in A : phi[k] = i
  BY DEF Matches, Surjection
<1>2. \A j, k \in A : phi[j] <= phi[k] <=> j <= k
  <2>1. TAKE j, k \in A
  <2>2. j \in Int /\ k \in Int /\ phi[j] \in Int /\ phi[k] \in Int
    BY <1>1
  <2>3. (j < k => phi[j] < phi[k]) /\ (k < j => phi[k] < phi[j]) /\ (j = k => phi[j] = phi[k])
    BY <1>0
  <2>4. QED
    BY <2>2, <2>3
<1>3. \A j, k \in A : phi[j] = phi[k] => j = k
  BY <1>1, <1>2
<1>4. Cardinality(A) = Cardinality(B)
  <2>1. phi \in Bijection(A, B)
    BY <1>1, <1>3 DEF Bijection, Injection, Surjection, IsInjective
  <2>2. QED
    BY <2>1, FS_Bijection DEF ExistsBijection
<1>5. ASSUME NEW k \in A
      PROVE  Cardinality({i \in B : i <= phi[k]}) = Cardinality({j \in A : j <= k})
  <2> DEFINE U == {j \in A : j <= k}
             V == {i \in B : i <= phi[k]}
             f == [j \in U |-> phi[j]]
  <2>1. f \in [U -> V]
    BY <1>1, <1>2
  <2>2. \A i \in V : \E j \in U : f[j] = i
    BY <1>1, <1>2
  <2>3. \A i, j \in U : f[i] = f[j] => i = j
    BY <1>3
  <2> HIDE DEF f
  <2>4. f \in Bijection(U, V)
    BY <2>1, <2>2, <2>3 DEF Bijection, Injection, Surjection, IsInjective
  <2>5. IsFiniteSet(U)
    BY FS_Subset
  <2>6. QED
    BY <2>4, <2>5, FS_Bijection DEF ExistsBijection
<1>6. /\ Cardinality(A) \in Nat /\ DOMAIN nthA = 1 .. Cardinality(A)
      /\ \A n \in 1 .. Cardinality(A) : nthA[n] \in A /\ Cardinality({j \in A : j <= nthA[n]}) = n
  BY Ascending
<1>7. /\ DOMAIN nthB = 1 .. Cardinality(B)
      /\ \A n \in 1 .. Cardinality(B) : nthB[n] \in B /\ Cardinality({j \in B : j <= nthB[n]}) = n
      /\ \A i \in B : \E n \in 1 .. Cardinality(B) : nthB[n] = i
  BY Ascending
<1>8. /\ Filtered(s, A) = [n \in 1 .. Cardinality(A) |-> s[nthA[n]]]
      /\ Filtered(u, B) = [n \in 1 .. Cardinality(B) |-> u[nthB[n]]]
  BY DEF Filtered
<1> HIDE DEF nthA, nthB
<1>9. ASSUME NEW n \in 1 .. Cardinality(A) PROVE nthB[n] = phi[nthA[n]]
  <2>1. nthA[n] \in A /\ phi[nthA[n]] \in B
    BY <1>1, <1>6
  <2>2. Cardinality({i \in B : i <= phi[nthA[n]]}) = n
    BY <1>5, <1>6, <2>1
  <2>3. PICK l \in 1 .. Cardinality(B) : nthB[l] = phi[nthA[n]]
    BY <1>7, <2>1
  <2>4. l = n
    BY <1>7, <2>2, <2>3
  <2>5. QED
    BY <2>3, <2>4
<1>10. \A n \in 1 .. Cardinality(A) : s[nthA[n]] = u[nthB[n]]
  BY <1>0, <1>6, <1>9
<1>11. QED
  BY <1>4, <1>8, <1>10

LEMMA SeqToSet ==
    ASSUME NEW S, NEW s \in Seq(S)
    PROVE  s \in Seq(ToSet(s)) /\ ToSet(s) \subseteq S
<1>1. DOMAIN s = 1 .. Len(s) /\ Len(s) \in Nat /\ s = [i \in 1 .. Len(s) |-> s[i]]
  BY LenProperties
<1>2. \A i \in 1 .. Len(s) : s[i] \in S /\ s[i] \in ToSet(s)
  BY <1>1, ElementOfSeq DEF ToSet
<1>3. [i \in 1 .. Len(s) |-> s[i]] \in Seq(ToSet(s))
  BY <1>1, <1>2, IsASeq
<1>4. QED
  BY <1>1, <1>2, <1>3 DEF ToSet

LEMMA JoinSets ==
    ASSUME NEW S, NEW s \in Seq(S), NEW t \in Seq(S)
    PROVE  s \o t \in Seq(S) /\ ToSet(s \o t) = ToSet(s) \cup ToSet(t)
<1> DEFINE st == s \o t
           m  == Len(s)
           n  == Len(t)
<1>1. DOMAIN s = 1 .. m /\ m \in Nat /\ DOMAIN t = 1 .. n /\ n \in Nat
  BY LenProperties
<1>2. /\ st \in Seq(S) /\ Len(st) = m + n
      /\ \A i \in 1 .. m + n : st[i] = IF i <= m THEN s[i] ELSE t[i - m]
  BY ConcatProperties
<1> HIDE DEF st, m, n
<1>3. DOMAIN st = 1 .. m + n
  BY <1>2, LenProperties
<1>4. \A i \in 1 .. m : i \in 1 .. m + n /\ i <= m
  BY <1>1
<1>5. \A i \in 1 .. n : m + i \in 1 .. m + n /\ ~(m + i <= m) /\ m + i - m = i
  BY <1>1
<1>6. \A i \in 1 .. m + n : i <= m => i \in 1 .. m
  BY <1>1
<1>7. \A i \in 1 .. m + n : ~(i <= m) => i - m \in 1 .. n
  BY <1>1
<1>8. ASSUME NEW x \in ToSet(st) PROVE x \in ToSet(s) \cup ToSet(t)
  <2>1. PICK i \in 1 .. m + n : x = st[i]
    BY <1>3, <1>8 DEF ToSet
  <2>2. CASE i <= m
    BY <1>1, <1>2, <1>6, <2>1, <2>2 DEF ToSet
  <2>3. CASE ~(i <= m)
    BY <1>1, <1>2, <1>7, <2>1, <2>3 DEF ToSet
  <2>4. QED
    BY <2>2, <2>3
<1>9. ASSUME NEW x \in ToSet(s) PROVE x \in ToSet(st)
  BY <1>1, <1>2, <1>3, <1>4, <1>9 DEF ToSet
<1>10. ASSUME NEW x \in ToSet(t) PROVE x \in ToSet(st)
  <2>1. PICK i \in 1 .. n : x = t[i]
    BY <1>1, <1>10 DEF ToSet
  <2> DEFINE k == m + i
  <2>2. k \in 1 .. m + n /\ ~(k <= m) /\ k - m = i
    BY <1>1
  <2> HIDE DEF k
  <2>3. st[k] = x
    BY <1>2, <2>1, <2>2
  <2>4. QED
    BY <1>3, <2>2, <2>3 DEF ToSet
<1>11. QED
  BY <1>2, <1>8, <1>9, <1>10 DEF st

\* The positions in order are these positions.
LEMMA Positions ==
    ASSUME NEW S, NEW s \in Seq(S), NEW at \in SUBSET DOMAIN s
    PROVE  LET nth == InOrder(at, [i \in at |-> {j \in at : j <= i}])
           IN  /\ Cardinality(at) \in Nat
               /\ \A n \in 1 .. Cardinality(at) : nth[n] \in at
               /\ \A i \in at : \E n \in 1 .. Cardinality(at) : nth[n] = i
<1> DEFINE upTo == [i \in at |-> {j \in at : j <= i}]
<1>1. at \subseteq Int /\ IsFiniteSet(at)
  <2>1. DOMAIN s = 1 .. Len(s) /\ Len(s) \in Nat
    BY LenProperties
  <2>2. IsFiniteSet(1 .. Len(s))
    BY <2>1, FS_Interval
  <2>3. QED
    BY <2>1, <2>2, FS_Subset
<1>2. upTo \in [at -> SUBSET at] /\ \A i \in at : i \in upTo[i]
  BY <1>1
<1>3. \A i, k \in at : i # k => /\ upTo[i] # upTo[k]
                                /\ upTo[i] \subseteq upTo[k] \/ upTo[k] \subseteq upTo[i]
  BY <1>1
<1> HIDE DEF upTo
<1> DEFINE nth == InOrder(at, upTo)
<1>4. /\ Cardinality(at) \in Nat
      /\ \A n \in 1 .. Cardinality(at) : nth[n] \in at
      /\ \A i \in at : \E n \in 1 .. Cardinality(at) : nth[n] = i
  BY <1>1, <1>2, <1>3, Ordered
<1>5. QED
  BY <1>4 DEF upTo

\* Filtered has just what the sequence has at these positions.
LEMMA FilteredSeq ==
    ASSUME NEW S, NEW s \in Seq(S), NEW at \in SUBSET DOMAIN s
    PROVE  /\ Filtered(s, at) \in Seq(S)
           /\ ToSet(Filtered(s, at)) = {s[i] : i \in at}
<1> DEFINE nth == InOrder(at, [i \in at |-> {j \in at : j <= i}])
<1>1. Filtered(s, at) = [n \in 1 .. Cardinality(at) |-> s[nth[n]]]
  BY DEF Filtered
<1>2. /\ Cardinality(at) \in Nat
      /\ \A n \in 1 .. Cardinality(at) : nth[n] \in at
      /\ \A i \in at : \E n \in 1 .. Cardinality(at) : nth[n] = i
  BY Positions
<1> HIDE DEF nth
<1>3. \A n \in 1 .. Cardinality(at) : s[nth[n]] \in S
  BY <1>2, LenProperties, ElementOfSeq
<1>4. Filtered(s, at) \in Seq(S)
  BY <1>1, <1>2, <1>3, IsASeq
<1>5. ToSet(Filtered(s, at)) = {s[i] : i \in at}
  <2>1. ToSet(Filtered(s, at)) = {s[nth[n]] : n \in 1 .. Cardinality(at)}
    BY <1>1 DEF ToSet
  <2>2. {s[nth[n]] : n \in 1 .. Cardinality(at)} \subseteq {s[i] : i \in at}
    BY <1>2
  <2>3. {s[i] : i \in at} \subseteq {s[nth[n]] : n \in 1 .. Cardinality(at)}
    BY <1>2
  <2>4. QED
    BY <2>1, <2>2, <2>3
<1>6. QED
  BY <1>4, <1>5

\* What is elsewhere in a sequence does not matter.
LEMMA FilteredAlike ==
    ASSUME NEW S, NEW s \in Seq(S), NEW at \in SUBSET DOMAIN s, NEW t, \A i \in at : t[i] = s[i]
    PROVE  Filtered(t, at) = Filtered(s, at)
<1> DEFINE nth == InOrder(at, [i \in at |-> {j \in at : j <= i}])
<1>1. /\ Filtered(s, at) = [n \in 1 .. Cardinality(at) |-> s[nth[n]]]
      /\ Filtered(t, at) = [n \in 1 .. Cardinality(at) |-> t[nth[n]]]
  BY DEF Filtered
<1>2. \A n \in 1 .. Cardinality(at) : nth[n] \in at
  BY Positions
<1> HIDE DEF nth
<1>3. QED
  BY <1>1, <1>2

\* One position in a sequence of sequences comes before another.
Precedes(p, q) == p[1] < q[1] \/ (p[1] = q[1] /\ p[2] < q[2])

\* The k-th element of the sequence s is from position nth[k] of ss, and these are in order.
Places(nth, m, s, ss, n) ==
    /\ m \in Nat /\ s = [k \in 1 .. m |-> s[k]]
    /\ \A k \in 1 .. m : \E i \in 1 .. n : \E j \in 1 .. Len(ss[i]) : nth[k] = <<i, j>> /\ s[k] = ss[i][j]
    /\ \A i \in 1 .. n : \A j \in 1 .. Len(ss[i]) : \E k \in 1 .. m : nth[k] = <<i, j>>
    /\ \A k, l \in 1 .. m : k < l => Precedes(nth[k], nth[l])

\* The joined sequence has its parts one after the other.
LEMMA JoinedInOrder ==
    ASSUME NEW S, NEW ss, NEW n \in Nat, DOMAIN ss = 1 .. n, \A i \in 1 .. n : ss[i] \in Seq(S)
    PROVE  \E m, nth : Places(nth, m, Joined(ss), ss, n)
<1> DEFINE at == UNION {{i} \X DOMAIN ss[i] : i \in DOMAIN ss}
           upTo == [p \in at |-> {q \in at : q[1] < p[1] \/ (q[1] = p[1] /\ q[2] <= p[2])}]
           nth == InOrder(at, upTo)
<1>1. \A i \in 1 .. n : DOMAIN ss[i] = 1 .. Len(ss[i]) /\ Len(ss[i]) \in Nat
  BY LenProperties
<1>2. \A p : p \in at <=> \E i \in 1 .. n : \E j \in 1 .. Len(ss[i]) : p = <<i, j>>
  BY <1>1
<1>3. IsFiniteSet(at)
  <2> DEFINE part == [i \in 1 .. n |-> {i} \X DOMAIN ss[i]]
             parts == {part[i] : i \in 1 .. n}
  <2>1. IsFiniteSet(1 .. n)
    BY FS_Interval
  <2>2. part \in Surjection(1 .. n, parts)
    BY DEF Surjection
  <2>3. IsFiniteSet(parts)
    BY <2>1, <2>2, FS_Surjection
  <2>4. \A i \in 1 .. n : IsFiniteSet(part[i])
    <3>1. TAKE i \in 1 .. n
    <3>2. IsFiniteSet({i}) /\ IsFiniteSet(1 .. Len(ss[i]))
      <4>1. 1 \in Int /\ Len(ss[i]) \in Int
        BY <1>1
      <4>2. QED
        BY <4>1, FS_Interval, FS_Singleton
    <3>3. QED
      BY <1>1, <3>2, FS_Product
  <2>5. IsFiniteSet(UNION parts)
    BY <2>3, <2>4, FS_UNION
  <2>6. at = UNION parts
    OBVIOUS
  <2>7. QED
    BY <2>5, <2>6
<1> HIDE DEF at
<1>4. \A p \in at : p[1] \in Int /\ p[2] \in Int /\ p = <<p[1], p[2]>>
  BY <1>1, <1>2
<1>5. upTo \in [at -> SUBSET at] /\ \A p \in at : p \in upTo[p]
  BY <1>4
<1>6. \A p, q \in at : p # q => /\ upTo[p] # upTo[q]
                                /\ upTo[p] \subseteq upTo[q] \/ upTo[q] \subseteq upTo[p]
  <2>1. SUFFICES ASSUME NEW p \in at, NEW q \in at, p # q
                 PROVE  upTo[p] # upTo[q] /\ (upTo[p] \subseteq upTo[q] \/ upTo[q] \subseteq upTo[p])
    OBVIOUS
  <2>2. \/ p[1] < q[1] \/ (p[1] = q[1] /\ p[2] < q[2])
        \/ q[1] < p[1] \/ (q[1] = p[1] /\ q[2] < p[2])
    BY <1>4, <2>1
  <2>3. CASE p[1] < q[1] \/ (p[1] = q[1] /\ p[2] < q[2])
    <3>1. upTo[p] \subseteq upTo[q] /\ q \notin upTo[p] /\ q \in upTo[q]
      BY <1>4, <2>3
    <3>2. QED
      BY <3>1
  <2>4. CASE q[1] < p[1] \/ (q[1] = p[1] /\ q[2] < p[2])
    <3>1. upTo[q] \subseteq upTo[p] /\ p \notin upTo[q] /\ p \in upTo[p]
      BY <1>4, <2>4
    <3>2. QED
      BY <3>1
  <2>5. QED
    BY <2>2, <2>3, <2>4
<1> DEFINE m == Cardinality(at)
           val(k) == ss[nth[k][1]][nth[k][2]]
<1>7. Joined(ss) = [k \in 1 .. m |-> val(k)]
  <2>1. DOMAIN nth = 1 .. m
    BY <1>3, <1>5, <1>6, Ordered
  <2>2. QED
    BY <2>1 DEF Joined, at
<1>8. \A p, q \in at : p # q /\ upTo[p] \subseteq upTo[q] => Precedes(p, q)
  <2>1. SUFFICES ASSUME NEW p \in at, NEW q \in at, p # q, p \in upTo[q] PROVE Precedes(p, q)
    BY <1>5
  <2>2. p[1] < q[1] \/ (p[1] = q[1] /\ p[2] <= q[2])
    BY <2>1
  <2>3. p[2] = q[2] => p[1] # q[1]
    BY <1>4, <2>1
  <2>4. QED
    BY <1>4, <2>2, <2>3 DEF Precedes
<1> HIDE DEF upTo
<1>9. /\ m \in Nat
      /\ \A k \in 1 .. m : nth[k] \in at
      /\ \A p \in at : \E k \in 1 .. m : nth[k] = p
  BY <1>3, <1>5, <1>6, Ordered DEF m
<1>10. \A k, l \in 1 .. m : k < l => nth[k] # nth[l] /\ upTo[nth[k]] \subseteq upTo[nth[l]]
  BY <1>3, <1>5, <1>6, Increasing DEF m
<1> HIDE DEF nth, m
<1>11. \A k \in 1 .. m : \E i \in 1 .. n : \E j \in 1 .. Len(ss[i]) : nth[k] = <<i, j>> /\ Joined(ss)[k] = ss[i][j]
  <2>1. TAKE k \in 1 .. m
  <2>2. PICK i \in 1 .. n : \E j \in 1 .. Len(ss[i]) : nth[k] = <<i, j>>
    BY <1>2, <1>9
  <2>3. PICK j \in 1 .. Len(ss[i]) : nth[k] = <<i, j>>
    BY <2>2
  <2>4. nth[k][1] = i /\ nth[k][2] = j
    BY <2>3
  <2>5. Joined(ss)[k] = ss[i][j]
    BY <1>7, <2>4
  <2>6. QED
    BY <2>3, <2>5
<1>12. \A i \in 1 .. n : \A j \in 1 .. Len(ss[i]) : \E k \in 1 .. m : nth[k] = <<i, j>>
  BY <1>2, <1>9
<1>13. \A k, l \in 1 .. m : k < l => Precedes(nth[k], nth[l])
  BY <1>8, <1>9, <1>10
<1>14. Joined(ss) = [k \in 1 .. m |-> Joined(ss)[k]]
  BY <1>7
<1>15. QED
  BY <1>9, <1>11, <1>12, <1>13, <1>14 DEF Places

\* The joined sequence has what its parts have.
LEMMA JoinedSet ==
    ASSUME NEW S, NEW ss, NEW n \in Nat, DOMAIN ss = 1 .. n, \A i \in 1 .. n : ss[i] \in Seq(S)
    PROVE  /\ Joined(ss) \in Seq(S)
           /\ ToSet(Joined(ss)) = UNION {ToSet(ss[i]) : i \in 1 .. n}
<1>1. \A i \in 1 .. n : DOMAIN ss[i] = 1 .. Len(ss[i]) /\ Len(ss[i]) \in Nat
  BY LenProperties
<1>2. PICK m, nth : Places(nth, m, Joined(ss), ss, n)
  BY JoinedInOrder
<1> DEFINE val(k) == Joined(ss)[k]
<1>3. Joined(ss) = [k \in 1 .. m |-> val(k)]
  BY <1>2 DEF Places
<1>4. /\ \A k \in 1 .. m : \E i \in 1 .. n : \E j \in 1 .. Len(ss[i]) : val(k) = ss[i][j]
      /\ \A i \in 1 .. n : \A j \in 1 .. Len(ss[i]) : \E k \in 1 .. m : val(k) = ss[i][j]
  <2>1. \A k \in 1 .. m : \E i \in 1 .. n : \E j \in 1 .. Len(ss[i]) : nth[k] = <<i, j>> /\ val(k) = ss[i][j]
    BY <1>2 DEF Places
  <2>2. ASSUME NEW i \in 1 .. n, NEW j \in 1 .. Len(ss[i]) PROVE \E k \in 1 .. m : val(k) = ss[i][j]
    <3>1. PICK k \in 1 .. m : nth[k] = <<i, j>>
      BY <1>2 DEF Places
    <3>2. PICK p \in 1 .. n : \E q \in 1 .. Len(ss[p]) : nth[k] = <<p, q>> /\ val(k) = ss[p][q]
      BY <2>1
    <3>3. QED
      BY <3>1, <3>2
  <2>3. QED
    BY <2>1, <2>2
<1> HIDE DEF val
<1>5. \A i \in 1 .. n : \A j \in 1 .. Len(ss[i]) : ss[i][j] \in S
  BY <1>1, ElementOfSeq
<1>6. Joined(ss) \in Seq(S)
  <2>1. ASSUME NEW k \in 1 .. m PROVE val(k) \in S
    <3>1. PICK i \in 1 .. n : \E j \in 1 .. Len(ss[i]) : val(k) = ss[i][j]
      BY <1>4
    <3>2. QED
      BY <1>5, <3>1
  <2>2. m \in Nat
    BY <1>2 DEF Places
  <2>3. [k \in 1 .. m |-> val(k)] \in Seq(S)
    BY <2>1, <2>2, IsASeq
  <2>4. QED
    BY <1>3, <2>3
<1>7. ToSet(Joined(ss)) = UNION {ToSet(ss[i]) : i \in 1 .. n}
  <2>1. ToSet(Joined(ss)) = {val(k) : k \in 1 .. m}
    BY <1>3 DEF ToSet
  <2>2. \A i \in 1 .. n : ToSet(ss[i]) = {ss[i][j] : j \in 1 .. Len(ss[i])}
    BY <1>1 DEF ToSet
  <2>3. ASSUME NEW x \in ToSet(Joined(ss)) PROVE \E i \in 1 .. n : x \in ToSet(ss[i])
    <3>1. PICK k \in 1 .. m : x = val(k)
      BY <2>1
    <3>2. PICK i \in 1 .. n : \E j \in 1 .. Len(ss[i]) : val(k) = ss[i][j]
      BY <1>4
    <3>3. QED
      BY <2>2, <3>1, <3>2
  <2>4. ASSUME NEW i \in 1 .. n, NEW x \in ToSet(ss[i]) PROVE x \in ToSet(Joined(ss))
    <3>1. PICK j \in 1 .. Len(ss[i]) : x = ss[i][j]
      BY <2>2
    <3>2. QED
      BY <1>4, <2>1, <3>1
  <2>5. QED
    BY <2>3, <2>4
<1>8. QED
  BY <1>6, <1>7

----------------------------------------------------------------------------
(* Collections                                                             *)

\* The fields that hold what was printed, and not webhooks or what was selected.
Plain == Fields \ {"ValidatingWebhookConfiguration", "MutatingWebhookConfiguration", "CustomResources"}

\* A sequence of what was printed, sorted into the field f.
Sorted(s, f, printed) == s \in Seq(printed) /\ \A o \in ToSet(s) : o \in printed /\ FieldOf(o) = f

LEMMA ReadSorted ==
    ASSUME NEW S, NEW s \in Seq(S), NEW f \in Plain
    PROVE  /\ Read(s)[f] \in Seq(S)
           /\ ToSet(Read(s)[f]) = {o \in ToSet(s) : FieldOf(o) = f}
<1> DEFINE at == {i \in DOMAIN s : FieldOf(s[i]) = f}
<1>1. Read(s)[f] = Filtered(s, at)
  BY DEF Read, Where, Plain
<1>2. Filtered(s, at) \in Seq(S) /\ ToSet(Filtered(s, at)) = {s[i] : i \in at}
  BY FilteredSeq
<1>3. {s[i] : i \in at} = {o \in ToSet(s) : FieldOf(o) = f}
  BY DEF ToSet
<1>4. QED
  BY <1>1, <1>2, <1>3

LEMMA UniqueSorted ==
    ASSUME NEW S, NEW s \in Seq(S), NEW seen
    PROVE  Unique(s, seen) \in Seq(S) /\ ToSet(Unique(s, seen)) \subseteq ToSet(s)
<1> DEFINE at == {i \in DOMAIN s : /\ Content(s[i]) \notin seen
                                   /\ \A j \in 1 .. i - 1 : Content(s[j]) # Content(s[i])}
<1>1. Unique(s, seen) = Filtered(s, at)
  BY DEF Unique
<1>2. Filtered(s, at) \in Seq(S) /\ ToSet(Filtered(s, at)) = {s[i] : i \in at}
  BY FilteredSeq
<1>3. {s[i] : i \in at} \subseteq ToSet(s)
  BY DEF ToSet
<1>4. QED
  BY <1>1, <1>2, <1>3

\* Selecting custom resources and dropping duplicates leave what is sorted sorted.
LEMMA DeduplicatedSorted ==
    ASSUME NEW c, DOMAIN c = Fields, NEW f \in Plain, NEW S, Sorted(c[f], f, S)
    PROVE  LET d == Deduplicated(WithCustomResources(c))
           IN  DOMAIN d = Fields /\ Sorted(d[f], f, S) /\ (f \notin ToSet(Hashed) => d[f] = c[f])
<1> DEFINE w == WithCustomResources(c)
           d == Deduplicated(w)
<1>1. w[f] = c[f]
  BY DEF WithCustomResources, Plain, Fields
<1> HIDE DEF w
<1>2. DOMAIN d = Fields /\ d[f] = IF f \in ToSet(Hashed) THEN Unique(w[f], SeenBefore(w, f)) ELSE w[f]
  BY DEF Deduplicated, Plain
<1>3. /\ Unique(c[f], SeenBefore(w, f)) \in Seq(S)
      /\ ToSet(Unique(c[f], SeenBefore(w, f))) \subseteq ToSet(c[f])
  BY UniqueSorted DEF Sorted
<1>4. QED
  BY <1>1, <1>2, <1>3 DEF Sorted, w

\* What kustomize prints for a project.
Printed(p) == ToSet(Objects[p])

IsBase(b) == b = <<>> \/ IsCSV(b)

LEMMA ObjectsPrinted ==
    ASSUME NEW p \in SUBSET Features
    PROVE  /\ Objects[p] \in Seq(Printed(p)) /\ Printed(p) \subseteq Everything
           /\ \A o \in Printed(p) : o.kind = "ClusterServiceVersion" => IsCSV(o)
<1> DEFINE of == Where(Manifests, LAMBDA m : m.feature \in p \cup {"core"})
           at == {i \in DOMAIN Manifests : Manifests[i].feature \in p \cup {"core"}}
<1>1. Manifests \in Seq(ToSet(Manifests))
  BY ManifestsAssumption
<1>2. of = Filtered(Manifests, at)
  BY DEF Where
<1> HIDE DEF of
<1>3. of \in Seq(ToSet(Manifests)) /\ ToSet(of) = {Manifests[i] : i \in at}
  BY <1>1, <1>2, FilteredSeq
<1>4. Objects[p] = [i \in DOMAIN of |-> of[i].object]
  BY DEF Objects, of
<1>5. DOMAIN of = 1 .. Len(of) /\ Len(of) \in Nat
  BY <1>3, LenProperties
<1>6. Printed(p) = {of[i].object : i \in DOMAIN of}
  BY <1>4 DEF Printed, ToSet
<1>7. Objects[p] \in Seq(Printed(p))
  BY <1>4, <1>5, <1>6, IsASeq
<1>8. ASSUME NEW o \in Printed(p) PROVE o \in Everything
  <2>1. PICK i \in DOMAIN of : o = of[i].object
    BY <1>6
  <2>2. of[i] \in ToSet(of)
    BY <2>1 DEF ToSet
  <2>3. PICK k \in at : of[i] = Manifests[k]
    BY <1>3, <2>2
  <2>4. QED
    BY <2>1, <2>3 DEF Everything
<1>9. \A o \in Everything : o.kind = "ClusterServiceVersion" => IsCSV(o)
  BY ManifestsAssumption DEF IsResource
<1>10. QED
  BY <1>7, <1>8, <1>9

\* The stream is what is printed, and the base with it.
LEMMA StreamSeq ==
    ASSUME NEW p \in SUBSET Features, NEW b, IsBase(b), NEW mode
    PROVE  LET s == Stream(p, b, mode)
           IN  /\ s \in Seq(ToSet(s))
               /\ \A o \in ToSet(s) : o \in Printed(p) \/ (IsCSV(b) /\ o = b)
<1> DEFINE s == Stream(p, b, mode)
           rest == IF mode = "pipe" /\ b # <<>> THEN <<b>> ELSE <<>>
<1>1. Objects[p] \in Seq(Printed(p))
  BY ObjectsPrinted
<1>2. CASE mode = "pipe" /\ b # <<>>
  <2>1. <<b>> \in Seq({b}) /\ IsCSV(b)
    BY <1>2 DEF IsBase
  <2>2. Objects[p] \in Seq(Printed(p) \cup {b}) /\ <<b>> \in Seq(Printed(p) \cup {b})
    BY <1>1, <2>1, SeqMonotonic
  <2>3. s = Objects[p] \o <<b>>
    BY <1>2 DEF Stream
  <2>4. s \in Seq(Printed(p) \cup {b})
    BY <2>2, <2>3, ConcatProperties
  <2>5. s \in Seq(ToSet(s)) /\ ToSet(s) \subseteq Printed(p) \cup {b}
    BY <2>4, SeqToSet
  <2>6. QED
    BY <2>1, <2>5
<1>3. CASE ~(mode = "pipe" /\ b # <<>>)
  <2>1. s = Objects[p] \o <<>>
    BY <1>3 DEF Stream
  <2>2. s = Objects[p]
    BY <1>1, <2>1, ConcatEmptySeq
  <2>3. s \in Seq(ToSet(s)) /\ ToSet(s) \subseteq Printed(p)
    BY <1>1, <2>2, SeqToSet
  <2>4. QED
    BY <2>3
<1>4. QED
  BY <1>2, <1>3

LEMMA FiniteImage ==
    ASSUME NEW f, IsFiniteSet(DOMAIN f)
    PROVE  IsFiniteSet({f[x] : x \in DOMAIN f})
<1> DEFINE g == [x \in DOMAIN f |-> f[x]]
           T == {f[x] : x \in DOMAIN f}
<1>1. g \in Surjection(DOMAIN f, T)
  BY DEF Surjection
<1>2. QED
  BY <1>1, FS_Surjection

LEMMA PositionsFinite ==
    ASSUME NEW S, NEW s \in Seq(S)
    PROVE  IsFiniteSet(DOMAIN s)
<1>1. DOMAIN s = 1 .. Len(s) /\ Len(s) \in Nat /\ 1 \in Int /\ Len(s) \in Int
  BY LenProperties
<1>2. QED
  BY <1>1, FS_Interval

\* A sequence of sequences is joined into one.
LEMMA JoinedParts ==
    ASSUME NEW ss, NEW n \in Nat, DOMAIN ss = 1 .. n, \A i \in 1 .. n : ss[i] \in Seq(ToSet(ss[i]))
    PROVE  Joined(ss) \in Seq(ToSet(Joined(ss)))
<1> DEFINE S == UNION {ToSet(ss[i]) : i \in 1 .. n}
<1>1. \A i \in 1 .. n : ToSet(ss[i]) \subseteq S
  OBVIOUS
<1> HIDE DEF S
<1>2. \A i \in 1 .. n : ss[i] \in Seq(S)
  BY <1>1, SeqMonotonic
<1>3. Joined(ss) \in Seq(S)
  BY <1>2, JoinedSet
<1>4. QED
  BY <1>3, SeqToSet

\* The kinds of the API types are finitely many.
LEMMA KindsFinite ==
    ASSUME NEW gvks
    PROVE  IsFiniteSet(KindTypes(Packages, gvks))
<1> DEFINE all  == UNION {{<<i, n>> : n \in DOMAIN Packages[i].types} : i \in Loaded(Packages)}
           of   == [i \in Loaded(Packages) |-> {<<i, n>> : n \in DOMAIN Packages[i].types}]
           sets == {of[i] : i \in DOMAIN of}
<1>1. IsFiniteSet(Loaded(Packages)) /\ Loaded(Packages) \subseteq DOMAIN Packages
  <2>1. IsFiniteSet(DOMAIN Packages)
    BY PackagesAssumption, PositionsFinite
  <2>2. Loaded(Packages) \subseteq DOMAIN Packages
    BY DEF Loaded
  <2>3. QED
    BY <2>1, <2>2, FS_Subset
<1>2. IsFiniteSet(sets)
  <2>1. DOMAIN of = Loaded(Packages)
    OBVIOUS
  <2> HIDE DEF of
  <2>2. QED
    BY <1>1, <2>1, FiniteImage
<1>3. ASSUME NEW i \in Loaded(Packages) PROVE IsFiniteSet(of[i])
  <2> DEFINE T == DOMAIN Packages[i].types
             f == [n \in T |-> <<i, n>>]
  <2>1. IsFiniteSet(T)
    BY <1>1, PackagesAssumption DEF ToSet
  <2>2. of[i] = {f[n] : n \in DOMAIN f} /\ DOMAIN f = T
    BY <1>3
  <2> HIDE DEF f, T, of
  <2>3. QED
    BY <2>1, <2>2, FiniteImage
<1>4. all = UNION sets
  OBVIOUS
<1>5. \A s \in sets : IsFiniteSet(s)
  BY <1>3
<1>6. KindTypes(Packages, gvks) \subseteq all
  BY DEF KindTypes
<1> HIDE DEF all, sets
<1>7. IsFiniteSet(all)
  BY <1>2, <1>4, <1>5, FS_UNION
<1>8. QED
  BY <1>6, <1>7, FS_Subset

\* What is in order is a sequence.
LEMMA InOrderSeq ==
    ASSUME NEW P, IsFiniteSet(P), NEW upTo
    PROVE  /\ InOrder(P, upTo) \in Seq(ToSet(InOrder(P, upTo)))
           /\ Cardinality(P) \in Nat /\ DOMAIN InOrder(P, upTo) = 1 .. Cardinality(P)
<1> DEFINE n == Cardinality(P)
           nth(i) == CHOOSE p \in P : Cardinality(upTo[p]) = i
<1>1. n \in Nat
  BY FS_CardinalityType
<1> HIDE DEF n, nth
<1>2. InOrder(P, upTo) = [i \in 1 .. n |-> nth(i)]
  BY DEF InOrder, n, nth
<1>3. \A i \in 1 .. n : nth(i) \in ToSet(InOrder(P, upTo))
  BY <1>2 DEF ToSet
<1>4. InOrder(P, upTo) \in Seq(ToSet(InOrder(P, upTo)))
  BY <1>1, <1>2, <1>3, IsASeq
<1>5. QED
  BY <1>1, <1>2, <1>4 DEF n

----------------------------------------------------------------------------
(* The descriptions of owned CRDs                                          *)

\* The kinds that a project may list, and the parts of the updated list.
AllKinds == KindTypes(Packages, UNION {Resources[f] : f \in Features \cup {"core"}})

KindsOf(pkgs, types)      == {GVKAt(pkgs, t) : t \in types}
GeneratedFor(pkgs, types) ==
    {[order |-> TypeAt(pkgs, t).order, desc |-> BuildCRDDescription(pkgs, t)] : t \in types}
DescsAt(pkgs, types, n)   == {g.desc : g \in {g \in GeneratedFor(pkgs, types) : g.order = n}}
MadeAt(pkgs, types, n)    ==
    InOrder(DescsAt(pkgs, types, n),
            [d \in DescsAt(pkgs, types, n) |-> {e \in DescsAt(pkgs, types, n) : SortKey(e) <= SortKey(d)}])
OthersAt(owned, pkgs, types, n) ==
    IF n + 1 \in DOMAIN owned /\ DescToGVK(owned[n + 1]) \notin KindsOf(pkgs, types) THEN <<owned[n + 1]>> ELSE <<>>
OrdersOf(owned, pkgs, types) == {g.order : g \in GeneratedFor(pkgs, types)} \cup {i - 1 : i \in DOMAIN owned}
NthOrder(owned, pkgs, types) ==
    InOrder(OrdersOf(owned, pkgs, types),
            [n \in OrdersOf(owned, pkgs, types) |-> {m \in OrdersOf(owned, pkgs, types) : m <= n}])
PartsOf(owned, pkgs, types) ==
    [i \in DOMAIN NthOrder(owned, pkgs, types) |->
        MadeAt(pkgs, types, NthOrder(owned, pkgs, types)[i])
        \o OthersAt(owned, pkgs, types, NthOrder(owned, pkgs, types)[i])]

LEMMA UpdatedParts ==
    ASSUME NEW owned, NEW pkgs, NEW types
    PROVE  UpdateDefinitionsByKey(owned, pkgs, types) = Joined(PartsOf(owned, pkgs, types))
BY DEF UpdateDefinitionsByKey, PartsOf, NthOrder, OrdersOf, OthersAt, MadeAt, DescsAt, GeneratedFor, KindsOf

LEMMA GeneratedFinite ==
    ASSUME NEW pkgs, NEW types, IsFiniteSet(types)
    PROVE  /\ IsFiniteSet(GeneratedFor(pkgs, types))
           /\ \A n : IsFiniteSet(DescsAt(pkgs, types, n))
<1> DEFINE f == [t \in types |-> [order |-> TypeAt(pkgs, t).order, desc |-> BuildCRDDescription(pkgs, t)]]
<1>1. GeneratedFor(pkgs, types) = {f[t] : t \in DOMAIN f} /\ DOMAIN f = types
  BY DEF GeneratedFor
<1> HIDE DEF f
<1>2. IsFiniteSet(GeneratedFor(pkgs, types))
  BY <1>1, FiniteImage
<1>3. ASSUME NEW n PROVE IsFiniteSet(DescsAt(pkgs, types, n))
  <2> DEFINE of == {g \in GeneratedFor(pkgs, types) : g.order = n}
             h  == [g \in of |-> g.desc]
  <2>1. IsFiniteSet(of)
    BY <1>2, FS_Subset
  <2>2. DescsAt(pkgs, types, n) = {h[g] : g \in DOMAIN h} /\ DOMAIN h = of
    BY DEF DescsAt
  <2> HIDE DEF h, of
  <2>3. QED
    BY <2>1, <2>2, FiniteImage
<1>4. QED
  BY <1>2, <1>3

LEMMA DescribedAt ==
    ASSUME NEW pkgs, NEW types, NEW n, NEW d
    PROVE  d \in DescsAt(pkgs, types, n) <=>
             \E t \in types : TypeAt(pkgs, t).order = n /\ d = BuildCRDDescription(pkgs, t)
<1> DEFINE G(t) == [order |-> TypeAt(pkgs, t).order, desc |-> BuildCRDDescription(pkgs, t)]
<1>1. \A g : g \in GeneratedFor(pkgs, types) <=> \E t \in types : g = G(t)
  BY DEF GeneratedFor
<1>2. d \in DescsAt(pkgs, types, n) <=> \E g \in GeneratedFor(pkgs, types) : g.order = n /\ d = g.desc
  BY DEF DescsAt
<1>3. \A t : G(t).order = TypeAt(pkgs, t).order /\ G(t).desc = BuildCRDDescription(pkgs, t)
  OBVIOUS
<1> HIDE DEF G
<1>4. QED
  BY <1>1, <1>2, <1>3

LEMMA OrdersFinite ==
    ASSUME NEW S, NEW owned \in Seq(S), NEW pkgs, NEW types, IsFiniteSet(types)
    PROVE  IsFiniteSet(OrdersOf(owned, pkgs, types))
<1> DEFINE gen == GeneratedFor(pkgs, types)
           f == [g \in gen |-> g.order]
           h == [i \in DOMAIN owned |-> i - 1]
<1>1. IsFiniteSet(gen)
  BY GeneratedFinite
<1> HIDE DEF gen
<1>2. {g.order : g \in gen} = {f[g] : g \in DOMAIN f} /\ DOMAIN f = gen
  OBVIOUS
<1>3. {i - 1 : i \in DOMAIN owned} = {h[i] : i \in DOMAIN h} /\ DOMAIN h = DOMAIN owned
  OBVIOUS
<1>4. IsFiniteSet(DOMAIN owned)
  BY PositionsFinite
<1> HIDE DEF f, h
<1>5. IsFiniteSet({g.order : g \in gen}) /\ IsFiniteSet({i - 1 : i \in DOMAIN owned})
  BY <1>1, <1>2, <1>3, <1>4, FiniteImage
<1>6. QED
  BY <1>5, FS_Union DEF OrdersOf, gen

\* A part has the generated descriptions of its place, and then one other at most.
IsPart(part, owned, pkgs, types, n) ==
    LET gens  == MadeAt(pkgs, types, n)
        other == n + 1 \in DOMAIN owned /\ DescToGVK(owned[n + 1]) \notin KindsOf(pkgs, types)
    IN  /\ part \in Seq(ToSet(part)) /\ Len(gens) \in Nat
        /\ Len(gens) = Cardinality(DescsAt(pkgs, types, n))
        /\ Len(part) = IF other THEN Len(gens) + 1 ELSE Len(gens)
        /\ \A q \in 1 .. Len(gens) : part[q] = gens[q]
        /\ other => part[Len(part)] = owned[n + 1]

LEMMA PartForm ==
    ASSUME NEW S, NEW owned \in Seq(S), NEW pkgs, NEW types, IsFiniteSet(types), NEW n
    PROVE  IsPart(MadeAt(pkgs, types, n) \o OthersAt(owned, pkgs, types, n), owned, pkgs, types, n)
<1> DEFINE gens  == MadeAt(pkgs, types, n)
           rest  == OthersAt(owned, pkgs, types, n)
           part  == gens \o rest
           x     == owned[n + 1]
           other == n + 1 \in DOMAIN owned /\ DescToGVK(x) \notin KindsOf(pkgs, types)
           c     == Cardinality(DescsAt(pkgs, types, n))
<1>1. gens \in Seq(ToSet(gens)) /\ c \in Nat /\ DOMAIN gens = 1 .. c
  <2>1. IsFiniteSet(DescsAt(pkgs, types, n))
    BY GeneratedFinite
  <2>2. QED
    BY <2>1, InOrderSeq DEF MadeAt
<1>2. rest = IF other THEN <<x>> ELSE <<>>
  BY DEF OthersAt
<1> HIDE DEF gens, rest, x, other, c
<1>3. Len(gens) = c
  BY <1>1, LenProperties
<1> DEFINE T == ToSet(gens) \cup {x}
<1>4. gens \in Seq(T) /\ rest \in Seq(T)
  <2>1. <<x>> \in Seq({x}) /\ <<>> \in Seq({x})
    OBVIOUS
  <2>2. ToSet(gens) \subseteq T /\ {x} \subseteq T
    OBVIOUS
  <2> HIDE DEF T
  <2>3. QED
    BY <1>1, <1>2, <2>1, <2>2, SeqMonotonic
<1> HIDE DEF T
<1>5. /\ part \in Seq(T) /\ Len(part) = Len(gens) + Len(rest)
      /\ \A q \in 1 .. Len(gens) + Len(rest) : part[q] = IF q <= Len(gens) THEN gens[q] ELSE rest[q - Len(gens)]
  BY <1>4, ConcatProperties
<1>6. part \in Seq(ToSet(part))
  BY <1>5, SeqToSet
<1> HIDE DEF part
<1>7. (other => Len(rest) = 1 /\ rest[1] = x) /\ (~other => Len(rest) = 0)
  BY <1>2
<1>8. Len(part) = IF other THEN Len(gens) + 1 ELSE Len(gens)
  BY <1>1, <1>3, <1>5, <1>7
<1>9. \A q \in 1 .. Len(gens) : part[q] = gens[q]
  BY <1>1, <1>3, <1>5, <1>7
<1>10. other => part[Len(part)] = x
  <2>1. HAVE other
  <2>2. Len(part) = Len(gens) + 1 /\ Len(rest) = 1
    BY <1>7, <1>8, <2>1
  <2>3. Len(part) \in 1 .. Len(gens) + Len(rest) /\ ~(Len(part) <= Len(gens)) /\ Len(part) - Len(gens) = 1
    BY <1>1, <1>3, <2>2
  <2>4. QED
    BY <1>5, <1>7, <2>1, <2>3
<1>11. QED
  BY <1>1, <1>3, <1>6, <1>8, <1>9, <1>10 DEF IsPart, gens, rest, part, x, other, c

\* The descriptions that are read from the API types and the others are a sequence.
LEMMA UpdatedOwned ==
    ASSUME NEW S, NEW owned \in Seq(S), NEW pkgs, NEW types, IsFiniteSet(types)
    PROVE  UpdateDefinitionsByKey(owned, pkgs, types) \in Seq(ToSet(UpdateDefinitionsByKey(owned, pkgs, types)))
<1> DEFINE parts == PartsOf(owned, pkgs, types)
           c     == Cardinality(OrdersOf(owned, pkgs, types))
<1>1. c \in Nat /\ DOMAIN NthOrder(owned, pkgs, types) = 1 .. c
  BY OrdersFinite, InOrderSeq DEF NthOrder
<1> HIDE DEF c
<1>2. \A i \in 1 .. c : parts[i] \in Seq(ToSet(parts[i]))
  <2>1. TAKE i \in 1 .. c
  <2> DEFINE n == NthOrder(owned, pkgs, types)[i]
  <2>2. parts[i] = MadeAt(pkgs, types, n) \o OthersAt(owned, pkgs, types, n)
    BY <1>1 DEF PartsOf
  <2> HIDE DEF n, parts
  <2> DEFINE part == MadeAt(pkgs, types, n) \o OthersAt(owned, pkgs, types, n)
  <2>3. part \in Seq(ToSet(part))
    BY PartForm DEF IsPart
  <2>4. QED
    BY <2>2, <2>3
<1>3. DOMAIN parts = 1 .. c
  BY <1>1 DEF PartsOf
<1> HIDE DEF parts
<1>4. Joined(parts) \in Seq(ToSet(Joined(parts)))
  BY <1>1, <1>2, <1>3, JoinedParts
<1>5. QED
  BY <1>4, UpdatedParts DEF parts

\* The kinds are told apart by what is sorted and looked up.
LEMMA KindFacts ==
    /\ \A t \in AllKinds : LET d == BuildCRDDescription(Packages, t)
                           IN  /\ TypeAt(Packages, t).order \in Int /\ SortKey(d) \in Int
                               /\ DescToGVK(d) = GVKAt(Packages, t)
    /\ \A t, u \in AllKinds : t # u =>
         /\ GVKAt(Packages, t) # GVKAt(Packages, u)
         /\ SortKey(BuildCRDDescription(Packages, t)) # SortKey(BuildCRDDescription(Packages, u))
<1> DEFINE desc(t) == BuildCRDDescription(Packages, t)
           Place(t) == Rank[<<TypeAt(Packages, t).crd, t[2], Packages[t[1]].version>>]
<1>1. /\ \A t \in AllKinds : /\ TypeAt(Packages, t).order \in Int /\ Place(t) \in Int
                             /\ GroupOf[TypeAt(Packages, t).crd] = Packages[t[1]].group
      /\ \A t, u \in AllKinds : t # u => GVKAt(Packages, t) # GVKAt(Packages, u) /\ Place(t) # Place(u)
  BY KindsAssumption DEF AllKinds
<1>2. \A t : /\ desc(t).name = TypeAt(Packages, t).crd /\ desc(t).kind = t[2]
             /\ desc(t).version = Packages[t[1]].version
  BY DEF BuildCRDDescription
<1> HIDE DEF desc
<1>3. \A t : SortKey(desc(t)) = Place(t)
  BY <1>2 DEF SortKey
<1>4. \A t \in AllKinds : DescToGVK(desc(t)) = GVKAt(Packages, t)
  BY <1>1, <1>2 DEF DescToGVK, GVKAt
<1> HIDE DEF Place
<1>5. QED
  BY <1>1, <1>3, <1>4 DEF desc

\* Each kind with this order is described once at its place.
LEMMA MadeOnce ==
    ASSUME NEW types \in SUBSET AllKinds, IsFiniteSet(types), NEW n
    PROVE  LET gens == MadeAt(Packages, types, n)
               c == Cardinality(DescsAt(Packages, types, n))
           IN  /\ \A q \in 1 .. c : \E t \in types : TypeAt(Packages, t).order = n /\ gens[q] = BuildCRDDescription(Packages, t)
               /\ \A t \in types : TypeAt(Packages, t).order = n =>
                    \E q \in 1 .. c : gens[q] = BuildCRDDescription(Packages, t)
               /\ \A q, r \in 1 .. c : gens[q] = gens[r] => q = r
<1> DEFINE P == DescsAt(Packages, types, n)
           upTo == [d \in P |-> {e \in P : SortKey(e) <= SortKey(d)}]
           gens == InOrder(P, upTo)
           c == Cardinality(P)
<1>1. IsFiniteSet(P)
  BY GeneratedFinite
<1>2. \A d : d \in P <=> \E t \in types : TypeAt(Packages, t).order = n /\ d = BuildCRDDescription(Packages, t)
  BY DescribedAt
<1> HIDE DEF P
<1>3. \A d \in P : SortKey(d) \in Int
  BY <1>2, KindFacts
<1>4. \A d, e \in P : SortKey(d) = SortKey(e) => d = e
  <2>1. TAKE d, e \in P
  <2>2. PICK t \in types : d = BuildCRDDescription(Packages, t)
    BY <1>2
  <2>3. PICK u \in types : e = BuildCRDDescription(Packages, u)
    BY <1>2
  <2>4. t # u => SortKey(d) # SortKey(e)
    BY <2>2, <2>3, KindFacts
  <2>5. QED
    BY <2>2, <2>3, <2>4
<1>5. upTo \in [P -> SUBSET P] /\ \A d \in P : d \in upTo[d]
  BY <1>3
<1>6. ASSUME NEW d \in P, NEW e \in P, d # e
      PROVE  upTo[d] # upTo[e] /\ (upTo[d] \subseteq upTo[e] \/ upTo[e] \subseteq upTo[d])
  <2>1. SortKey(d) < SortKey(e) \/ SortKey(e) < SortKey(d)
    BY <1>3, <1>4, <1>6
  <2>2. ASSUME NEW x \in P, NEW y \in P, SortKey(x) < SortKey(y)
        PROVE  upTo[x] \subseteq upTo[y] /\ upTo[x] # upTo[y]
    <3>1. y \in upTo[y] /\ y \notin upTo[x]
      BY <1>3, <2>2
    <3>2. \A z \in P : SortKey(z) <= SortKey(x) => SortKey(z) <= SortKey(y)
      BY <1>3, <2>2
    <3>3. QED
      BY <3>1, <3>2
  <2>3. QED
    BY <2>1, <2>2
<1> HIDE DEF upTo
<1>7. /\ \A q \in 1 .. c : gens[q] \in P
      /\ \A d \in P : \E q \in 1 .. c : gens[q] = d
  BY <1>1, <1>5, <1>6, Ordered
<1>8. \A q, r \in 1 .. c : q < r => gens[q] # gens[r] /\ upTo[gens[q]] \subseteq upTo[gens[r]]
  BY <1>1, <1>5, <1>6, Increasing
<1>9. gens = MadeAt(Packages, types, n) /\ c \in Nat
  BY <1>1, FS_CardinalityType DEF upTo, P, MadeAt
<1>10. c = Cardinality(DescsAt(Packages, types, n))
  BY DEF P
<1> HIDE DEF gens, c
<1>11. \A q, r \in 1 .. c : gens[q] = gens[r] => q = r
  <2>1. TAKE q, r \in 1 .. c
  <2>2. q < r \/ r < q \/ q = r
    OBVIOUS
  <2>3. QED
    BY <1>8, <2>2
<1>12. /\ \A q \in 1 .. c : \E t \in types : TypeAt(Packages, t).order = n /\ gens[q] = BuildCRDDescription(Packages, t)
       /\ \A t \in types : TypeAt(Packages, t).order = n => \E q \in 1 .. c : gens[q] = BuildCRDDescription(Packages, t)
  BY <1>2, <1>7
<1>13. QED
  BY <1>9, <1>10, <1>11, <1>12

\* What is at a position of a part: a generated description, or the other one at the end.
Holds(part, n, owned, types) ==
    /\ \A q \in 1 .. Len(part) :
         \/ \E t \in types : TypeAt(Packages, t).order = n /\ part[q] = BuildCRDDescription(Packages, t)
         \/ /\ q = Len(part) /\ n + 1 \in DOMAIN owned /\ part[q] = owned[n + 1]
            /\ DescToGVK(owned[n + 1]) \notin KindsOf(Packages, types)
    /\ \A t \in types : TypeAt(Packages, t).order = n => \E q \in 1 .. Len(part) : part[q] = BuildCRDDescription(Packages, t)
    /\ n + 1 \in DOMAIN owned /\ DescToGVK(owned[n + 1]) \notin KindsOf(Packages, types) =>
         \E q \in 1 .. Len(part) : part[q] = owned[n + 1]
    /\ \A q, r \in 1 .. Len(part) : part[q] = part[r] /\ DescToGVK(part[q]) \in KindsOf(Packages, types) => q = r

LEMMA PartHolds ==
    ASSUME NEW S, NEW owned \in Seq(S), NEW types \in SUBSET AllKinds, IsFiniteSet(types), NEW n
    PROVE  Holds(MadeAt(Packages, types, n) \o OthersAt(owned, Packages, types, n), n, owned, types)
<1> DEFINE gens  == MadeAt(Packages, types, n)
           part  == gens \o OthersAt(owned, Packages, types, n)
           x     == owned[n + 1]
           gvks  == KindsOf(Packages, types)
           other == n + 1 \in DOMAIN owned /\ DescToGVK(x) \notin gvks
           desc(t) == BuildCRDDescription(Packages, t)
           At(t) == TypeAt(Packages, t).order = n
           c == Len(gens)
<1>1. /\ c \in Nat /\ c = Cardinality(DescsAt(Packages, types, n))
      /\ Len(part) = IF other THEN c + 1 ELSE c
      /\ \A q \in 1 .. c : part[q] = gens[q]
      /\ other => part[Len(part)] = x
  <2>1. IsPart(part, owned, Packages, types, n)
    BY PartForm
  <2> HIDE DEF part
  <2>2. QED
    BY <2>1 DEF IsPart
<1>2. /\ \A q \in 1 .. c : \E t \in types : At(t) /\ gens[q] = desc(t)
      /\ \A t \in types : At(t) => \E q \in 1 .. c : gens[q] = desc(t)
      /\ \A q, r \in 1 .. c : gens[q] = gens[r] => q = r
  <2> HIDE DEF c
  <2>1. \A q \in 1 .. c : \E t \in types : At(t) /\ gens[q] = desc(t)
    BY <1>1, MadeOnce
  <2>2. \A t \in types : At(t) => \E q \in 1 .. c : gens[q] = desc(t)
    BY <1>1, MadeOnce
  <2>3. \A q, r \in 1 .. c : gens[q] = gens[r] => q = r
    BY <1>1, MadeOnce
  <2>4. QED
    BY <2>1, <2>2, <2>3
<1>3. \A t \in types : DescToGVK(desc(t)) \in gvks
  BY KindFacts DEF KindsOf
<1>4. DEFINE l == Len(part)
<1>5. l = IF other THEN c + 1 ELSE c
  BY <1>1
<1> HIDE DEF gens, part, x, gvks, desc, At, c, l, other
<1>6. l \in Nat /\ c <= l /\ \A q \in 1 .. c : q \in 1 .. l
  BY <1>1, <1>5
<1>7. \A q \in 1 .. l : q \in 1 .. c \/ (other /\ q = l)
  BY <1>1, <1>5
<1>8. other => l \in 1 .. l /\ part[l] = x
  BY <1>1, <1>5 DEF l
<1>9. ASSUME NEW q \in 1 .. l
      PROVE  (\E t \in types : At(t) /\ part[q] = desc(t)) \/ (other /\ q = l /\ part[q] = x)
  <2>1. CASE q \in 1 .. c
    BY <1>1, <1>2, <2>1
  <2>2. CASE other /\ q = l
    BY <1>8, <2>2
  <2>3. QED
    BY <1>7, <2>1, <2>2
<1>10. \A t \in types : At(t) => \E q \in 1 .. l : part[q] = desc(t)
  BY <1>1, <1>2, <1>6
<1>11. \A q, r \in 1 .. l : part[q] = part[r] /\ DescToGVK(part[q]) \in gvks => q = r
  <2>1. SUFFICES ASSUME NEW q \in 1 .. l, NEW r \in 1 .. l, part[q] = part[r], DescToGVK(part[q]) \in gvks PROVE q = r
    OBVIOUS
  <2>2. other => DescToGVK(x) \notin gvks
    BY DEF other, x
  <2>3. q \in 1 .. c /\ r \in 1 .. c
    BY <1>7, <1>8, <2>1, <2>2
  <2>4. QED
    BY <1>1, <1>2, <2>1, <2>3
<1>12. QED
  BY <1>8, <1>9, <1>10, <1>11 DEF Holds, part, l, gens, x, gvks, desc, At, other

\* The list is the parts in order; what is at a position of it is of one part.
IsUpdate(j, m, nth, ord, parts, c, owned, types) ==
    /\ c \in Nat /\ ord \in [1 .. c -> Int] /\ Places(nth, m, j, parts, c)
    /\ \A p, q \in 1 .. c : p < q => ord[p] < ord[q]
    /\ \A n : (n \in {TypeAt(Packages, t).order : t \in types} \/ (n + 1 \in DOMAIN owned /\ n \in Int)) =>
         \E p \in 1 .. c : ord[p] = n
    /\ \A p \in 1 .. c : Holds(parts[p], ord[p], owned, types)

LEMMA UpdateForm ==
    ASSUME NEW S, NEW owned \in Seq(S), NEW types \in SUBSET AllKinds, IsFiniteSet(types)
    PROVE  \E m, nth, ord, parts, c :
             IsUpdate(UpdateDefinitionsByKey(owned, Packages, types), m, nth, ord, parts, c, owned, types)
<1> DEFINE orders == OrdersOf(owned, Packages, types)
           ord    == NthOrder(owned, Packages, types)
           parts  == PartsOf(owned, Packages, types)
           c      == Cardinality(orders)
           j      == UpdateDefinitionsByKey(owned, Packages, types)
<1>1. DOMAIN owned = 1 .. Len(owned) /\ Len(owned) \in Nat
  BY LenProperties
<1>2. \A n : n \in orders <=> (\E t \in types : n = TypeAt(Packages, t).order) \/ \E i \in DOMAIN owned : n = i - 1
  <2> DEFINE G(t) == [order |-> TypeAt(Packages, t).order, desc |-> BuildCRDDescription(Packages, t)]
  <2>1. GeneratedFor(Packages, types) = {G(t) : t \in types}
    BY DEF GeneratedFor
  <2>2. \A t : G(t).order = TypeAt(Packages, t).order
    OBVIOUS
  <2> HIDE DEF G
  <2>3. {g.order : g \in GeneratedFor(Packages, types)} = {TypeAt(Packages, t).order : t \in types}
    BY <2>1, <2>2
  <2>4. QED
    BY <2>3 DEF OrdersOf
<1>3. IsFiniteSet(orders)
  BY OrdersFinite
<1>4. \A t \in types : TypeAt(Packages, t).order \in Int
  BY KindFacts
<1> HIDE DEF orders
<1>5. orders \in SUBSET Int
  <2>1. ASSUME NEW n \in orders PROVE n \in Int
    <3>1. CASE \E t \in types : n = TypeAt(Packages, t).order
      BY <1>4, <3>1
    <3>2. CASE \E i \in DOMAIN owned : n = i - 1
      BY <1>1, <3>2
    <3>3. QED
      BY <1>2, <3>1, <3>2
  <2>2. QED
    BY <2>1
<1>6. ord = InOrder(orders, [i \in orders |-> {k \in orders : k <= i}])
  BY DEF NthOrder, orders
<1> HIDE DEF ord
<1>7. c \in Nat /\ DOMAIN ord = 1 .. c
  BY <1>3, <1>5, <1>6, Ascending
<1>8. \A p \in 1 .. c : ord[p] \in orders
  BY <1>3, <1>5, <1>6, Ascending
<1>9. \A n \in orders : \E p \in 1 .. c : ord[p] = n
  <2> DEFINE seq == InOrder(orders, [i \in orders |-> {k \in orders : k <= i}])
  <2>1. \A n \in orders : \E p \in 1 .. Cardinality(orders) : seq[p] = n
    BY <1>3, <1>5, Ascending, ZenonT(30)
  <2>2. seq = ord
    BY <1>6
  <2> HIDE DEF seq
  <2>3. QED
    BY <2>1, <2>2
<1>10. \A p, q \in 1 .. c : p < q => ord[p] < ord[q]
  BY <1>3, <1>5, <1>6, Ascending
<1> HIDE DEF c
<1>11. ord \in [1 .. c -> Int]
  <2>1. ord = [p \in 1 .. c |-> ord[p]]
    <3>1. ord = [p \in 1 .. c |-> CHOOSE k \in orders : Cardinality([i \in orders |-> {l \in orders : l <= i}][k]) = p]
      BY <1>6 DEF InOrder, c
    <3> DEFINE val(p) == CHOOSE k \in orders : Cardinality([i \in orders |-> {l \in orders : l <= i}][k]) = p
    <3>2. ord = [p \in 1 .. c |-> val(p)]
      BY <3>1
    <3> HIDE DEF val
    <3>3. QED
      BY <3>2
  <2>2. QED
    BY <1>5, <1>8, <2>1
<1>12. DOMAIN parts = 1 .. c /\ \A p \in 1 .. c :
         parts[p] = MadeAt(Packages, types, ord[p]) \o OthersAt(owned, Packages, types, ord[p])
  BY <1>7 DEF parts, PartsOf, ord
<1>13. j = Joined(parts)
  BY UpdatedParts
<1> HIDE DEF parts, j
<1>14. \A p \in 1 .. c : Holds(parts[p], ord[p], owned, types)
  BY <1>12, PartHolds
<1>15. \A p \in 1 .. c : parts[p] \in Seq(ToSet(parts[p]))
  <2>1. TAKE p \in 1 .. c
  <2> DEFINE part == MadeAt(Packages, types, ord[p]) \o OthersAt(owned, Packages, types, ord[p])
  <2>2. IsPart(part, owned, Packages, types, ord[p])
    BY PartForm
  <2>3. part = parts[p]
    BY <1>12
  <2> HIDE DEF part
  <2>4. QED
    BY <2>2, <2>3 DEF IsPart
<1>16. \E m, nth : Places(nth, m, j, parts, c)
  <2> DEFINE T == UNION {ToSet(parts[p]) : p \in 1 .. c}
  <2>1. \A p \in 1 .. c : ToSet(parts[p]) \subseteq T
    OBVIOUS
  <2> HIDE DEF T
  <2>2. \A p \in 1 .. c : parts[p] \in Seq(T)
    BY <1>15, <2>1, SeqMonotonic
  <2>3. QED
    BY <1>7, <1>12, <1>13, <2>2, JoinedInOrder
<1>17. PICK m, nth : Places(nth, m, j, parts, c)
  BY <1>16
<1>18. ASSUME NEW n, n \in {TypeAt(Packages, t).order : t \in types} \/ (n + 1 \in DOMAIN owned /\ n \in Int)
       PROVE  n \in orders
  <2>1. CASE n \in {TypeAt(Packages, t).order : t \in types}
    BY <1>2, <2>1
  <2>2. CASE n + 1 \in DOMAIN owned /\ n \in Int
    <3>1. n = (n + 1) - 1
      BY <2>2
    <3>2. QED
      BY <1>2, <2>2, <3>1
  <2>3. QED
    BY <1>18, <2>1, <2>2
<1>19. IsUpdate(j, m, nth, ord, parts, c, owned, types)
  BY <1>7, <1>9, <1>10, <1>11, <1>14, <1>17, <1>18 DEF IsUpdate
<1>20. QED
  BY <1>19 DEF j

\* A list of descriptions without those of the kinds, and these alone.
Without(j, types) == {k \in DOMAIN j : DescToGVK(j[k]) \notin KindsOf(Packages, types)}
With(j, types)    == {k \in DOMAIN j : DescToGVK(j[k]) \in KindsOf(Packages, types)}

\* The k-th description of the updated list is the q-th of the p-th part.
IsAt(k, p, q, j, nth, ord, parts, c, owned, types) ==
    /\ p \in 1 .. c /\ q \in 1 .. Len(parts[p]) /\ nth[k] = <<p, q>> /\ j[k] = parts[p][q]
    /\ k \in With(j, types) => \E t \in types : TypeAt(Packages, t).order = ord[p] /\ j[k] = BuildCRDDescription(Packages, t)
    /\ k \in Without(j, types) => q = Len(parts[p]) /\ ord[p] + 1 \in DOMAIN owned /\ j[k] = owned[ord[p] + 1]

LEMMA UpdateAt ==
    ASSUME NEW owned, NEW types \in SUBSET AllKinds, NEW j, NEW m, NEW nth, NEW ord, NEW parts, NEW c,
           IsUpdate(j, m, nth, ord, parts, c, owned, types), NEW k \in DOMAIN j
    PROVE  k \in 1 .. m /\ \E p, q : IsAt(k, p, q, j, nth, ord, parts, c, owned, types)
<1> DEFINE desc(t) == BuildCRDDescription(Packages, t)
           gvks == KindsOf(Packages, types)
<1>1. \A t \in types : DescToGVK(desc(t)) \in gvks
  BY KindFacts DEF KindsOf
<1>2. j = [i \in 1 .. m |-> j[i]] /\ k \in 1 .. m
  BY DEF IsUpdate, Places
<1>3. PICK p \in 1 .. c : \E q \in 1 .. Len(parts[p]) : nth[k] = <<p, q>> /\ j[k] = parts[p][q]
  BY <1>2 DEF IsUpdate, Places
<1>4. PICK q \in 1 .. Len(parts[p]) : nth[k] = <<p, q>> /\ j[k] = parts[p][q]
  BY <1>3
<1>6. \/ \E t \in types : TypeAt(Packages, t).order = ord[p] /\ j[k] = desc(t)
      \/ /\ q = Len(parts[p]) /\ ord[p] + 1 \in DOMAIN owned /\ j[k] = owned[ord[p] + 1]
         /\ DescToGVK(owned[ord[p] + 1]) \notin gvks
  <2>1. Holds(parts[p], ord[p], owned, types)
    BY DEF IsUpdate
  <2>2. QED
    BY <1>4, <2>1 DEF Holds
<1> HIDE DEF desc, gvks
<1>7. k \in With(j, types) <=> DescToGVK(j[k]) \in gvks
  BY DEF With, gvks
<1>8. k \in Without(j, types) <=> DescToGVK(j[k]) \notin gvks
  BY DEF Without, gvks
<1>9. k \in With(j, types) => \E t \in types : TypeAt(Packages, t).order = ord[p] /\ j[k] = desc(t)
  BY <1>6, <1>7
<1>10. k \in Without(j, types) => q = Len(parts[p]) /\ ord[p] + 1 \in DOMAIN owned /\ j[k] = owned[ord[p] + 1]
  BY <1>1, <1>6, <1>8
<1>11. QED
  BY <1>2, <1>4, <1>9, <1>10 DEF desc, IsAt

\* The descriptions of other kinds are those of the old list, in its order.
LEMMA OthersKept ==
    ASSUME NEW S, NEW owned \in Seq(S), NEW types \in SUBSET AllKinds, IsFiniteSet(types)
    PROVE  LET j == UpdateDefinitionsByKey(owned, Packages, types)
           IN  Filtered(j, Without(j, types)) = Filtered(owned, Without(owned, types))
<1> DEFINE j == UpdateDefinitionsByKey(owned, Packages, types)
           A == Without(j, types)
           B == Without(owned, types)
<1>1. PICK m, nth, ord, parts, c : IsUpdate(j, m, nth, ord, parts, c, owned, types)
  BY UpdateForm
<1> HIDE DEF j
<1> DEFINE phi == [k \in A |-> ord[nth[k][1]] + 1]
<1>2. /\ m \in Nat /\ DOMAIN j = 1 .. m
      /\ \A k, l \in 1 .. m : k < l => Precedes(nth[k], nth[l])
      /\ c \in Nat /\ \A p \in 1 .. c : ord[p] \in Int
      /\ \A p, q \in 1 .. c : p < q => ord[p] < ord[q]
  BY <1>1 DEF IsUpdate, Places
<1>3. ASSUME NEW k \in A
      PROVE  \E p \in 1 .. c : /\ k \in 1 .. m /\ nth[k] = <<p, Len(parts[p])>> /\ Len(parts[p]) \in Int
                               /\ phi[k] = ord[p] + 1 /\ ord[p] + 1 \in B /\ j[k] = owned[ord[p] + 1]
  <2>1. k \in DOMAIN j /\ DescToGVK(j[k]) \notin KindsOf(Packages, types)
    BY DEF Without
  <2>2. k \in 1 .. m
    BY <1>2, <2>1
  <2>3. PICK p, q : IsAt(k, p, q, j, nth, ord, parts, c, owned, types)
    BY <1>1, <2>1, UpdateAt
  <2>4. /\ p \in 1 .. c /\ nth[k] = <<p, q>> /\ q \in 1 .. Len(parts[p]) /\ q = Len(parts[p])
        /\ ord[p] + 1 \in DOMAIN owned /\ j[k] = owned[ord[p] + 1]
    BY <2>3 DEF IsAt
  <2>5. ord[p] + 1 \in B
    BY <2>1, <2>4 DEF Without
  <2>6. nth[k][1] = p
    BY <2>4
  <2>7. phi[k] = ord[p] + 1
    BY <2>6
  <2>8. q \in Int
    BY <2>4
  <2> HIDE DEF phi, A, B
  <2>9. QED
    BY <2>2, <2>4, <2>5, <2>7, <2>8
<1>4. A \in SUBSET Int /\ IsFiniteSet(A) /\ A \subseteq 1 .. m
  <2>1. A \subseteq 1 .. m
    BY <1>2 DEF Without
  <2>2. IsFiniteSet(1 .. m)
    BY <1>2, FS_Interval
  <2>3. QED
    BY <1>2, <2>1, <2>2, FS_Subset
<1>5. IsFiniteSet(B) /\ B \subseteq Int
  <2>1. DOMAIN owned = 1 .. Len(owned) /\ Len(owned) \in Nat /\ IsFiniteSet(DOMAIN owned)
    BY LenProperties, PositionsFinite
  <2>2. QED
    BY <2>1, FS_Subset DEF Without
<1>6. ASSUME NEW i \in B PROVE \E k \in A : phi[k] = i
  <2>1. i \in DOMAIN owned /\ DescToGVK(owned[i]) \notin KindsOf(Packages, types) /\ i \in Int
    BY <1>5 DEF Without
  <2> DEFINE n == i - 1
  <2>2. n \in Int /\ n + 1 = i
    BY <2>1
  <2> HIDE DEF n
  <2>3. PICK p \in 1 .. c : ord[p] = n
    BY <1>1, <2>1, <2>2 DEF IsUpdate
  <2>4. Holds(parts[p], n, owned, types)
    BY <1>1, <2>3 DEF IsUpdate
  <2>5. PICK q \in 1 .. Len(parts[p]) : parts[p][q] = owned[i]
    BY <2>1, <2>2, <2>4 DEF Holds
  <2>6. PICK k \in 1 .. m : nth[k] = <<p, q>>
    BY <1>1 DEF IsUpdate, Places
  <2>7. PICK p1, q1 : IsAt(k, p1, q1, j, nth, ord, parts, c, owned, types)
    BY <1>1, <1>2, UpdateAt
  <2>8. j[k] = owned[i] /\ k \in A
    <3>1. nth[k] = <<p1, q1>> /\ j[k] = parts[p1][q1]
      BY <2>7 DEF IsAt
    <3>2. p1 = p /\ q1 = q
      BY <2>6, <3>1
    <3>3. QED
      BY <1>2, <2>1, <2>5, <3>1, <3>2 DEF Without
  <2>9. phi[k] = i
    BY <2>2, <2>3, <2>6, <2>8
  <2>10. QED
    BY <2>8, <2>9
<1>7. ASSUME NEW k \in A, NEW l \in A, k < l PROVE phi[k] < phi[l]
  <2> HIDE DEF phi, A, B
  <2>1. PICK p \in 1 .. c : k \in 1 .. m /\ nth[k] = <<p, Len(parts[p])>> /\ Len(parts[p]) \in Int /\ phi[k] = ord[p] + 1
    BY <1>3
  <2>2. PICK q \in 1 .. c : l \in 1 .. m /\ nth[l] = <<q, Len(parts[q])>> /\ phi[l] = ord[q] + 1
    BY <1>3
  <2>3. Precedes(<<p, Len(parts[p])>>, <<q, Len(parts[q])>>)
    BY <1>2, <1>7, <2>1, <2>2
  <2>4. p < q
    BY <2>1, <2>3 DEF Precedes
  <2>5. ord[p] \in Int /\ ord[q] \in Int /\ ord[p] < ord[q]
    BY <1>2, <2>4
  <2>6. QED
    BY <2>1, <2>2, <2>5
<1>8. /\ \A k \in A : phi[k] \in B
      /\ \A k \in A : j[k] = owned[phi[k]]
  <2> HIDE DEF phi, A, B
  <2>1. QED
    BY <1>3
<1>9. phi \in Surjection(A, B)
  <2>1. phi \in [A -> B]
    BY <1>8
  <2>2. QED
    BY <1>6, <2>1 DEF Surjection
<1> HIDE DEF phi, A, B
<1>10. Filtered(j, A) = Filtered(owned, B)
  <2>1. \A k, l \in A : k < l => phi[k] < phi[l]
    BY <1>7
  <2>2. Matches(phi, j, A, owned, B)
    BY <1>8, <1>9, <2>1 DEF Matches
  <2>3. B \in SUBSET Int
    BY <1>5
  <2>4. QED
    BY <1>4, <1>5, <2>2, <2>3, FilteredAcross
<1>11. QED
  BY <1>10 DEF A, B, j

\* What is generated in the updated list is the descriptions of the kinds.
LEMMA EachDescribed ==
    ASSUME NEW S, NEW owned \in Seq(S), NEW types \in SUBSET AllKinds, IsFiniteSet(types)
    PROVE  LET j == UpdateDefinitionsByKey(owned, Packages, types)
           IN  /\ \A k \in With(j, types) : \E t \in types : j[k] = BuildCRDDescription(Packages, t)
               /\ \A t \in types : \E k \in With(j, types) : j[k] = BuildCRDDescription(Packages, t)
<1> DEFINE j == UpdateDefinitionsByKey(owned, Packages, types)
           C == With(j, types)
           desc(t) == BuildCRDDescription(Packages, t)
           order(t) == TypeAt(Packages, t).order
<1>1. PICK m, nth, ord, parts, c : IsUpdate(j, m, nth, ord, parts, c, owned, types)
  BY UpdateForm
<1> HIDE DEF j
<1>3. m \in Nat /\ DOMAIN j = 1 .. m
  BY <1>1 DEF IsUpdate, Places
<1>4. \A t \in types : DescToGVK(desc(t)) \in KindsOf(Packages, types)
  BY KindFacts DEF KindsOf
<1>5. ASSUME NEW k \in C PROVE \E t \in types : j[k] = desc(t)
  <2>1. k \in DOMAIN j
    BY DEF With
  <2>2. PICK p, q : IsAt(k, p, q, j, nth, ord, parts, c, owned, types)
    BY <1>1, <2>1, UpdateAt
  <2>3. QED
    BY <2>2 DEF IsAt
<1>6. ASSUME NEW t \in types PROVE \E k \in C : j[k] = desc(t)
  <2>1. PICK p \in 1 .. c : ord[p] = order(t)
    BY <1>1 DEF IsUpdate
  <2>2. Holds(parts[p], ord[p], owned, types)
    BY <1>1 DEF IsUpdate
  <2>3. PICK q \in 1 .. Len(parts[p]) : parts[p][q] = desc(t)
    BY <2>1, <2>2 DEF Holds
  <2>4. PICK k \in 1 .. m : nth[k] = <<p, q>>
    BY <1>1 DEF IsUpdate, Places
  <2>5. PICK p1, q1 : IsAt(k, p1, q1, j, nth, ord, parts, c, owned, types)
    BY <1>1, <1>3, UpdateAt
  <2>6. nth[k] = <<p1, q1>> /\ j[k] = parts[p1][q1]
    BY <2>5 DEF IsAt
  <2>7. p1 = p /\ q1 = q
    BY <2>4, <2>6
  <2>8. j[k] = desc(t)
    BY <2>3, <2>6, <2>7
  <2>9. DescToGVK(j[k]) \in KindsOf(Packages, types)
    BY <1>4, <2>8
  <2>10. k \in C
    BY <1>3, <2>9 DEF With
  <2>11. QED
    BY <2>8, <2>10
<1> HIDE DEF desc, C
<1>7. QED
  BY <1>5, <1>6 DEF desc, C, j

\* Each of the kinds is described once.
LEMMA KindsDescribed ==
    ASSUME NEW S, NEW owned \in Seq(S), NEW types \in SUBSET AllKinds, IsFiniteSet(types)
    PROVE  LET j   == UpdateDefinitionsByKey(owned, Packages, types)
               gen == Filtered(j, With(j, types))
           IN  /\ Len(gen) = Cardinality(types)
               /\ {DescToGVK(d) : d \in ToSet(gen)} = KindsOf(Packages, types)
<1> DEFINE j == UpdateDefinitionsByKey(owned, Packages, types)
           C == With(j, types)
           gen == Filtered(j, C)
           desc(t) == BuildCRDDescription(Packages, t)
           order(t) == TypeAt(Packages, t).order
           tau == [k \in C |-> CHOOSE t \in types : j[k] = desc(t)]
<1>1. PICK m, nth, ord, parts, c : IsUpdate(j, m, nth, ord, parts, c, owned, types)
  BY UpdateForm
<1>2. j \in Seq(ToSet(j))
  BY UpdatedOwned
<1> HIDE DEF j
<1>3. /\ m \in Nat /\ DOMAIN j = 1 .. m
      /\ \A k, l \in 1 .. m : k < l => Precedes(nth[k], nth[l])
      /\ c \in Nat /\ \A p \in 1 .. c : ord[p] \in Int
      /\ \A p, q \in 1 .. c : p < q => ord[p] < ord[q]
  BY <1>1 DEF IsUpdate, Places
<1>4. /\ \A t \in types : DescToGVK(desc(t)) = GVKAt(Packages, t) /\ GVKAt(Packages, t) \in KindsOf(Packages, types)
      /\ \A t, u \in types : desc(t) = desc(u) => t = u
  <2>1. \A t \in types : DescToGVK(desc(t)) = GVKAt(Packages, t)
    BY KindFacts
  <2>2. \A t, u \in types : t # u => GVKAt(Packages, t) # GVKAt(Packages, u)
    BY KindFacts
  <2> HIDE DEF desc
  <2>3. \A t \in types : GVKAt(Packages, t) \in KindsOf(Packages, types)
    BY DEF KindsOf
  <2>4. QED
    BY <2>1, <2>2, <2>3
<1>5. ASSUME NEW k \in C
      PROVE  \E p, q : /\ p \in 1 .. c /\ k \in 1 .. m /\ q \in 1 .. Len(parts[p]) /\ nth[k] = <<p, q>> /\ j[k] = parts[p][q]
                                  /\ \E t \in types : order(t) = ord[p] /\ j[k] = desc(t)
  <2>1. k \in DOMAIN j
    BY DEF With
  <2>2. PICK p, q : IsAt(k, p, q, j, nth, ord, parts, c, owned, types)
    BY <1>1, <2>1, UpdateAt
  <2>3. k \in 1 .. m
    BY <1>3, <2>1
  <2>4. QED
    BY <2>2, <2>3 DEF IsAt
<1>6. ASSUME NEW t \in types PROVE \E k \in C : j[k] = desc(t)
  BY EachDescribed DEF j
<1> HIDE DEF desc, order
<1>7. ASSUME NEW k \in C PROVE tau[k] \in types /\ j[k] = desc(tau[k])
  <2>1. \E t \in types : j[k] = desc(t)
    BY <1>5
  <2>2. QED
    BY <2>1
<1> HIDE DEF tau
<1>8. ASSUME NEW t \in types PROVE \E k \in C : tau[k] = t
  <2>1. PICK k \in C : j[k] = desc(t)
    BY <1>6
  <2>2. QED
    BY <1>4, <1>7, <2>1
<1>9. ASSUME NEW k \in C, NEW l \in C, tau[k] = tau[l] PROVE k = l
  <2>1. j[k] = j[l]
    BY <1>7, <1>9
  <2>2. PICK p, q : /\ p \in 1 .. c /\ k \in 1 .. m /\ q \in 1 .. Len(parts[p]) /\ nth[k] = <<p, q>> /\ j[k] = parts[p][q]
                               /\ \E t \in types : order(t) = ord[p] /\ j[k] = desc(t)
    BY <1>5
  <2>3. PICK p1, q1 : /\ p1 \in 1 .. c /\ l \in 1 .. m /\ q1 \in 1 .. Len(parts[p1]) /\ nth[l] = <<p1, q1>> /\ j[l] = parts[p1][q1]
                                 /\ \E t \in types : order(t) = ord[p1] /\ j[l] = desc(t)
    BY <1>5
  <2>4. ord[p] = ord[p1]
    BY <1>4, <2>1, <2>2, <2>3
  <2>5. p = p1
    <3>1. p \in 1 .. c /\ p1 \in 1 .. c
      BY <2>2, <2>3
    <3>2. p < p1 \/ p1 < p \/ p = p1
      BY <1>3, <3>1
    <3>3. ord[p] \in Int /\ (p < p1 => ord[p] < ord[p1]) /\ (p1 < p => ord[p1] < ord[p])
      BY <1>3, <3>1
    <3>4. QED
      BY <2>4, <3>2, <3>3
  <2>6. DescToGVK(j[k]) \in KindsOf(Packages, types)
    BY DEF With
  <2>7. Holds(parts[p], ord[p], owned, types)
    BY <1>1, <2>2 DEF IsUpdate
  <2>8. q = q1
    BY <2>1, <2>2, <2>3, <2>5, <2>6, <2>7 DEF Holds
  <2>9. nth[k] = nth[l]
    BY <2>2, <2>3, <2>5, <2>8
  <2>10. ~Precedes(nth[k], nth[l]) /\ ~Precedes(nth[l], nth[k])
    <3>1. nth[k][1] = p /\ nth[k][2] = q /\ p \in Int /\ q \in Int
      BY <2>2
    <3>2. QED
      BY <2>9, <3>1 DEF Precedes
  <2>11. k \in Int /\ l \in Int /\ ~(k < l) /\ ~(l < k)
    <3>1. k \in 1 .. m /\ l \in 1 .. m
      BY <2>2, <2>3
    <3>2. (k < l => Precedes(nth[k], nth[l])) /\ (l < k => Precedes(nth[l], nth[k]))
      BY <1>3, <3>1
    <3>3. QED
      BY <2>10, <3>1, <3>2
  <2>12. QED
    BY <2>11
<1>10. Cardinality(C) = Cardinality(types)
  <2>1. tau \in [C -> types]
    BY <1>7 DEF tau
  <2>2. tau \in Bijection(C, types)
    BY <1>8, <1>9, <2>1 DEF Bijection, Injection, Surjection, IsInjective
  <2>3. IsFiniteSet(C)
    <3>1. IsFiniteSet(1 .. m) /\ C \subseteq 1 .. m
      BY <1>3, FS_Interval DEF With
    <3>2. QED
      BY <3>1, FS_Subset
  <2>4. QED
    BY <2>2, <2>3, FS_Bijection DEF ExistsBijection
<1>11. C \in SUBSET DOMAIN j
  BY DEF With
<1> HIDE DEF C
<1>12. gen \in Seq(ToSet(j)) /\ ToSet(gen) = {j[k] : k \in C}
  BY <1>2, <1>11, FilteredSeq
<1>13. DOMAIN gen = 1 .. Cardinality(C)
  BY DEF Filtered
<1> HIDE DEF gen
<1>14. Len(gen) = Cardinality(types)
  <2>1. Cardinality(types) \in Nat
    BY FS_CardinalityType
  <2>2. DOMAIN gen = 1 .. Len(gen) /\ Len(gen) \in Nat
    BY <1>12, LenProperties
  <2>3. QED
    BY <1>10, <1>13, <2>1, <2>2
<1>15. ASSUME NEW x PROVE x \in {DescToGVK(d) : d \in ToSet(gen)} <=> x \in KindsOf(Packages, types)
  <2>1. x \in {DescToGVK(d) : d \in ToSet(gen)} <=> \E k \in C : x = DescToGVK(j[k])
    BY <1>12
  <2>2. x \in KindsOf(Packages, types) <=> \E t \in types : x = GVKAt(Packages, t)
    BY DEF KindsOf
  <2>3. QED
    BY <1>4, <1>6, <1>7, <2>1, <2>2
<1>16. QED
  BY <1>14, <1>15 DEF gen, C, j

----------------------------------------------------------------------------
(* Collected manifests                                                     *)

LEMMA NewBaseCSV == IsCSV(NewBase(Operator))
<1>1. <<>> \in Seq(ToSet(<<>>))
  BY DEF ToSet
<1>2. QED
  BY <1>1 DEF IsCSV, NewBase

\* Whatever is read, prompted for or found in the API types, a base is a CSV.
LEMMA GetBaseCSV ==
    ASSUME NEW b, IsBase(b), NEW pkgs \in {Packages, <<>>}, NEW gvks, NEW prompted, NEW answer
    PROVE  IsCSV(GetBase(b, Operator, pkgs, gvks, prompted, answer))
<1> DEFINE old  == IF b = <<>> THEN NewBase(Operator) ELSE Migrated(b, Operator)
           told == IF prompted THEN RunInteractivePrompt(old, answer) ELSE old
           owned == UpdateDefinitionsByKey(told.owned, pkgs, KindTypes(pkgs, gvks))
<1>1. IsCSV(old)
  BY NewBaseCSV DEF IsBase, Migrated, IsCSV, NewBase
<1> HIDE DEF old
<1>2. IsCSV(told)
  BY <1>1 DEF RunInteractivePrompt, IsCSV, NewBase
<1> HIDE DEF told
<1>3. \A u : u \in Seq(ToSet(u)) => IsCSV([told EXCEPT !.owned = u])
  BY <1>2 DEF IsCSV, NewBase
<1>4. GetBase(b, Operator, pkgs, gvks, prompted, answer) = IF pkgs = <<>> THEN told ELSE [told EXCEPT !.owned = owned]
  BY DEF GetBase, old, told
<1>5. CASE pkgs = <<>>
  BY <1>2, <1>4, <1>5
<1>6. CASE pkgs # <<>>
  <2>1. IsFiniteSet(KindTypes(pkgs, gvks))
    BY <1>6, KindsFinite
  <2>2. told.owned \in Seq(ToSet(told.owned))
    BY <1>2 DEF IsCSV
  <2>3. owned \in Seq(ToSet(owned))
    BY <2>1, <2>2, UpdatedOwned
  <2> HIDE DEF owned
  <2>4. QED
    BY <1>3, <1>4, <1>6, <2>3
<1>7. QED
  BY <1>5, <1>6

\* A collection, before the base is added, of what is printed.
CollectedFrom(p, b, mode) ==
    LET s == Stream(p, b, mode) IN IF mode = "dirs" THEN FromDirs(s, s) ELSE FromReader(s)

LEMMA StreamCollected ==
    ASSUME NEW p \in SUBSET Features, NEW b, IsBase(b), NEW mode, NEW f \in Plain
    PROVE  LET c == CollectedFrom(p, b, mode)
           IN  DOMAIN c = Fields /\ Sorted(c[f], f, ToSet(Stream(p, b, mode)))
<1> DEFINE s == Stream(p, b, mode)
<1>1. s \in Seq(ToSet(s))
  BY StreamSeq
<1> HIDE DEF s
<1>2. Sorted(Read(s)[f], f, ToSet(s)) /\ DOMAIN Read(s) = Fields
  <2>1. DOMAIN Read(s) = Fields
    BY DEF Read
  <2>2. QED
    BY <1>1, <2>1, ReadSorted DEF Sorted
<1>3. CASE mode = "dirs"
  <2> DEFINE crds == Where(s, LAMBDA o : o.kind = "CustomResourceDefinition")
             at   == {i \in DOMAIN s : s[i].kind = "CustomResourceDefinition"}
             in   == {"CustomResourceDefinition", "CustomResourceDefinition-v1beta1"}
             d    == [g \in Fields |-> IF g \in in THEN Read(crds)[g] ELSE Read(s)[g]]
  <2>1. crds = Filtered(s, at)
    BY DEF Where
  <2> HIDE DEF crds
  <2>2. crds \in Seq(ToSet(s)) /\ ToSet(crds) = {s[i] : i \in at}
    BY <1>1, <2>1, FilteredSeq
  <2>3. ToSet(crds) \subseteq ToSet(s)
    BY <2>2 DEF ToSet
  <2>4. Sorted(Read(crds)[f], f, ToSet(s))
    BY <2>2, <2>3, ReadSorted DEF Sorted
  <2>5. DOMAIN d = Fields /\ d[f] \in {Read(crds)[f], Read(s)[f]}
    BY DEF Plain
  <2> HIDE DEF d
  <2>6. Sorted(d[f], f, ToSet(s))
    BY <1>2, <2>4, <2>5
  <2>7. CollectedFrom(p, b, mode) = Deduplicated(WithCustomResources(d))
    BY <1>3 DEF CollectedFrom, FromDirs, d, s, crds
  <2>8. QED
    BY <2>5, <2>6, <2>7, DeduplicatedSorted DEF s
<1>4. CASE mode # "dirs"
  <2>1. CollectedFrom(p, b, mode) = Deduplicated(WithCustomResources(Read(s)))
    BY <1>4 DEF CollectedFrom, FromReader, s
  <2>2. QED
    BY <1>2, <2>1, DeduplicatedSorted DEF s
<1>5. QED
  BY <1>3, <1>4

\* What is collected of a kind was printed; the CSVs among it are the base or were, too.
LEMMA CollectedSorted ==
    ASSUME NEW p \in SUBSET Features, NEW b, IsBase(b), NEW mode
    PROVE  LET c == Collected(p, b, mode)
           IN  /\ DOMAIN c = Fields
               /\ \A f \in Plain \ {"ClusterServiceVersion"} :
                    c[f] = CollectedFrom(p, b, mode)[f] /\ Sorted(c[f], f, Printed(p))
               /\ c["ClusterServiceVersion"] \in Seq(ToSet(c["ClusterServiceVersion"]))
               /\ \A o \in ToSet(c["ClusterServiceVersion"]) : IsCSV(o)
<1> DEFINE s    == Stream(p, b, mode)
           from == CollectedFrom(p, b, mode)
           c    == Collected(p, b, mode)
           CSV  == "ClusterServiceVersion"
           get  == GetBase(b, Operator, <<>>, {}, FALSE, "")
<1>1. DOMAIN from = Fields /\ \A f \in Plain : Sorted(from[f], f, ToSet(s))
  <2>1. \A f \in Plain : DOMAIN from = Fields /\ Sorted(from[f], f, ToSet(s))
    BY StreamCollected
  <2>2. QED
    BY <2>1 DEF Plain, Fields
<1>2. c = IF from[CSV] = <<>> /\ b # <<>> THEN [from EXCEPT ![CSV] = <<get>>] ELSE from
  BY DEF Collected, CollectedFrom
<1>3. \A o \in ToSet(s) : o \in Printed(p) \/ (IsCSV(b) /\ o = b)
  BY StreamSeq
<1>4. IsCSV(get)
  BY GetBaseCSV
<1> HIDE DEF s, from, c, get
<1>5. CSV \in Plain /\ CSV \in Fields
  BY DEF Plain, Fields, Kinds
<1>6. ASSUME NEW f \in Plain \ {CSV} PROVE c[f] = from[f] /\ Sorted(c[f], f, Printed(p))
  <2>1. c[f] = from[f]
    BY <1>1, <1>2 DEF Plain
  <2>2. \A o \in ToSet(c[f]) : o \in Printed(p) /\ FieldOf(o) = f
    <3>1. TAKE o \in ToSet(c[f])
    <3>2. o \in ToSet(s) /\ FieldOf(o) = f
      BY <1>1, <2>1 DEF Sorted
    <3>3. IsCSV(o) => FieldOf(o) = CSV
      BY DEF IsCSV, FieldOf, Kinds
    <3>4. QED
      BY <1>3, <3>2, <3>3
  <2>3. c[f] \in Seq(ToSet(c[f])) /\ ToSet(c[f]) \subseteq Printed(p)
    BY <1>1, <2>1, <2>2, SeqToSet DEF Sorted
  <2>4. QED
    BY <2>1, <2>2, <2>3, SeqMonotonic DEF Sorted
<1>7. from[CSV] \in Seq(ToSet(from[CSV])) /\ \A o \in ToSet(from[CSV]) : IsCSV(o)
  <2>1. from[CSV] \in Seq(ToSet(from[CSV]))
    BY <1>1, <1>5, SeqToSet DEF Sorted
  <2>2. ASSUME NEW o \in ToSet(from[CSV]) PROVE IsCSV(o)
    <3>1. o \in ToSet(s) /\ FieldOf(o) = CSV
      BY <1>1, <1>5 DEF Sorted
    <3>2. o.kind = CSV
      BY <3>1 DEF FieldOf
    <3>3. QED
      BY <1>3, <3>1, <3>2, ObjectsPrinted
  <2>3. QED
    BY <2>1, <2>2
<1>8. c[CSV] \in Seq(ToSet(c[CSV])) /\ \A o \in ToSet(c[CSV]) : IsCSV(o)
  <2>1. CASE from[CSV] = <<>> /\ b # <<>>
    <3>1. c[CSV] = <<get>>
      BY <1>1, <1>2, <1>5, <2>1
    <3>2. c[CSV] \in Seq({get}) /\ ToSet(c[CSV]) = {get}
      BY <3>1 DEF ToSet
    <3>3. QED
      BY <1>4, <3>2
  <2>2. QED
    BY <1>2, <1>7, <2>1
<1>9. DOMAIN c = Fields
  BY <1>1, <1>2
<1>10. QED
  BY <1>6, <1>8, <1>9 DEF c, from

\* A collection of what kustomize may print.
IsCollection(c) == \A f \in Plain \ {"ClusterServiceVersion"} : Sorted(c[f], f, Everything)

LEMMA CollectedPrinted ==
    ASSUME NEW p \in SUBSET Features, NEW b, IsBase(b), NEW mode
    PROVE  IsCollection(Collected(p, b, mode))
<1> DEFINE c == Collected(p, b, mode)
<1>1. \A f \in Plain \ {"ClusterServiceVersion"} : Sorted(c[f], f, Printed(p))
  BY CollectedSorted
<1>2. Printed(p) \subseteq Everything
  BY ObjectsPrinted
<1> HIDE DEF c
<1>3. QED
  BY <1>1, <1>2, SeqMonotonic DEF IsCollection, Sorted, c

LEMMA CRDsCollected ==
    ASSUME NEW c, IsCollection(c)
    PROVE  /\ CRDs(c) \in Seq(Everything)
           /\ \A o \in ToSet(CRDs(c)) : o \in Everything /\ o.kind = "CustomResourceDefinition"
<1> DEFINE v1 == "CustomResourceDefinition"
           v1beta1 == "CustomResourceDefinition-v1beta1"
<1>1. {v1, v1beta1} \subseteq Plain \ {"ClusterServiceVersion"}
  BY DEF Plain, Fields, Kinds
<1>2. ASSUME NEW f \in {v1, v1beta1}
      PROVE  c[f] \in Seq(Everything) /\ \A o \in ToSet(c[f]) : o \in Everything /\ o.kind = v1
  <2>1. Sorted(c[f], f, Everything)
    BY <1>1 DEF IsCollection
  <2>2. \A o : FieldOf(o) = f => o.kind = v1
    BY DEF FieldOf, Kinds
  <2>3. QED
    BY <2>1, <2>2 DEF Sorted
<1>3. CRDs(c) \in Seq(Everything) /\ ToSet(CRDs(c)) = ToSet(c[v1]) \cup ToSet(c[v1beta1])
  BY <1>2, JoinSets DEF CRDs
<1>4. QED
  BY <1>2, <1>3

\* The versions that a CRD serves.
LEMMA ServedSeq ==
    ASSUME NEW crd \in Everything, crd.kind = "CustomResourceDefinition"
    PROVE  ServedVersions(crd) \in Seq(ToSet(ServedVersions(crd)))
<1> DEFINE served == Where(crd.versions, LAMBDA v : v.served)
           at     == {i \in DOMAIN crd.versions : crd.versions[i].served}
           key(i) == [name |-> crd.name, version |-> served[i].name, kind |-> crd.crkind]
<1>1. crd.versions \in Seq(ToSet(crd.versions))
  BY ManifestsAssumption DEF IsResource
<1>2. served = Filtered(crd.versions, at)
  BY DEF Where
<1>3. ServedVersions(crd) = [i \in DOMAIN served |-> key(i)]
  BY DEF ServedVersions
<1> HIDE DEF served, key
<1>4. served \in Seq(ToSet(crd.versions))
  BY <1>1, <1>2, FilteredSeq
<1>5. DOMAIN served = 1 .. Len(served) /\ Len(served) \in Nat
  BY <1>4, LenProperties
<1>6. \A i \in 1 .. Len(served) : key(i) \in ToSet(ServedVersions(crd))
  BY <1>3, <1>5 DEF ToSet
<1>7. QED
  BY <1>3, <1>5, <1>6, IsASeq

\* The definitions are the versions that the CRDs serve.
LEMMA DefinitionsSeq ==
    ASSUME NEW c, IsCollection(c)
    PROVE  /\ Definitions(CRDs(c)) \in Seq(ToSet(Definitions(CRDs(c))))
           /\ \A d \in ToSet(Definitions(CRDs(c))) : \E crd \in ToSet(CRDs(c)) : d \in ToSet(ServedVersions(crd))
           /\ \A crd \in ToSet(CRDs(c)) : ToSet(ServedVersions(crd)) \subseteq ToSet(Definitions(CRDs(c)))
<1> DEFINE crds  == CRDs(c)
           n     == Len(crds)
           parts == [i \in DOMAIN crds |-> ServedVersions(crds[i])]
           S     == UNION {ToSet(parts[i]) : i \in 1 .. n}
<1>1. crds \in Seq(Everything) /\ \A o \in ToSet(crds) : o \in Everything /\ o.kind = "CustomResourceDefinition"
  BY CRDsCollected
<1> HIDE DEF crds
<1>2. DOMAIN crds = 1 .. n /\ n \in Nat
  BY <1>1, LenProperties
<1>3. \A i \in 1 .. n : crds[i] \in ToSet(crds)
  BY <1>2 DEF ToSet
<1>4. \A i \in 1 .. n : parts[i] = ServedVersions(crds[i]) /\ parts[i] \in Seq(ToSet(parts[i]))
  BY <1>1, <1>2, <1>3, ServedSeq
<1>5. DOMAIN parts = 1 .. n /\ Definitions(crds) = Joined(parts)
  BY <1>2 DEF Definitions
<1> HIDE DEF parts, n
<1>6. \A i \in 1 .. n : ToSet(parts[i]) \subseteq S
  OBVIOUS
<1> HIDE DEF S
<1>7. \A i \in 1 .. n : parts[i] \in Seq(S)
  BY <1>4, <1>6, SeqMonotonic
<1>8. Joined(parts) \in Seq(S) /\ ToSet(Joined(parts)) = UNION {ToSet(parts[i]) : i \in 1 .. n}
  BY <1>2, <1>5, <1>7, JoinedSet
<1>9. Definitions(crds) \in Seq(ToSet(Definitions(crds)))
  BY <1>5, <1>8, SeqToSet
<1>10. ASSUME NEW d \in ToSet(Definitions(crds)) PROVE \E crd \in ToSet(crds) : d \in ToSet(ServedVersions(crd))
  BY <1>3, <1>4, <1>5, <1>8
<1>11. ASSUME NEW crd \in ToSet(crds) PROVE ToSet(ServedVersions(crd)) \subseteq ToSet(Definitions(crds))
  <2>1. PICK i \in 1 .. n : crd = crds[i]
    BY <1>2, <1>11 DEF ToSet
  <2>2. QED
    BY <1>4, <1>5, <1>8, <2>1
<1>12. QED
  BY <1>9, <1>10, <1>11 DEF crds

\* The base of a generated CSV is a CSV.
LEMMA BaseOfCSV ==
    ASSUME NEW c, c["ClusterServiceVersion"] \in Seq(ToSet(c["ClusterServiceVersion"])),
           \A o \in ToSet(c["ClusterServiceVersion"]) : IsCSV(o)
    PROVE  IsCSV(BaseOf(c, Operator))
<1> DEFINE s   == c["ClusterServiceVersion"]
           at  == {i \in DOMAIN s : s[i].name[1] = Operator}
           own == Where(s, LAMBDA b : b.name[1] = Operator)
<1>1. own = Filtered(s, at)
  BY DEF Where
<1> HIDE DEF own
<1>2. own \in Seq(ToSet(s))
  BY <1>1, FilteredSeq
<1>3. own # <<>> => own[1] \in ToSet(s)
  <2>1. own # <<>> => 1 \in 1 .. Len(own)
    BY <1>2, EmptySeq
  <2>2. QED
    BY <1>2, <2>1, ElementOfSeq
<1>4. BaseOf(c, Operator) = IF own = <<>> THEN NewBase(Operator) ELSE own[1]
  BY DEF BaseOf, own
<1>5. QED
  BY <1>3, <1>4, NewBaseCSV

----------------------------------------------------------------------------
(* The generated CSV                                                       *)

\* What the manifests give the CSV.
ClusterBindings(c) ==
    [i \in DOMAIN c["ClusterRoleBinding"] |-> [c["ClusterRoleBinding"][i] EXCEPT !.ref.kind = "ClusterRole"]]
DeploymentsOf(c) == [i \in DOMAIN c["Deployment"] |-> SetNamespacedFields(c["Deployment"][i])]
WebhooksOf(c) ==
    {AdmissionDescription(c, h) : h \in ToSet(c["ValidatingWebhookConfiguration"] \o c["MutatingWebhookConfiguration"])}
    \cup UNION {ConversionDescriptions(c, s) : s \in ToSet(c["Service"])}

\* The descriptions that a base has of a definition.
Of(owned, k) == Where(owned, LAMBDA d : KeyOf(d) = KeyOf(k))
DescriptionsOfBase(c, owned) ==
    [i \in DOMAIN Definitions(CRDs(c)) |->
        IF Of(owned, Definitions(CRDs(c))[i]) = <<>> THEN Described(Definitions(CRDs(c))[i])
        ELSE Last(Of(owned, Definitions(CRDs(c))[i]))]

LEMMA DescribedSeq ==
    ASSUME NEW c, IsCollection(c), NEW owned
    PROVE  /\ DescriptionsOfBase(c, owned) \in Seq(ToSet(DescriptionsOfBase(c, owned)))
           /\ DOMAIN DescriptionsOfBase(c, owned) = DOMAIN Definitions(CRDs(c))
<1> DEFINE keys == Definitions(CRDs(c))
           desc(i) == IF Of(owned, keys[i]) = <<>> THEN Described(keys[i]) ELSE Last(Of(owned, keys[i]))
<1>1. DescriptionsOfBase(c, owned) = [i \in DOMAIN keys |-> desc(i)]
  BY DEF DescriptionsOfBase
<1>2. DOMAIN keys = 1 .. Len(keys) /\ Len(keys) \in Nat
  BY DefinitionsSeq, LenProperties
<1> HIDE DEF keys, desc
<1>3. \A i \in 1 .. Len(keys) : desc(i) \in ToSet(DescriptionsOfBase(c, owned))
  BY <1>1, <1>2 DEF ToSet
<1>4. DescriptionsOfBase(c, owned) \in Seq(ToSet(DescriptionsOfBase(c, owned)))
  BY <1>1, <1>2, <1>3, IsASeq
<1>5. QED
  BY <1>1, <1>4 DEF keys

\* It is filled in from the manifests, but for the name, the images and the
\* descriptions of the definitions that the base has.
IsApplied(t, c, accounts, owned) ==
    /\ t.permissions = Permissions(c["RoleBinding"], InPerms(c, accounts), accounts)
    /\ t.clusterPermissions = Permissions(ClusterBindings(c), InClusterPerms(c, accounts), accounts)
    /\ t.deployments = DeploymentsOf(c)
    /\ t.webhooks = WebhooksOf(c)
    /\ t.examples = c["CustomResources"]
    /\ t.owned = DescriptionsOfBase(c, owned)

LEMMA Applied ==
    ASSUME NEW c, IsCollection(c), NEW csv, IsCSV(csv), NEW accounts
    PROVE  LET t == Apply(c, csv, accounts)
           IN  /\ IsCSV(t)
               /\ t.name = csv.name /\ t.relatedImages = csv.relatedImages
               /\ IsApplied(t, c, accounts, csv.owned)
<1> DEFINE s == IF csv.strategy = "" THEN [csv EXCEPT !.strategy = "deployment"] ELSE csv
           r == ApplyRoles(c, s, accounts)
           q == ApplyClusterRoles(c, r, accounts)
           d == ApplyDeployments(c, q)
           o == ApplyCustomResourceDefinitions(c, d)
           e == ApplyCustomResources(c, o)
<1>1. /\ IsCSV(s) /\ s.strategy = "deployment"
      /\ s.name = csv.name /\ s.relatedImages = csv.relatedImages /\ s.owned = csv.owned
  BY DEF IsCSV, NewBase
<1>2. Apply(c, csv, accounts) = ApplyWebhooks(c, e)
  BY <1>1 DEF Apply
<1> HIDE DEF s
<1>3. /\ IsCSV(r) /\ r.permissions = Permissions(c["RoleBinding"], InPerms(c, accounts), accounts)
      /\ r.name = csv.name /\ r.relatedImages = csv.relatedImages /\ r.owned = csv.owned
  BY <1>1 DEF IsCSV, NewBase, ApplyRoles
<1> HIDE DEF r
<1>4. /\ IsCSV(q) /\ q.clusterPermissions = Permissions(ClusterBindings(c), InClusterPerms(c, accounts), accounts)
      /\ q.permissions = r.permissions
      /\ q.name = csv.name /\ q.relatedImages = csv.relatedImages /\ q.owned = csv.owned
  BY <1>3 DEF IsCSV, NewBase, ApplyClusterRoles, ClusterBindings
<1> HIDE DEF q
<1>5. /\ IsCSV(d) /\ d.deployments = DeploymentsOf(c)
      /\ d.permissions = r.permissions /\ d.clusterPermissions = q.clusterPermissions
      /\ d.name = csv.name /\ d.relatedImages = csv.relatedImages /\ d.owned = csv.owned
  BY <1>4 DEF IsCSV, NewBase, ApplyDeployments, DeploymentsOf
<1> HIDE DEF d
<1>6. /\ IsCSV(o) /\ o.deployments = DeploymentsOf(c)
      /\ o.permissions = r.permissions /\ o.clusterPermissions = q.clusterPermissions
      /\ o.name = csv.name /\ o.relatedImages = csv.relatedImages
      /\ o.owned = DescriptionsOfBase(c, csv.owned)
  <2>1. o = [d EXCEPT !.owned = DescriptionsOfBase(c, d.owned)]
    BY DEF ApplyCustomResourceDefinitions, DescriptionsOfBase, Of
  <2>2. \A u : DescriptionsOfBase(c, u) \in Seq(ToSet(DescriptionsOfBase(c, u)))
    BY DescribedSeq
  <2> HIDE DEF o
  <2>3. QED
    BY <1>5, <2>1, <2>2 DEF IsCSV, NewBase
<1> HIDE DEF o
<1>7. /\ IsCSV(e) /\ e.examples = c["CustomResources"] /\ e.owned = o.owned
      /\ e.deployments = DeploymentsOf(c)
      /\ e.permissions = r.permissions /\ e.clusterPermissions = q.clusterPermissions
      /\ e.name = csv.name /\ e.relatedImages = csv.relatedImages
  BY <1>6 DEF IsCSV, NewBase, ApplyCustomResources
<1> HIDE DEF e
<1>8. Apply(c, csv, accounts) = [e EXCEPT !.webhooks = WebhooksOf(c)]
  BY <1>2 DEF ApplyWebhooks, WebhooksOf
<1> DEFINE t == Apply(c, csv, accounts)
<1> HIDE DEF t
<1>9. /\ IsCSV(t) /\ t.webhooks = WebhooksOf(c)
      /\ t.examples = e.examples /\ t.owned = e.owned /\ t.deployments = e.deployments
      /\ t.permissions = e.permissions /\ t.clusterPermissions = e.clusterPermissions
      /\ t.name = e.name /\ t.relatedImages = e.relatedImages
  BY <1>7, <1>8 DEF IsCSV, NewBase, t
<1>10. QED
  BY <1>3, <1>4, <1>6, <1>7, <1>9 DEF t, IsApplied

\* The CSV that the manifests are applied to.
Named(c, version, from, images) ==
    LET start == BaseOf(c, Operator)
        named == IF version = "" THEN start
                 ELSE [start EXCEPT !.name = MakeCSVName(Operator, version), !.version = version]
        next  == IF from = "" THEN named ELSE [named EXCEPT !.replaces = MakeCSVName(Operator, from)]
    IN  [next EXCEPT !.relatedImages = images]

IsGenerated(t, c, version, from, images, extra) ==
    LET n == Named(c, version, from, images)
    IN  /\ t = Apply(c, n, Accounts(c, extra))
        /\ IsCSV(n) /\ IsCSV(t) /\ t.relatedImages = images
        /\ version # "" => t.name = MakeCSVName(Operator, version)

LEMMA GeneratedCSV ==
    ASSUME NEW p \in SUBSET Features, NEW b, IsBase(b), NEW mode,
           NEW version, NEW from, NEW images, NEW extra
    PROVE  LET c == Collected(p, b, mode)
           IN  IsGenerated(Generated(c, Operator, version, from, images, extra), c, version, from, images, extra)
<1> DEFINE c     == Collected(p, b, mode)
           start == BaseOf(c, Operator)
           named == IF version = "" THEN start
                    ELSE [start EXCEPT !.name = MakeCSVName(Operator, version), !.version = version]
           next  == IF from = "" THEN named ELSE [named EXCEPT !.replaces = MakeCSVName(Operator, from)]
           n     == [next EXCEPT !.relatedImages = images]
           t     == Generated(c, Operator, version, from, images, extra)
<1>1. IsCSV(start)
  BY CollectedSorted, BaseOfCSV
<1>2. t = Apply(c, n, Accounts(c, extra)) /\ n = Named(c, version, from, images)
  BY DEF Generated, Named
<1> HIDE DEF c, start
<1>3. IsCSV(named) /\ (version # "" => named.name = MakeCSVName(Operator, version))
  BY <1>1 DEF IsCSV, NewBase
<1> HIDE DEF named
<1>4. IsCSV(next) /\ (version # "" => next.name = MakeCSVName(Operator, version))
  BY <1>3 DEF IsCSV, NewBase
<1> HIDE DEF next
<1>5. IsCSV(n) /\ (version # "" => n.name = MakeCSVName(Operator, version)) /\ n.relatedImages = images
  BY <1>4 DEF IsCSV, NewBase
<1> HIDE DEF n, t
<1>6. IsCSV(n) /\ IsCollection(c)
  BY <1>5, CollectedPrinted DEF c
<1>7. IsCSV(t) /\ t.name = n.name /\ t.relatedImages = n.relatedImages
  BY <1>2, <1>6, Applied
<1>8. QED
  BY <1>2, <1>5, <1>7 DEF c, t, IsGenerated

----------------------------------------------------------------------------
(* The invariant: bases, packages and what is remembered of them           *)

\* The history has its fields.
MadeInv == DOMAIN made = {"base", "bundle", "failed", "heads", "migrated"}

\* Every CSV that may become the base is one.
BaseInv ==
    /\ project \in SUBSET Features
    /\ IsBase(base)
    /\ bundle # <<>> => IsCSV(bundle.csv)

\* Channels of distinct names, each a name and a CSV.
IsChannels(s) ==
    /\ s \in Seq(ToSet(s))
    /\ \A i, j \in DOMAIN s : s[i].name = s[j].name => i = j
    /\ \A i \in DOMAIN s : DOMAIN s[i] = {"name", "csv"}

\* The channels of a package file: their heads are those they were last given,
\* each known by its directory or its failure.
FileInv(file, heads, known) ==
    LET s == file.channels
    IN  /\ IsChannels(s)
        /\ s # <<>> => \E i \in DOMAIN s : s[i].name = file.default
        /\ DOMAIN heads = {s[i].name : i \in DOMAIN s}
        /\ \A i \in DOMAIN s : /\ s[i].csv = MakeCSVName(Operator, heads[s[i].name])
                               /\ heads[s[i].name] \in known

\* A version's directory, in whatever way it is generated.
IsDir(dir, version) ==
    DOMAIN dir = {"csv", "configs", "files"} /\ dir.csv.name = MakeCSVName(Operator, version)

\* PackageConsistent, with the names of the channels distinct position by position.
PackInv ==
    /\ DOMAIN package = {"channels", "default", "dirs"}
    /\ FileInv(package, made.heads, DOMAIN package.dirs \cup made.failed)
    /\ DOMAIN package.dirs \subseteq VersionSet
    /\ \A v \in DOMAIN package.dirs : IsDir(package.dirs[v], v)

\* Channels of distinct names are as many as their names.
LEMMA PackImplies == ASSUME PackInv PROVE PackageConsistent
<1> DEFINE n == Len(package.channels)
           nameOf == [i \in 1 .. n |-> package.channels[i].name]
<1>1. n \in Nat /\ DOMAIN package.channels = 1 .. n
  BY LenProperties DEF PackInv, FileInv, IsChannels
<1>2. ChannelNames = {package.channels[i].name : i \in 1 .. n}
  BY <1>1 DEF ChannelNames, ToSet
<1>3. nameOf \in Injection(1 .. n, ChannelNames)
  BY <1>1, <1>2 DEF PackInv, FileInv, IsChannels, Injection, IsInjective
<1>4. nameOf \in Surjection(1 .. n, ChannelNames)
  BY <1>2 DEF Surjection
<1>5. IsFiniteSet(1 .. n) /\ Cardinality(1 .. n) = n
  <2>1. 1 \in Int /\ n \in Int /\ (IF 1 > n THEN 0 ELSE n - 1 + 1) = n
    BY <1>1
  <2>2. QED
    BY <2>1, FS_Interval
<1>6. Cardinality(ChannelNames) = n
  BY <1>3, <1>4, <1>5, FS_Surjection
<1>7. \A ch \in ToSet(package.channels) :
         /\ ch.csv = MakeCSVName(Operator, made.heads[ch.name])
         /\ made.heads[ch.name] \in DOMAIN package.dirs \cup made.failed
  BY DEF PackInv, FileInv, ToSet
<1>8. package.channels # <<>> => package.default \in ChannelNames
  BY <1>1, <1>2 DEF PackInv, FileInv
<1>9. ChannelNames = DOMAIN made.heads
  BY <1>1, <1>2 DEF PackInv, FileInv
<1>10. \A v \in DOMAIN package.dirs : package.dirs[v].csv.name = MakeCSVName(Operator, v)
  BY DEF PackInv, IsDir
<1>11. Cardinality(ChannelNames) = Len(package.channels)
  BY <1>6
<1>12. QED
  BY <1>7, <1>8, <1>9, <1>10, <1>11 DEF PackageConsistent

----------------------------------------------------------------------------
(* The package file                                                        *)

\* The channel of that name gets the CSV, no other changes.
IsSet(t, s, name, csv) ==
    /\ IsChannels(t)
    /\ {t[i].name : i \in DOMAIN t} = {s[i].name : i \in DOMAIN s} \cup {name}
    /\ s = <<>> => Len(t) = 1
    /\ \A i \in DOMAIN t : IF t[i].name = name THEN t[i].csv = csv ELSE \E j \in DOMAIN s : t[i] = s[j]

LEMMA SetChannelsSound ==
    ASSUME NEW s, IsChannels(s), NEW name, NEW csv
    PROVE  IsSet(SetChannels(s, name, csv), s, name, csv)
<1> SUFFICES ASSUME NEW t, t = SetChannels(s, name, csv) PROVE IsSet(t, s, name, csv)
  OBVIOUS
<1> DEFINE n == Len(s)
<1>1. n \in Nat /\ DOMAIN s = 1 .. n
  BY LenProperties DEF IsChannels
<1>2. CASE \E i \in DOMAIN s : s[i].name = name
  <2> DEFINE new(i) == IF s[i].name = name THEN [s[i] EXCEPT !.csv = csv] ELSE s[i]
  <2>1. t = [i \in 1 .. n |-> new(i)]
    BY <1>1, <1>2, Zenon DEF SetChannels
  <2>2. \A i \in 1 .. n : /\ new(i).name = s[i].name /\ DOMAIN new(i) = {"name", "csv"}
                          /\ IF new(i).name = name THEN new(i).csv = csv ELSE new(i) = s[i]
    BY <1>1 DEF IsChannels
  <2> HIDE DEF new
  <2>3. DOMAIN t = 1 .. n /\ \A i \in 1 .. n : t[i] = new(i) /\ t[i] \in ToSet(t)
    BY <2>1 DEF ToSet
  <2>4. t \in Seq(ToSet(t))
    BY <1>1, <2>1, <2>3, IsASeq
  <2>5. \A i, j \in 1 .. n : t[i].name = t[j].name => i = j
    BY <1>1, <2>2, <2>3 DEF IsChannels
  <2>6. IsChannels(t)
    BY <2>2, <2>3, <2>4, <2>5 DEF IsChannels
  <2>7. {t[i].name : i \in DOMAIN t} = {s[i].name : i \in DOMAIN s} \cup {name}
    <3>1. {t[i].name : i \in DOMAIN t} = {s[i].name : i \in DOMAIN s}
      BY <1>1, <2>2, <2>3
    <3>2. name \in {s[i].name : i \in DOMAIN s}
      BY <1>2
    <3>3. QED
      BY <3>1, <3>2
  <2>8. s # <<>>
    BY <1>2
  <2>9. \A i \in DOMAIN t : IF t[i].name = name THEN t[i].csv = csv ELSE \E j \in DOMAIN s : t[i] = s[j]
    BY <1>1, <2>2, <2>3
  <2>10. QED
    BY <2>6, <2>7, <2>8, <2>9 DEF IsSet
<1>3. CASE \A i \in DOMAIN s : s[i].name # name
  <2> DEFINE ch == [name |-> name, csv |-> csv]
  <2>1. t = Append(s, ch)
    BY <1>3 DEF SetChannels
  <2>2. s \in Seq(ToSet(s) \cup {ch})
    BY SeqMonotonic DEF IsChannels
  <2>3. /\ t \in Seq(ToSet(s) \cup {ch}) /\ Len(t) = n + 1
        /\ \A i \in 1 .. n : t[i] = s[i]
        /\ t[n + 1] = ch
    BY <1>1, <2>1, <2>2, AppendProperties
  <2>4. t \in Seq(ToSet(t)) /\ DOMAIN t = 1 .. n + 1
    BY <2>3, SeqToSet, LenProperties
  <2>5. \A i \in DOMAIN t : (i \in 1 .. n /\ t[i] = s[i]) \/ (i = n + 1 /\ t[i] = ch)
    BY <1>1, <2>3, <2>4
  <2>6. IsChannels(t)
    BY <1>1, <1>3, <2>4, <2>5 DEF IsChannels
  <2>7. {t[i].name : i \in DOMAIN t} = {s[i].name : i \in DOMAIN s} \cup {name}
    <3>1. n + 1 \in DOMAIN t /\ \A i \in 1 .. n : i \in DOMAIN t
      BY <1>1, <2>4
    <3>2. QED
      BY <1>1, <2>3, <2>5, <3>1
  <2>8. s = <<>> => Len(t) = 1
    BY <1>1, <2>3
  <2>9. \A i \in DOMAIN t : IF t[i].name = name THEN t[i].csv = csv ELSE \E j \in DOMAIN s : t[i] = s[j]
    BY <1>1, <1>3, <2>5
  <2>10. QED
    BY <2>6, <2>7, <2>8, <2>9 DEF IsSet
<1>4. QED
  BY <1>2, <1>3

\* The file stays as it is, or the channel is set and may become the default.
NextForm(next, name, version) ==
    LET set == SetChannels(package.channels, name, MakeCSVName(Operator, version))
    IN  \/ next = package
        \/ \E default \in {name, package.default} :
             /\ next = [package EXCEPT !.channels = set, !.default = default]
             /\ Len(set) = 1 => default = name

LEMMA NextPackageForm ==
    ASSUME NEW version, NEW channel, NEW isDefault
    PROVE  NextForm(NextPackage(version, channel, isDefault), IF channel = "" THEN "alpha" ELSE channel, version)
<1> DEFINE name == IF channel = "" THEN "alpha" ELSE channel
           set  == SetChannels(package.channels, name, MakeCSVName(Operator, version))
           new(default) == [package EXCEPT !.channels = set, !.default = default]
           fresh == channel = "" \/ isDefault \/ Len(set) = 1
<1>1. name = IF channel # "" THEN channel ELSE "alpha"
  OBVIOUS
<1>2. \/ NextPackage(version, channel, isDefault) = package
      \/ NextPackage(version, channel, isDefault) = new(IF fresh THEN name ELSE package.default)
  BY <1>1 DEF NextPackage
<1>3. QED
  BY <1>2 DEF NextForm

\* Setting a channel in the package file, with the history of it.
LEMMA ChannelSet ==
    ASSUME PackInv, NEW name, NEW version, NEW next, NextForm(next, name, version), next # package
    PROVE  /\ DOMAIN next = {"channels", "default", "dirs"} /\ next.dirs = package.dirs
           /\ FileInv(next, Put(made.heads, name, version), DOMAIN package.dirs \cup made.failed \cup {version})
<1> DEFINE csv == MakeCSVName(Operator, version)
           set == SetChannels(package.channels, name, csv)
           heads == Put(made.heads, name, version)
<1>0. PICK default \in {name, package.default} :
        /\ next = [package EXCEPT !.channels = set, !.default = default]
        /\ Len(set) = 1 => default = name
  BY DEF NextForm
<1>1. IsChannels(package.channels)
  BY DEF PackInv, FileInv
<1>2. /\ IsChannels(set)
      /\ {set[i].name : i \in DOMAIN set} = {package.channels[i].name : i \in DOMAIN package.channels} \cup {name}
      /\ package.channels = <<>> => Len(set) = 1
      /\ \A i \in DOMAIN set : IF set[i].name = name THEN set[i].csv = csv
                               ELSE \E j \in DOMAIN package.channels : set[i] = package.channels[j]
  <2>1. IsSet(set, package.channels, name, csv)
    BY <1>1, SetChannelsSound
  <2> HIDE DEF set, csv
  <2>2. QED
    BY <2>1 DEF IsSet
<1>3. /\ DOMAIN next = {"channels", "default", "dirs"} /\ next.dirs = package.dirs
      /\ next.channels = set /\ next.default = default
  BY <1>0 DEF PackInv
<1> HIDE DEF set, csv
<1>4. DOMAIN heads = DOMAIN made.heads \cup {name}
      /\ \A x \in DOMAIN heads : heads[x] = IF x = name THEN version ELSE made.heads[x]
  BY DEF Put
<1> HIDE DEF heads
<1>5. DOMAIN heads = {set[i].name : i \in DOMAIN set}
  BY <1>2, <1>4 DEF PackInv, FileInv
<1>6. \E i \in DOMAIN set : set[i].name = default
  <2>1. CASE default = name
    BY <1>2, <2>1
  <2>2. CASE default # name
    <3>1. default = package.default /\ package.channels # <<>>
      BY <1>0, <1>2, <2>2
    <3>2. default \in {package.channels[i].name : i \in DOMAIN package.channels}
      BY <3>1 DEF PackInv, FileInv
    <3>3. QED
      BY <1>2, <3>2
  <2>3. QED
    BY <2>1, <2>2
<1>7. ASSUME NEW i \in DOMAIN set
      PROVE  /\ set[i].csv = MakeCSVName(Operator, heads[set[i].name])
             /\ heads[set[i].name] \in DOMAIN package.dirs \cup made.failed \cup {version}
  <2>1. set[i].name \in DOMAIN heads
    BY <1>5
  <2>2. CASE set[i].name = name
    BY <1>2, <1>4, <2>1, <2>2 DEF csv
  <2>3. CASE set[i].name # name
    <3>1. PICK j \in DOMAIN package.channels : set[i] = package.channels[j]
      BY <1>2, <2>3
    <3>2. heads[set[i].name] = made.heads[package.channels[j].name]
      BY <1>4, <2>1, <2>3, <3>1
    <3>3. QED
      BY <3>1, <3>2 DEF PackInv, FileInv
  <2>4. QED
    BY <2>2, <2>3
<1>8. QED
  BY <1>2, <1>3, <1>5, <1>6, <1>7 DEF FileInv, heads

\* A failed command leaves the package file, and remembers its version.
LEMMA PackageStep ==
    ASSUME MadeInv, BaseInv, PackInv, NEW f \in PackageFlags, ValidFlags(f),
           GeneratePackage(f.mode, f.version, f.from, f.channel, f.isDefault)
    PROVE  MadeInv' /\ PackInv'
<1> DEFINE version == f.version
           name == IF f.channel = "" THEN "alpha" ELSE f.channel
           next == NextPackage(version, f.channel, f.isDefault)
           c    == Collected(project, base, f.mode)
           csv  == Generated(c, Operator, version, f.from, <<>>, {})
           old  == IF version \in DOMAIN package.dirs THEN package.dirs[version].files ELSE <<>>
           dir  == [csv |-> csv, configs |-> IF version \in DOMAIN package.dirs THEN package.dirs[version].configs ELSE 0,
                    files |-> WriteObjectsToFiles(old, GetManifestObjects(c, Accounts(c, {})))]
           fails == ~CanCollect(project, base, f.mode) \/ ~Generates(c, csv, Accounts(c, {}))
           heads == Put(made.heads, name, version)
<1>1. version # "" /\ version \in VersionSet
  BY VersionsAssumption DEF ValidFlags, VersionSet
<1>2. IsDir(dir, version)
  <2>1. project \in SUBSET Features /\ IsBase(base)
    BY DEF BaseInv
  <2>2. csv.name = MakeCSVName(Operator, version)
    <3>1. IsGenerated(csv, c, version, f.from, <<>>, {})
      BY <2>1, GeneratedCSV
    <3> HIDE DEF csv, c
    <3>2. QED
      BY <1>1, <3>1 DEF IsGenerated
  <2> HIDE DEF csv, c, old
  <2>3. QED
    BY <2>2 DEF IsDir
<1>3. package' = IF fails THEN next ELSE [next EXCEPT !.dirs = Put(next.dirs, version, dir)]
  BY DEF GeneratePackage
<1>4. made' = [made EXCEPT !.failed = IF fails THEN made.failed \cup {version} ELSE made.failed \ {version},
                           !.heads = IF next = package THEN made.heads ELSE heads,
                           !.migrated = FALSE]
  BY DEF GeneratePackage
<1>5. NextForm(next, name, version)
  BY NextPackageForm
<1>6. version \in VersionSet
  BY <1>1
<1> HIDE DEF version, name, next, dir, fails, heads
<1> DEFINE kept == IF next = package THEN made.heads ELSE heads
<1>7. /\ DOMAIN next = {"channels", "default", "dirs"} /\ next.dirs = package.dirs
      /\ FileInv(next, kept, DOMAIN package.dirs \cup made.failed \cup {version})
  <2>1. CASE next = package
    BY <2>1 DEF PackInv, FileInv
  <2>2. CASE next # package
    <3>1. /\ DOMAIN next = {"channels", "default", "dirs"} /\ next.dirs = package.dirs
          /\ FileInv(next, Put(made.heads, name, version), DOMAIN package.dirs \cup made.failed \cup {version})
      BY <1>5, <2>2, ChannelSet
    <3>2. kept = Put(made.heads, name, version)
      BY <2>2 DEF heads
    <3>3. QED
      BY <3>1, <3>2
  <2>3. QED
    BY <2>1, <2>2
<1> HIDE DEF kept
<1>8. /\ MadeInv' /\ made'.heads = kept
      /\ made'.failed = IF fails THEN made.failed \cup {version} ELSE made.failed \ {version}
  BY <1>4 DEF MadeInv, kept
<1>9. /\ DOMAIN package' = {"channels", "default", "dirs"}
      /\ package'.channels = next.channels /\ package'.default = next.default
      /\ package'.dirs = IF fails THEN package.dirs ELSE Put(package.dirs, version, dir)
  BY <1>3, <1>7
<1>10. /\ DOMAIN package'.dirs = IF fails THEN DOMAIN package.dirs ELSE DOMAIN package.dirs \cup {version}
       /\ \A v \in DOMAIN package'.dirs :
            IF v = version /\ ~fails THEN package'.dirs[v] = dir
            ELSE v \in DOMAIN package.dirs /\ package'.dirs[v] = package.dirs[v]
  BY <1>9 DEF Put
<1>11. \A v \in DOMAIN package'.dirs : v \in VersionSet' /\ IsDir(package'.dirs[v], v)
  BY <1>2, <1>6, <1>10 DEF PackInv, VersionSet
<1>12. DOMAIN package.dirs \cup made.failed \cup {version} \subseteq DOMAIN package'.dirs \cup made'.failed
  BY <1>8, <1>10
<1>13. FileInv(package', kept, DOMAIN package'.dirs \cup made'.failed)
  BY <1>7, <1>9, <1>12 DEF FileInv
<1>14. PackInv'
  BY <1>8, <1>9, <1>11, <1>13 DEF PackInv, FileInv, IsDir
<1>15. QED
  BY <1>8, <1>14

----------------------------------------------------------------------------
(* Migration                                                               *)

\* The metadata of a migrated version says what was copied of it.
LEMMA BundledSound ==
    ASSUME NEW dir
    PROVE  /\ Bundled(dir).csv = dir.csv /\ Bundled(dir).config = WriteScorecardConfig(dir)
           /\ Bundled(dir).metadata # <<>> => Bundled(dir).metadata.tests = Bundled(dir).config
           /\ ~ScorecardConfigFails(dir) => Bundled(dir).metadata.channels = GetChannelsByCSV(dir.csv)
BY DEF Bundled, GenerateMetadata

\* What a channel of the package is offered in the metadata of a version.
LEMMA Offered ==
    ASSUME PackInv, NEW ch \in ToSet(package.channels), NEW csv
    PROVE  ch.name \in GetChannelsByCSV(csv) <=>
             \/ ch.csv = csv.name
             \/ ch.name = package.default /\ \A other \in ToSet(package.channels) : other.csv # csv.name
<1>1. PICK i \in DOMAIN package.channels : ch = package.channels[i]
  BY DEF ToSet
<1>2. \A other \in ToSet(package.channels) : other.name = ch.name => other = ch
  <2>1. TAKE other \in ToSet(package.channels)
  <2>2. PICK j \in DOMAIN package.channels : other = package.channels[j]
    BY DEF ToSet
  <2>3. QED
    BY <1>1, <2>2 DEF PackInv, FileInv, IsChannels
<1>3. ch.name \in ChannelsOf(csv) <=> ch.csv = csv.name
  BY <1>2 DEF ChannelsOf
<1>4. ChannelsOf(csv) = {} <=> \A other \in ToSet(package.channels) : other.csv # csv.name
  BY DEF ChannelsOf
<1>5. QED
  BY <1>3, <1>4 DEF GetChannelsByCSV

\* A migration that is complete has every version of the package.
LEMMA MigrateStep ==
    ASSUME MadeInv, PackInv, NEW built \in DOMAIN Versions, Migrate(built)
    PROVE  MigratedAsPublished'
<1> DEFINE of   == Where(Versions, LAMBDA v : v \in DOMAIN package.dirs)
           at   == {i \in DOMAIN Versions : Versions[i] \in DOMAIN package.dirs}
           bad  == {i \in DOMAIN of : ScorecardConfigFails(package.dirs[of[i]])}
           done == {i \in DOMAIN of : i <= built /\ \A j \in bad : i <= j}
<1>1. of = Filtered(Versions, at)
  BY DEF Where
<1>2. Versions \in Seq(ToSet(Versions))
  BY VersionsAssumption
<1>3. /\ bundles' = [v \in {of[i] : i \in done} |-> Bundled(package.dirs[v])]
      /\ made' = [made EXCEPT !.migrated = (built = Len(of) /\ bad = {})]
      /\ package' = package
  BY DEF Migrate
<1> HIDE DEF of
<1>4. of \in Seq(ToSet(Versions)) /\ ToSet(of) = {Versions[i] : i \in at}
  BY <1>1, <1>2, FilteredSeq
<1>5. DOMAIN of = 1 .. Len(of) /\ Len(of) \in Nat
  BY <1>4, LenProperties
<1>6. \A v \in DOMAIN bundles' : bundles'[v] = Bundled(package.dirs[v])
  BY <1>3
<1>7. made'.migrated = (built = Len(of) /\ bad = {})
  BY <1>3 DEF MadeInv
<1>8. ASSUME built = Len(of), bad = {} PROVE DOMAIN bundles' = DOMAIN package.dirs
  <2>1. done = DOMAIN of
    BY <1>5, <1>8
  <2>2. {of[i] : i \in DOMAIN of} = DOMAIN package.dirs
    <3>1. {of[i] : i \in DOMAIN of} = {Versions[i] : i \in at}
      BY <1>4 DEF ToSet
    <3>2. DOMAIN package.dirs \subseteq {Versions[i] : i \in DOMAIN Versions}
      BY DEF PackInv, VersionSet, ToSet
    <3>3. QED
      BY <3>1, <3>2
  <2> HIDE DEF done
  <2>3. QED
    BY <1>3, <2>1, <2>2
<1>9. ASSUME bad = {}, NEW v \in DOMAIN bundles' PROVE ~ScorecardConfigFails(package.dirs[v])
  BY <1>3, <1>9
<1>10. ASSUME NEW v \in DOMAIN bundles', bundles'[v].metadata # <<>>
       PROVE  bundles'[v].metadata.tests = bundles'[v].config
  BY <1>6, <1>10, BundledSound
<1>11. ASSUME built = Len(of), bad = {}, NEW ch \in ToSet(package.channels), NEW v \in DOMAIN bundles'
       PROVE  ch.name \in bundles'[v].metadata.channels <=>
                \/ ch.csv = bundles'[v].csv.name
                \/ /\ ch.name = package.default
                   /\ \A other \in ToSet(package.channels) : other.csv # bundles'[v].csv.name
  <2>1. /\ bundles'[v].csv = package.dirs[v].csv
        /\ bundles'[v].metadata.channels = GetChannelsByCSV(package.dirs[v].csv)
    BY <1>6, <1>9, <1>11, BundledSound
  <2>2. QED
    BY <2>1, Offered
<1> HIDE DEF bad
<1>12. ASSUME made'.migrated
       PROVE  /\ DOMAIN bundles' = DOMAIN package'.dirs
              /\ \A ch \in ToSet(package'.channels), v \in DOMAIN bundles' :
                   ch.name \in bundles'[v].metadata.channels <=>
                     \/ ch.csv = bundles'[v].csv.name
                     \/ /\ ch.name = package'.default
                        /\ \A other \in ToSet(package'.channels) : other.csv # bundles'[v].csv.name
  <2>1. built = Len(of) /\ bad = {}
    BY <1>7, <1>12
  <2>2. DOMAIN bundles' = DOMAIN package'.dirs
    BY <1>3, <1>8, <2>1
  <2>3. package' = package
    BY <1>3
  <2>4. \A ch \in ToSet(package.channels), v \in DOMAIN bundles' :
          ch.name \in bundles'[v].metadata.channels <=>
            \/ ch.csv = bundles'[v].csv.name
            \/ /\ ch.name = package.default
               /\ \A other \in ToSet(package.channels) : other.csv # bundles'[v].csv.name
    BY <1>11, <2>1
  <2>5. QED
    BY <2>2, <2>3, <2>4
<1>13. QED
  BY <1>10, <1>12 DEF MigratedAsPublished

----------------------------------------------------------------------------
(* The steps                                                               *)

\* What the other commands and the user leave of the package.
LEMMA PackageKept ==
    ASSUME MadeInv, PackInv, MigratedAsPublished, UNCHANGED <<package, bundles>>,
           NEW field \in {"base", "bundle"}, NEW value,
           made' = made \/ made' = [made EXCEPT ![field] = value]
    PROVE  MadeInv' /\ PackInv' /\ MigratedAsPublished'
<1>1. MadeInv' /\ made'.heads = made.heads /\ made'.failed = made.failed /\ made'.migrated = made.migrated
  BY DEF MadeInv
<1>2. PackInv'
  BY <1>1 DEF PackInv, FileInv, IsDir, VersionSet
<1>3. MigratedAsPublished'
  BY <1>1 DEF MigratedAsPublished
<1>4. QED
  BY <1>1, <1>2, <1>3

LEMMA AddConfigsStep ==
    ASSUME MadeInv, PackInv, MigratedAsPublished, NEW v \in VersionSet, NEW n \in 1 .. 2, AddConfigs(v, n)
    PROVE  MadeInv' /\ PackInv' /\ MigratedAsPublished'
<1>1. /\ package' = [package EXCEPT !.dirs[v].configs = n] /\ v \in DOMAIN package.dirs
      /\ UNCHANGED <<made, bundles>>
  BY DEF AddConfigs
<1>2. /\ DOMAIN package' = DOMAIN package
      /\ package'.channels = package.channels /\ package'.default = package.default
      /\ package'.dirs = [package.dirs EXCEPT ![v] = [package.dirs[v] EXCEPT !.configs = n]]
  BY <1>1 DEF PackInv
<1>3. /\ DOMAIN package'.dirs = DOMAIN package.dirs
      /\ \A w \in DOMAIN package.dirs : IsDir(package'.dirs[w], w)
  BY <1>1, <1>2 DEF PackInv, IsDir
<1>4. PackInv'
  BY <1>1, <1>2, <1>3 DEF PackInv, FileInv, IsDir, VersionSet
<1>5. MigratedAsPublished'
  BY <1>1, <1>2, <1>3 DEF MigratedAsPublished
<1>6. QED
  BY <1>1, <1>4, <1>5 DEF MadeInv

\* Nothing remains migrated when the bundles go or the package changes.
LEMMA MigrationReset ==
    ASSUME MadeInv, MigratedAsPublished, made'.migrated = FALSE, bundles' \in {bundles, <<>>}
    PROVE  MigratedAsPublished'
<1>1. CASE bundles' = bundles
  BY <1>1 DEF MigratedAsPublished
<1>2. CASE bundles' = <<>>
  BY <1>2 DEF MigratedAsPublished
<1>3. QED
  BY <1>1, <1>2

----------------------------------------------------------------------------
(* The files of a bundle                                                   *)

\* Each object has a file of its own, also when names are taken.
LEMMA FilesDistinct ==
    ASSUME NEW S, NEW objs \in Seq(S), NEW i \in DOMAIN objs, NEW j \in DOMAIN objs,
           FileAt(objs, i) = FileAt(objs, j)
    PROVE  i = j
<1> DEFINE Taken(k) == \E l \in 1 .. k - 1 : FileName(objs[l], 0) = FileName(objs[k], 0)
           until(k) == {l \in 1 .. k : Taken(l)}
           dup(k)   == IF Taken(k) THEN Cardinality(until(k)) ELSE 0
<1>1. DOMAIN objs = 1 .. Len(objs) /\ Len(objs) \in Nat
  BY LenProperties
<1>2. \A k \in DOMAIN objs : FileAt(objs, k) = FileName(objs[k], dup(k))
  BY DEF FileAt
<1>3. \A k \in DOMAIN objs : /\ IsFiniteSet(until(k)) /\ Cardinality(until(k)) \in Nat
                             /\ Taken(k) => k \in until(k) /\ Cardinality(until(k)) # 0
  <2>1. TAKE k \in DOMAIN objs
  <2>2. IsFiniteSet(1 .. k)
    <3>1. 1 \in Int /\ k \in Int
      BY <1>1
    <3>2. QED
      BY <3>1, FS_Interval
  <2>3. until(k) \in SUBSET (1 .. k) /\ (Taken(k) => k \in until(k))
    BY <1>1
  <2> HIDE DEF until
  <2>4. QED
    BY <2>2, <2>3, FS_Subset, FS_CardinalityType, FS_EmptySet
<1>4. SUFFICES ASSUME NEW k \in DOMAIN objs, NEW l \in DOMAIN objs, k < l, FileAt(objs, k) = FileAt(objs, l)
               PROVE  FALSE
  BY <1>1
<1>5. objs[k].kind = objs[l].kind /\ objs[k].name = objs[l].name /\ dup(k) = dup(l)
  <2> HIDE DEF dup
  <2>1. FileName(objs[k], dup(k)) = FileName(objs[l], dup(l))
    BY <1>2, <1>4
  <2>2. QED
    BY <2>1 DEF FileName
<1>6. Taken(l)
  BY <1>1, <1>4, <1>5 DEF FileName
<1>7. Cardinality(until(l)) # 0 /\ l \in until(l) /\ until(k) \in SUBSET until(l) /\ l \notin until(k)
  <2>1. until(k) \in SUBSET until(l) /\ l \notin until(k)
    <3> HIDE DEF Taken
    <3>1. QED
      BY <1>1, <1>4
  <2> HIDE DEF until
  <2>2. QED
    BY <1>3, <1>6, <2>1
<1>8. Taken(k) /\ Cardinality(until(k)) = Cardinality(until(l))
  BY <1>3, <1>5, <1>6, <1>7
<1> HIDE DEF until
<1>9. QED
  BY <1>3, <1>7, <1>8, FS_Subset

IsIn(o, files) == \E f \in DOMAIN files : files[f] = o

\* Each object that is written is in a file.
LEMMA WrittenAll ==
    ASSUME NEW dir, NEW S, NEW objs \in Seq(S), NEW o \in ToSet(objs)
    PROVE  IsIn(o, WriteObjectsToFiles(dir, objs))
<1> DEFINE written == {FileAt(objs, i) : i \in DOMAIN objs}
           files   == WriteObjectsToFiles(dir, objs)
<1>1. PICK i \in DOMAIN objs : o = objs[i]
  BY DEF ToSet
<1> DEFINE f == FileAt(objs, i)
<1> HIDE DEF f
<1>2. f \in written /\ i \in DOMAIN objs
  BY <1>1 DEF f
<1>3. (CHOOSE j \in DOMAIN objs : FileAt(objs, j) = f) = i
  BY <1>2, FilesDistinct DEF f
<1>4. f \in DOMAIN files /\ files[f] = objs[CHOOSE j \in DOMAIN objs : FileAt(objs, j) = f]
  BY <1>2 DEF WriteObjectsToFiles
<1>5. QED
  BY <1>1, <1>3, <1>4 DEF IsIn

\* The objects for the bundle are some of those printed.
LEMMA ManifestObjects ==
    ASSUME NEW c, NEW S, NEW accounts,
           \A f \in Plain \ {"ClusterServiceVersion"} : c[f] \in Seq(S)
    PROVE  LET objs == GetManifestObjects(c, accounts)
           IN  /\ objs \in Seq(S)
               /\ \A o \in S :
                    \/ o \in ToSet(CRDs(c)) \/ o \in ToSet(c["Service"])
                    \/ /\ o \in ToSet(c["Role"]) \cup ToSet(c["ClusterRole"])
                       /\ o \notin InPerms(c, accounts) \cup InClusterPerms(c, accounts)
                    \/ /\ o \in ToSet(c["RoleBinding"]) \cup ToSet(c["ClusterRoleBinding"])
                       /\ Remains(c, o, accounts)
                    \/ o \in ToSet(c["ServiceAccount"]) /\ o.name \notin accounts
                    => o \in ToSet(objs)
               /\ \A o \in ToSet(objs) :
                    \/ o \in ToSet(CRDs(c)) \/ o \in ToSet(c["Service"])
                    \/ o \in ToSet(c["Others"]) /\ o.kind \in Supported
                    \/ o \in ToSet(c["Role"]) \cup ToSet(c["ClusterRole"])
                    \/ o \in ToSet(c["RoleBinding"]) \cup ToSet(c["ClusterRoleBinding"])
                    \/ o \in ToSet(c["ServiceAccount"])
<1> DEFINE crds   == CRDs(c)
           others == Where(c["Others"], LAMBDA o : o.kind \in Supported)
           roles  == c["Role"] \o c["ClusterRole"]
           binds  == c["RoleBinding"] \o c["ClusterRoleBinding"]
           inside == InPerms(c, accounts) \cup InClusterPerms(c, accounts)
           outR   == Where(roles, LAMBDA r : r \notin inside)
           outB   == Where(binds, LAMBDA b : Remains(c, b, accounts))
           outS   == Where(c["ServiceAccount"], LAMBDA s : s.name \notin accounts)
           outside == OutsideCSV(c, accounts)
           objs   == GetManifestObjects(c, accounts)
<1>1. /\ c["CustomResourceDefinition"] \in Seq(S) /\ c["CustomResourceDefinition-v1beta1"] \in Seq(S)
      /\ c["Service"] \in Seq(S) /\ c["Others"] \in Seq(S)
      /\ c["Role"] \in Seq(S) /\ c["ClusterRole"] \in Seq(S)
      /\ c["RoleBinding"] \in Seq(S) /\ c["ClusterRoleBinding"] \in Seq(S) /\ c["ServiceAccount"] \in Seq(S)
  BY DEF Plain, Fields, Kinds
<1>2. /\ crds \in Seq(S) /\ roles \in Seq(S) /\ ToSet(roles) = ToSet(c["Role"]) \cup ToSet(c["ClusterRole"])
      /\ binds \in Seq(S) /\ ToSet(binds) = ToSet(c["RoleBinding"]) \cup ToSet(c["ClusterRoleBinding"])
  BY <1>1, JoinSets DEF CRDs
<1>3. others \in Seq(S) /\ ToSet(others) = {o \in ToSet(c["Others"]) : o.kind \in Supported}
  <2> DEFINE all == c["Others"]
             at  == {i \in DOMAIN all : all[i].kind \in Supported}
  <2>1. others = Filtered(all, at)
    BY DEF Where
  <2>2. Filtered(all, at) \in Seq(S) /\ ToSet(Filtered(all, at)) = {all[i] : i \in at}
    BY <1>1, FilteredSeq
  <2> HIDE DEF all, others
  <2>3. QED
    BY <2>1, <2>2 DEF ToSet, all
<1>4. outR \in Seq(S) /\ ToSet(outR) = {r \in ToSet(roles) : r \notin inside}
  <2> DEFINE at == {i \in DOMAIN roles : roles[i] \notin inside}
  <2>1. outR = Filtered(roles, at)
    BY DEF Where
  <2>2. Filtered(roles, at) \in Seq(S) /\ ToSet(Filtered(roles, at)) = {roles[i] : i \in at}
    BY <1>2, FilteredSeq
  <2> HIDE DEF roles, inside, outR
  <2>3. QED
    BY <2>1, <2>2 DEF ToSet
<1>5. outB \in Seq(S) /\ ToSet(outB) = {b \in ToSet(binds) : Remains(c, b, accounts)}
  <2> DEFINE at == {i \in DOMAIN binds : Remains(c, binds[i], accounts)}
  <2>1. outB = Filtered(binds, at)
    BY DEF Where
  <2>2. Filtered(binds, at) \in Seq(S) /\ ToSet(Filtered(binds, at)) = {binds[i] : i \in at}
    BY <1>2, FilteredSeq
  <2> HIDE DEF binds, outB
  <2>3. QED
    BY <2>1, <2>2 DEF ToSet
<1>6. outS \in Seq(S) /\ ToSet(outS) = {s \in ToSet(c["ServiceAccount"]) : s.name \notin accounts}
  <2> DEFINE all == c["ServiceAccount"]
             at  == {i \in DOMAIN all : all[i].name \notin accounts}
  <2>1. outS = Filtered(all, at)
    BY DEF Where
  <2>2. Filtered(all, at) \in Seq(S) /\ ToSet(Filtered(all, at)) = {all[i] : i \in at}
    BY <1>1, FilteredSeq
  <2> HIDE DEF all, outS
  <2>3. QED
    BY <2>1, <2>2 DEF ToSet, all
<1> DEFINE rbac == outR \o outB
           some == crds \o c["Service"]
           most == some \o others
<1>7. outside = rbac \o outS /\ objs = most \o outside
  BY DEF OutsideCSV, GetManifestObjects
<1> HIDE DEF outR, outB, outS, outside, others, crds
<1>8. rbac \in Seq(S) /\ ToSet(rbac) = ToSet(outR) \cup ToSet(outB)
  BY <1>4, <1>5, JoinSets
<1>9. some \in Seq(S) /\ ToSet(some) = ToSet(crds) \cup ToSet(c["Service"])
  BY <1>1, <1>2, JoinSets
<1> HIDE DEF rbac, some
<1>10. outside \in Seq(S) /\ ToSet(outside) = ToSet(rbac) \cup ToSet(outS)
  BY <1>6, <1>7, <1>8, JoinSets
<1>11. most \in Seq(S) /\ ToSet(most) = ToSet(some) \cup ToSet(others)
  BY <1>3, <1>9, JoinSets
<1> HIDE DEF most, objs
<1>12. objs \in Seq(S) /\ ToSet(objs) = ToSet(most) \cup ToSet(outside)
  <2>1. most \o outside \in Seq(S) /\ ToSet(most \o outside) = ToSet(most) \cup ToSet(outside)
    BY <1>10, <1>11, JoinSets
  <2>2. QED
    BY <1>7, <2>1
<1>13. QED
  BY <1>2, <1>3, <1>4, <1>5, <1>6, <1>8, <1>9, <1>10, <1>11, <1>12 DEF crds, objs

----------------------------------------------------------------------------
(* The bundle                                                              *)

\* The bundle b has what the command it was made by, remembered in m, collected.
IsBundle(b, m) ==
    LET c == Collected(m.of, m.base, m.mode)
    IN  /\ m.of \in SUBSET Features /\ IsBase(m.base)
        /\ b.csv = CSVOfBundle(c, m.version, m.extra)
        /\ \A o \in ToSet(GetManifestObjects(c, Accounts(c, m.extra))) : IsIn(o, b.files)
        /\ b.metadata.tests => b.config

BundleInv == bundle # <<>> => IsBundle(bundle, made.bundle)

\* Whatever is in the directory, its metadata names tests only if there are any.
LEMMA TestsConfigured ==
    ASSUME BundleInv, NEW mode, NEW channels, NEW overwrite, NEW found \in BOOLEAN
    PROVE  LET old    == IF bundle = <<>> THEN [files |-> <<>>, config |-> FALSE, metadata |-> <<>>] ELSE bundle
               config == old.config \/ found
           IN  RunMetadata(old, mode, channels, overwrite, config).tests => config
<1> DEFINE old    == IF bundle = <<>> THEN [files |-> <<>>, config |-> FALSE, metadata |-> <<>>] ELSE bundle
           config == old.config \/ found
<1>1. CASE mode # "input" /\ FindBundleMetadata(old) /\ ~overwrite
  <2>1. bundle # <<>>
    BY <1>1 DEF FindBundleMetadata
  <2>2. bundle.metadata.tests => bundle.config
    BY <2>1 DEF BundleInv, IsBundle
  <2>3. old = bundle /\ RunMetadata(old, mode, channels, overwrite, config) = bundle.metadata
    BY <1>1, <2>1 DEF RunMetadata
  <2>4. QED
    BY <2>2, <2>3
<1>2. CASE ~(mode # "input" /\ FindBundleMetadata(old) /\ ~overwrite)
  <2>1. RunMetadata(old, mode, channels, overwrite, config).tests = (mode # "input" /\ config)
    BY <1>2 DEF RunMetadata, GenerateMetadata
  <2>2. QED
    BY <2>1
<1>3. QED
  BY <1>1, <1>2

\* What a collection can be written to files.
LEMMA CollectedObjects ==
    ASSUME NEW p \in SUBSET Features, NEW b, IsBase(b), NEW mode, NEW accounts
    PROVE  GetManifestObjects(Collected(p, b, mode), accounts) \in Seq(Printed(p))
<1> DEFINE c == Collected(p, b, mode)
<1>1. \A f \in Plain \ {"ClusterServiceVersion"} : c[f] \in Seq(Printed(p))
  BY CollectedSorted DEF Sorted
<1> HIDE DEF c
<1>2. GetManifestObjects(c, accounts) \in Seq(Printed(p))
  BY <1>1, ManifestObjects
<1>3. QED
  BY <1>2 DEF c

LEMMA BundleStep ==
    ASSUME MadeInv, BaseInv, BundleInv, NEW f \in BundleFlags,
           GenerateBundle(f.mode, f.version, {"alpha"}, f.overwrite, f.extra)
    PROVE  BundleInv' /\ IsCSV(bundle'.csv)
<1> DEFINE c    == Collected(project, base, f.mode)
           csv  == CSVOfBundle(c, f.version, f.extra)
           objs == GetManifestObjects(c, Accounts(c, f.extra))
           old  == IF bundle = <<>> THEN [files |-> <<>>, config |-> FALSE, metadata |-> <<>>] ELSE bundle
           found == c["Configuration"] # <<>>
           config == old.config \/ found
           files == WriteObjectsToFiles(old.files, objs)
           metadata == RunMetadata(old, f.mode, {"alpha"}, f.overwrite, config)
           m == [of |-> project, base |-> base, basedOn |-> made.base, mode |-> f.mode,
                 version |-> f.version, extra |-> f.extra, fresh |-> bundle = <<>>]
<1>1. project \in SUBSET Features /\ IsBase(base)
  BY DEF BaseInv
<1>2. /\ bundle' = [csv |-> csv, config |-> config, files |-> files, metadata |-> metadata]
      /\ made' = [made EXCEPT !.bundle = m]
  BY DEF GenerateBundle
<1>3. metadata.tests => config
  BY TestsConfigured
<1>4. IsCSV(csv)
  <2>1. IsGenerated(csv, c, f.version, "", FindRelatedImages(c), f.extra)
    BY <1>1, GeneratedCSV DEF CSVOfBundle
  <2>2. QED
    BY <2>1 DEF IsGenerated
<1>5. \A o \in ToSet(objs) : IsIn(o, files)
  <2>1. objs \in Seq(Printed(project))
    BY <1>1, CollectedObjects
  <2> HIDE DEF objs, old
  <2>2. QED
    BY <2>1, WrittenAll
<1>6. /\ m.of = project /\ m.base = base /\ m.mode = f.mode /\ m.version = f.version /\ m.extra = f.extra
  OBVIOUS
<1> HIDE DEF config, files, metadata, m, old
<1>7. /\ bundle'.csv = csv /\ bundle'.config = config /\ bundle'.files = files /\ bundle'.metadata = metadata
      /\ made'.bundle = m
  BY <1>2 DEF MadeInv
<1>8. IsBundle(bundle', m)
  BY <1>1, <1>3, <1>5, <1>6, <1>7 DEF IsBundle
<1>9. QED
  BY <1>4, <1>7, <1>8 DEF BundleInv

----------------------------------------------------------------------------
(* Every step                                                              *)

GenInv == MadeInv /\ BaseInv /\ BundleInv /\ PackInv /\ MigratedAsPublished

\* Whatever is edited in a base, it is a CSV.
LEMMA EditedBase ==
    ASSUME BaseInv, EditBase
    PROVE  IsCSV(base')
<1>1. IsCSV(base)
  BY DEF BaseInv, IsBase, EditBase
<1>2. \/ base' = [base EXCEPT !.meta = "edited"] \/ base' = [base EXCEPT !.supported = FALSE]
      \/ base' = [base EXCEPT !.annotated = FALSE]
      \/ \E k : base' = [base EXCEPT !.owned = Append(base.owned, [Described(k) EXCEPT !.about = "edited"])]
  BY DEF EditBase
<1>3. ASSUME NEW x PROVE Append(base.owned, x) \in Seq(ToSet(Append(base.owned, x)))
  <2> DEFINE T == ToSet(base.owned) \cup {x}
  <2>1. base.owned \in Seq(T) /\ x \in T
    BY <1>1, SeqMonotonic DEF IsCSV
  <2> HIDE DEF T
  <2>2. Append(base.owned, x) \in Seq(T)
    BY <2>1, AppendProperties
  <2>3. QED
    BY <2>2, SeqToSet
<1>4. ASSUME NEW u, u \in Seq(ToSet(u)) PROVE IsCSV([base EXCEPT !.owned = u])
  <2> DEFINE t == [base EXCEPT !.owned = u]
  <2>1. DOMAIN t = DOMAIN base /\ t.owned = u /\ t.kind = base.kind /\ t.strategy = base.strategy
    BY <1>1 DEF IsCSV, NewBase
  <2> HIDE DEF t
  <2>2. IsCSV(t)
    BY <1>1, <1>4, <2>1 DEF IsCSV
  <2>3. QED
    BY <2>2 DEF t
<1>5. /\ IsCSV([base EXCEPT !.meta = "edited"]) /\ IsCSV([base EXCEPT !.supported = FALSE])
      /\ IsCSV([base EXCEPT !.annotated = FALSE])
  BY <1>1 DEF IsCSV, NewBase
<1>6. QED
  BY <1>2, <1>3, <1>4, <1>5

LEMMA GenInvInit == Init => GenInv
<1> SUFFICES ASSUME Init PROVE GenInv
  OBVIOUS
<1>1. MadeInv
  BY DEF Init, MadeInv
<1>2. BaseInv
  <2>1. IsBase([NewBase(Operator) EXCEPT !.name = MakeCSVName(Operator, "X.Y.Z")])
    BY DEF IsBase, IsCSV, NewBase
  <2>2. QED
    BY <2>1 DEF Init, BaseInv, IsBase
<1>3. BundleInv
  BY DEF Init, BundleInv
<1>4. PackInv
  <2>1. package.channels = <<>> /\ DOMAIN package = {"channels", "default", "dirs"} /\ package.dirs = <<>>
    BY DEF Init, NoPackage
  <2>2. made.heads = <<>>
    BY DEF Init
  <2>3. IsChannels(<<>>)
    BY DEF IsChannels, ToSet
  <2>4. QED
    BY <2>1, <2>2, <2>3 DEF PackInv, FileInv
<1>5. MigratedAsPublished
  BY DEF Init, MigratedAsPublished
<1>6. QED
  BY <1>1, <1>2, <1>3, <1>4, <1>5 DEF GenInv

LEMMA GenInvNext == GenInv /\ [Next]_vars => GenInv'
<1> SUFFICES ASSUME GenInv, [Next]_vars PROVE GenInv'
  OBVIOUS
<1>0. MadeInv /\ BaseInv /\ BundleInv /\ PackInv /\ MigratedAsPublished
  BY DEF GenInv
<1>1. ASSUME NEW f \in Features, EditProject(f) PROVE GenInv'
  <2>1. /\ project' = IF f \in project THEN project \ {f} ELSE project \cup {f}
        /\ UNCHANGED <<base, bundle, package, bundles, made>>
    BY <1>1 DEF EditProject
  <2>2. MadeInv' /\ PackInv' /\ MigratedAsPublished'
    BY <1>0, <2>1, PackageKept
  <2>3. BaseInv' /\ BundleInv'
    BY <1>0, <2>1 DEF BaseInv, BundleInv
  <2>4. QED
    BY <2>2, <2>3 DEF GenInv
<1>2. CASE EditBase
  <2>1. UNCHANGED <<project, bundle, package, bundles, made>>
    BY <1>2 DEF EditBase
  <2>2. MadeInv' /\ PackInv' /\ MigratedAsPublished'
    BY <1>0, <2>1, PackageKept
  <2>3. BaseInv'
    BY <1>0, <1>2, <2>1, EditedBase DEF BaseInv, IsBase
  <2>4. BundleInv'
    BY <1>0, <2>1 DEF BundleInv
  <2>5. QED
    BY <2>2, <2>3, <2>4 DEF GenInv
<1>3. CASE AdoptBase
  <2>1. /\ base' = bundle.csv /\ bundle # <<>> /\ made' = [made EXCEPT !.base = <<>>]
        /\ UNCHANGED <<project, bundle, package, bundles>>
    BY <1>3 DEF AdoptBase
  <2>2. MadeInv' /\ PackInv' /\ MigratedAsPublished'
    BY <1>0, <2>1, PackageKept
  <2>3. BaseInv'
    BY <1>0, <2>1 DEF BaseInv, IsBase
  <2>4. BundleInv'
    BY <1>0, <2>1 DEF BundleInv, MadeInv
  <2>5. QED
    BY <2>2, <2>3, <2>4 DEF GenInv
<1>4. ASSUME NEW v \in VersionSet, NEW n \in 1 .. 2, AddConfigs(v, n) PROVE GenInv'
  <2>1. UNCHANGED <<project, base, bundle, bundles, made>>
    BY <1>4 DEF AddConfigs
  <2>2. MadeInv' /\ PackInv' /\ MigratedAsPublished'
    BY <1>0, <1>4, AddConfigsStep
  <2>3. BaseInv' /\ BundleInv'
    BY <1>0, <2>1 DEF BaseInv, BundleInv
  <2>4. QED
    BY <2>2, <2>3 DEF GenInv
<1>5. CASE RemoveBundles
  <2>1. /\ bundles' = <<>> /\ made' = [made EXCEPT !.migrated = FALSE]
        /\ UNCHANGED <<project, base, bundle, package>>
    BY <1>5 DEF RemoveBundles
  <2>2. /\ MadeInv' /\ made'.migrated = FALSE /\ made'.heads = made.heads /\ made'.failed = made.failed
        /\ made'.bundle = made.bundle
    BY <1>0, <2>1 DEF MadeInv
  <2>3. PackInv'
    BY <1>0, <2>1, <2>2 DEF PackInv, FileInv, IsDir, VersionSet
  <2>4. MigratedAsPublished'
    BY <1>0, <2>1, <2>2, MigrationReset
  <2>5. BaseInv' /\ BundleInv'
    BY <1>0, <2>1, <2>2 DEF BaseInv, BundleInv
  <2>6. QED
    BY <2>2, <2>3, <2>4, <2>5 DEF GenInv
<1>6. ASSUME NEW level \in {"default", "off", "on"}, GenerateKustomize(level) PROVE GenInv'
  <2>1. /\ base' = GetBase(base, Operator, Packages, GVKsOf(project), RequiresInteraction(base # <<>>, level), "answered")
        /\ made' = [made EXCEPT !.base = [of |-> project]]
        /\ UNCHANGED <<project, bundle, package, bundles>>
    BY <1>6 DEF GenerateKustomize
  <2>2. MadeInv' /\ PackInv' /\ MigratedAsPublished'
    BY <1>0, <2>1, PackageKept
  <2>3. IsCSV(base')
    <3>1. IsBase(base)
      BY <1>0 DEF BaseInv
    <3>2. QED
      BY <2>1, <3>1, GetBaseCSV
  <2>4. BaseInv'
    BY <1>0, <2>1, <2>3 DEF BaseInv, IsBase
  <2>5. BundleInv'
    BY <1>0, <2>1 DEF BundleInv, MadeInv
  <2>6. QED
    BY <2>2, <2>4, <2>5 DEF GenInv
<1>7. ASSUME NEW f \in BundleFlags, GenerateBundle(f.mode, f.version, {"alpha"}, f.overwrite, f.extra) PROVE GenInv'
  <2>1. /\ \E m : made' = [made EXCEPT !.bundle = m]
        /\ UNCHANGED <<project, base, package, bundles>>
    BY <1>7 DEF GenerateBundle
  <2>2. MadeInv' /\ PackInv' /\ MigratedAsPublished'
    BY <1>0, <2>1, PackageKept
  <2>3. BundleInv' /\ IsCSV(bundle'.csv)
    BY <1>0, <1>7, BundleStep
  <2>4. BaseInv'
    BY <1>0, <2>1, <2>3 DEF BaseInv
  <2>5. QED
    BY <2>2, <2>3, <2>4 DEF GenInv
<1>8. ASSUME NEW f \in {f \in PackageFlags : ValidFlags(f)},
             GeneratePackage(f.mode, f.version, f.from, f.channel, f.isDefault)
      PROVE  GenInv'
  <2>1. /\ \E failed, heads : made' = [made EXCEPT !.failed = failed, !.heads = heads, !.migrated = FALSE]
        /\ UNCHANGED <<project, base, bundle, bundles>>
    BY <1>8 DEF GeneratePackage
  <2>2. made'.migrated = FALSE /\ made'.bundle = made.bundle
    BY <1>0, <2>1 DEF MadeInv
  <2>3. MadeInv' /\ PackInv'
    BY <1>0, <1>8, PackageStep
  <2>4. MigratedAsPublished'
    BY <1>0, <2>1, <2>2, MigrationReset
  <2>5. BaseInv' /\ BundleInv'
    BY <1>0, <2>1, <2>2 DEF BaseInv, BundleInv
  <2>6. QED
    BY <2>3, <2>4, <2>5 DEF GenInv
<1>9. ASSUME NEW n \in DOMAIN Versions, Migrate(n) PROVE GenInv'
  <2>1. /\ \E migrated : made' = [made EXCEPT !.migrated = migrated]
        /\ UNCHANGED <<project, base, bundle, package>>
    BY <1>9 DEF Migrate
  <2>2. /\ MadeInv' /\ made'.heads = made.heads /\ made'.failed = made.failed
        /\ made'.bundle = made.bundle
    BY <1>0, <2>1 DEF MadeInv
  <2>3. PackInv'
    BY <1>0, <2>1, <2>2 DEF PackInv, FileInv, IsDir, VersionSet
  <2>4. MigratedAsPublished'
    BY <1>0, <1>9, MigrateStep
  <2>5. BaseInv' /\ BundleInv'
    BY <1>0, <2>1, <2>2 DEF BaseInv, BundleInv
  <2>6. QED
    BY <2>2, <2>3, <2>4, <2>5 DEF GenInv
<1>10. CASE UNCHANGED vars
  <2>1. UNCHANGED <<project, base, bundle, package, bundles, made>>
    BY <1>10 DEF vars
  <2>2. MadeInv' /\ PackInv' /\ MigratedAsPublished'
    BY <1>0, <2>1, PackageKept
  <2>3. BaseInv' /\ BundleInv'
    BY <1>0, <2>1 DEF BaseInv, BundleInv
  <2>4. QED
    BY <2>2, <2>3 DEF GenInv
<1>11. QED
  BY <1>1, <1>2, <1>3, <1>4, <1>5, <1>6, <1>7, <1>8, <1>9, <1>10 DEF Next

\* What every command finds is what some command or user left.
THEOREM GenerateSound == Spec => []GenInv
<1>1. QED
  BY GenInvInit, GenInvNext, PTL DEF Spec

\* Over any commands, failed ones included, a channel of the package has one
\* head, the version that it was last given to, whose directory holds it or
\* whose last command failed; the default is one of the channels.
THEOREM Consistent == Spec => []PackageConsistent
<1>1. GenInv => PackageConsistent
  BY PackImplies DEF GenInv
<1>2. QED
  BY <1>1, GenerateSound, PTL

\* After a complete migration every channel of the package offers what it did.
THEOREM MigrationSound == Spec => []MigratedAsPublished
<1>1. GenInv => MigratedAsPublished
  BY DEF GenInv
<1>2. QED
  BY <1>1, GenerateSound, PTL

----------------------------------------------------------------------------
(* What is in a bundle                                                     *)

\* The bundle's CSV and files are those of what was collected for it.
BundledOf(c, accounts) ==
    /\ IsCollection(c)
    /\ \E owned : owned \in Seq(ToSet(owned)) /\ IsApplied(bundle.csv, c, accounts, owned)
    /\ \A o \in ToSet(GetManifestObjects(c, accounts)) : o \in Files

LEMMA BundledFromCollection ==
    ASSUME BundleInv, bundle # <<>>
    PROVE  LET m == made.bundle
               c == Collected(m.of, m.base, m.mode)
           IN  BundledOf(c, Accounts(c, m.extra))
<1> DEFINE m == made.bundle
           c == Collected(m.of, m.base, m.mode)
           accounts == Accounts(c, m.extra)
<1>1. IsBundle(bundle, m)
  BY DEF BundleInv
<1>2. m.of \in SUBSET Features /\ IsBase(m.base) /\ bundle.csv = CSVOfBundle(c, m.version, m.extra)
  BY <1>1 DEF IsBundle
<1>3. IsCollection(c)
  BY <1>2, CollectedPrinted
<1>4. \A o \in ToSet(GetManifestObjects(c, accounts)) : o \in Files
  BY <1>1 DEF IsBundle, IsIn, Files
<1>5. IsGenerated(bundle.csv, c, m.version, "", FindRelatedImages(c), m.extra)
  BY <1>2, GeneratedCSV DEF CSVOfBundle
<1> HIDE DEF c, m
<1>6. \E owned : owned \in Seq(ToSet(owned)) /\ IsApplied(bundle.csv, c, accounts, owned)
  <2> DEFINE n == Named(c, m.version, "", FindRelatedImages(c))
  <2>1. bundle.csv = Apply(c, n, accounts) /\ IsCSV(n)
    BY <1>5 DEF IsGenerated
  <2> HIDE DEF n
  <2>2. IsApplied(bundle.csv, c, accounts, n.owned)
    BY <1>3, <2>1, Applied
  <2>3. n.owned \in Seq(ToSet(n.owned))
    BY <2>1 DEF IsCSV
  <2>4. QED
    BY <2>2, <2>3
<1>7. QED
  BY <1>3, <1>4, <1>6 DEF BundledOf, c, m

\* What is collected of a kind is of it.
LEMMA KindCollected ==
    ASSUME NEW c, IsCollection(c),
           NEW f \in {"Role", "ClusterRole", "RoleBinding", "ClusterRoleBinding", "Service", "ServiceAccount"},
           NEW o \in ToSet(c[f])
    PROVE  o \in Everything /\ o.kind = f
<1>1. f \in Plain \ {"ClusterServiceVersion"}
  BY DEF Plain, Fields, Kinds
<1>2. o \in Everything /\ FieldOf(o) = f
  BY <1>1 DEF IsCollection, Sorted
<1>3. QED
  BY <1>2 DEF FieldOf, Kinds

\* A binding refers to one role.
LEMMA RoleOfBinding ==
    ASSUME NEW c, IsCollection(c), NEW kind \in {"Role", "ClusterRole"}, NEW name,
           NEW r \in ToSet(c[kind]), r.name = name
    PROVE  (CHOOSE q \in ToSet(c[kind]) : q.name = name) = r
<1>1. \A q \in ToSet(c[kind]) : q \in Everything /\ q.kind = kind
  BY KindCollected
<1>2. \A q \in ToSet(c[kind]) : q.name = name => q = r
  BY <1>1, ManifestsAssumption
<1>3. QED
  BY <1>2

LEMMA BindingSet ==
    ASSUME NEW c, IsCollection(c), NEW kind \in {"RoleBinding", "ClusterRoleBinding"}, NEW refKind, NEW accounts
    PROVE  \A b : b \in ToSet(Binding(c, kind, refKind, accounts)) <=>
                    /\ b \in ToSet(c[kind])
                    /\ Refers(c, b) /\ b.ref.kind = refKind
                    /\ \E s \in ToSet(b.subjects) : IsAccount(s, accounts)
<1> DEFINE at == {i \in DOMAIN c[kind] : /\ Refers(c, c[kind][i]) /\ c[kind][i].ref.kind = refKind
                                        /\ \E s \in ToSet(c[kind][i].subjects) : IsAccount(s, accounts)}
<1>1. c[kind] \in Seq(Everything)
  BY DEF IsCollection, Sorted, Plain, Fields, Kinds
<1>2. Binding(c, kind, refKind, accounts) = Filtered(c[kind], at)
  BY DEF Binding, Where
<1>3. ToSet(Filtered(c[kind], at)) = {c[kind][i] : i \in at}
  BY <1>1, FilteredSeq
<1>4. ToSet(Binding(c, kind, refKind, accounts)) = {c[kind][i] : i \in at}
  BY <1>2, <1>3
<1>5. ASSUME NEW b PROVE b \in {c[kind][i] : i \in at} <=>
                           /\ b \in ToSet(c[kind])
                           /\ Refers(c, b) /\ b.ref.kind = refKind
                           /\ \E s \in ToSet(b.subjects) : IsAccount(s, accounts)
  <2>1. b \in ToSet(c[kind]) <=> \E i \in DOMAIN c[kind] : b = c[kind][i]
    BY DEF ToSet
  <2>2. QED
    BY <2>1
<1> HIDE DEF at
<1>6. QED
  BY <1>4, <1>5

\* The rules of an account are in the CSV if there are any.
LEMMA InPermissions ==
    ASSUME NEW bs, NEW roles, NEW accounts, NEW a \in accounts
    PROVE  LET perms == Permissions(bs, roles, accounts)
           IN  (IF a \in DOMAIN perms THEN perms[a] ELSE {}) = Rules(bs, roles, a)
BY DEF Permissions

\* What the bindings of a kind give an account.
Given(c, kind, a) ==
    UNION {(CHOOSE r \in ToSet(c[b.ref.kind]) : r.name = b.ref.name).rules :
           b \in {b \in ToSet(c[kind]) : Refers(c, b) /\ \E s \in ToSet(b.subjects) : s.kind = "ServiceAccount" /\ s.name = a}}

\* The roles that a binding refers to and that the CSV has.
LEMMA RolesOfCSV ==
    ASSUME NEW c, IsCollection(c), NEW accounts, NEW a \in accounts,
           NEW kind \in {"RoleBinding", "ClusterRoleBinding"}, NEW b \in ToSet(c[kind]), Refers(c, b),
           NEW s \in ToSet(b.subjects), s.kind = "ServiceAccount", s.name = a
    PROVE  \E r \in (IF kind = "RoleBinding" THEN InPerms(c, accounts) ELSE InClusterPerms(c, accounts)) :
              /\ r.kind = b.ref.kind /\ r.name = b.ref.name
              /\ r = CHOOSE q \in ToSet(c[b.ref.kind]) : q.name = b.ref.name
<1>1. /\ b.kind = kind /\ b.ref.kind \in {"Role", "ClusterRole"}
      /\ kind = "ClusterRoleBinding" => b.ref.kind = "ClusterRole"
  <2>1. b.kind = kind
    BY KindCollected
  <2>2. QED
    BY <2>1 DEF Refers
<1>2. PICK r \in ToSet(c[b.ref.kind]) : r.name = b.ref.name
  BY DEF Refers
<1>3. r = CHOOSE q \in ToSet(c[b.ref.kind]) : q.name = b.ref.name
  BY <1>1, <1>2, RoleOfBinding
<1>4. r.kind = b.ref.kind
  BY <1>1, <1>2, KindCollected
<1>5. b \in ToSet(Binding(c, kind, b.ref.kind, accounts))
  BY BindingSet DEF IsAccount
<1>6. r.name \in RefNames(Binding(c, kind, b.ref.kind, accounts))
  BY <1>2, <1>5 DEF RefNames
<1>7. r \in IF kind = "RoleBinding" THEN InPerms(c, accounts) ELSE InClusterPerms(c, accounts)
  BY <1>1, <1>2, <1>6 DEF InPerms, InClusterPerms
<1>8. QED
  BY <1>2, <1>3, <1>4, <1>7

\* The roles of the CSV are collected ones of their kinds.
LEMMA RolesCollected ==
    ASSUME NEW c, IsCollection(c), NEW accounts
    PROVE  /\ \A r \in InPerms(c, accounts) : r.kind \in {"Role", "ClusterRole"} /\ r \in ToSet(c[r.kind])
           /\ \A r \in InClusterPerms(c, accounts) : r.kind = "ClusterRole" /\ r \in ToSet(c["ClusterRole"])
<1>1. \A r \in ToSet(c["Role"]) : r.kind = "Role"
  BY KindCollected
<1>2. \A r \in ToSet(c["ClusterRole"]) : r.kind = "ClusterRole"
  BY KindCollected
<1>3. QED
  BY <1>1, <1>2 DEF InPerms, InClusterPerms

\* The same references and subjects.
SameBinding(x, b) == x.ref.kind = b.ref.kind /\ x.ref.name = b.ref.name /\ x.subjects = b.subjects

SameBindings(xs, bs) ==
    /\ \A x \in ToSet(xs) : \E b \in ToSet(bs) : SameBinding(x, b)
    /\ \A b \in ToSet(bs) : \E x \in ToSet(xs) : SameBinding(x, b)

\* The kind that ApplyClusterRoles puts into a reference is there already.
LEMMA ClusterBindingsSame ==
    ASSUME NEW c, IsCollection(c)
    PROVE  SameBindings(ClusterBindings(c), c["ClusterRoleBinding"])
<1> DEFINE bs == c["ClusterRoleBinding"]
           As(b) == [b EXCEPT !.ref.kind = "ClusterRole"]
<1>1. \A b \in ToSet(bs) : SameBinding(As(b), b)
  <2>1. TAKE b \in ToSet(bs)
  <2>2. b \in Everything /\ b.kind = "ClusterRoleBinding"
    BY KindCollected
  <2>3. /\ {"ref", "subjects"} \subseteq DOMAIN b /\ b.ref = [kind |-> b.ref.kind, name |-> b.ref.name]
        /\ b.ref.kind = "ClusterRole"
    BY <2>2, ManifestsAssumption DEF IsResource
  <2>4. /\ As(b).ref = [b.ref EXCEPT !.kind = "ClusterRole"]
        /\ As(b).subjects = b.subjects
    BY <2>3
  <2>5. [b.ref EXCEPT !.kind = "ClusterRole"].kind = "ClusterRole" /\ [b.ref EXCEPT !.kind = "ClusterRole"].name = b.ref.name
    <3>1. {"kind", "name"} \subseteq DOMAIN b.ref
      BY <2>3
    <3>2. QED
      BY <3>1
  <2>6. QED
    BY <2>3, <2>4, <2>5 DEF SameBinding
<1> HIDE DEF As
<1>2. ClusterBindings(c) = [i \in DOMAIN bs |-> As(bs[i])]
  BY DEF ClusterBindings, As
<1>3. ToSet(ClusterBindings(c)) = {As(b) : b \in ToSet(bs)}
  BY <1>2 DEF ToSet
<1>4. QED
  BY <1>1, <1>3 DEF SameBindings

\* The permissions of an account are what its bindings give it.
LEMMA RulesGiven ==
    ASSUME NEW c, IsCollection(c), NEW accounts, NEW a \in accounts,
           NEW kind \in {"RoleBinding", "ClusterRoleBinding"}, NEW bs, SameBindings(bs, c[kind])
    PROVE  Rules(bs, IF kind = "RoleBinding" THEN InPerms(c, accounts) ELSE InClusterPerms(c, accounts), a)
             = Given(c, kind, a)
<1> DEFINE roles == IF kind = "RoleBinding" THEN InPerms(c, accounts) ELSE InClusterPerms(c, accounts)
           Role(b) == CHOOSE r \in ToSet(c[b.ref.kind]) : r.name = b.ref.name
           Has(b) == \E s \in ToSet(b.subjects) : s.kind = "ServiceAccount" /\ s.name = a
<1>1. \A r \in roles : r.kind \in {"Role", "ClusterRole"} /\ r \in ToSet(c[r.kind])
                       /\ (kind = "ClusterRoleBinding" => r.kind = "ClusterRole")
  BY RolesCollected
<1>2. \A x : x \in Given(c, kind, a) <=> \E b \in ToSet(c[kind]) : Refers(c, b) /\ Has(b) /\ x \in Role(b).rules
  BY DEF Given
<1>3. \A x : x \in Rules(bs, roles, a) <=>
        \E r \in roles : \E b \in ToSet(bs) : b.ref.kind = r.kind /\ b.ref.name = r.name /\ Has(b) /\ x \in r.rules
  BY DEF Rules
<1>4. ASSUME NEW x \in Rules(bs, roles, a) PROVE x \in Given(c, kind, a)
  <2>1. PICK r \in roles, b \in ToSet(bs) :
          b.ref.kind = r.kind /\ b.ref.name = r.name /\ Has(b) /\ x \in r.rules
    BY <1>3, <1>4
  <2>2. PICK o \in ToSet(c[kind]) : o.ref.kind = r.kind /\ o.ref.name = r.name /\ Has(o)
    BY <2>1 DEF SameBindings, SameBinding
  <2>3. r.kind \in {"Role", "ClusterRole"} /\ r \in ToSet(c[r.kind]) /\ (kind = "ClusterRoleBinding" => r.kind = "ClusterRole")
    BY <1>1, <2>1
  <2>4. o.kind = kind
    BY <2>2, KindCollected
  <2>5. Refers(c, o)
    BY <2>2, <2>3, <2>4 DEF Refers
  <2>6. (CHOOSE q \in ToSet(c[r.kind]) : q.name = o.ref.name) = r
    <3>1. r.name = o.ref.name
      BY <2>2
    <3> HIDE DEF roles
    <3>2. QED
      BY <2>3, <3>1, RoleOfBinding
  <2>7. Role(o) = r
    BY <2>2, <2>6
  <2> HIDE DEF Role, Has
  <2>8. QED
    BY <1>2, <2>1, <2>2, <2>5, <2>7
<1>5. ASSUME NEW x \in Given(c, kind, a) PROVE x \in Rules(bs, roles, a)
  <2>1. PICK b \in ToSet(c[kind]) : Refers(c, b) /\ Has(b) /\ x \in Role(b).rules
    BY <1>2, <1>5
  <2>2. PICK r \in roles : r.kind = b.ref.kind /\ r.name = b.ref.name /\ r = Role(b)
    BY <2>1, RolesOfCSV
  <2>3. PICK o \in ToSet(bs) : o.ref.kind = r.kind /\ o.ref.name = r.name /\ Has(o)
    BY <2>1, <2>2 DEF SameBindings, SameBinding
  <2> HIDE DEF Role, Has, roles
  <2>4. QED
    BY <1>3, <2>1, <2>2, <2>3
<1>6. QED
  BY <1>4, <1>5

\* A role that a binding refers to is in a file, or the CSV has it: then another
\* binding that refers to it has a subject of the CSV.
LEMMA RoleInFiles ==
    ASSUME NEW c, NEW accounts, BundledOf(c, accounts),
           NEW kind \in {"RoleBinding", "ClusterRoleBinding"}, NEW b \in ToSet(c[kind]), Refers(c, b)
    PROVE  \/ (CHOOSE q \in ToSet(c[b.ref.kind]) : q.name = b.ref.name) \in Files
           \/ \E other \in ToSet(c["RoleBinding"]) \cup ToSet(c["ClusterRoleBinding"]) :
                Refers(c, other) /\ other.ref = b.ref /\ \E t \in ToSet(other.subjects) : IsAccount(t, accounts)
<1>0. IsCollection(c) /\ \A o \in ToSet(GetManifestObjects(c, accounts)) : o \in Files
  BY DEF BundledOf
<1>1. b.ref.kind \in {"Role", "ClusterRole"}
  BY DEF Refers
<1>2. PICK r \in ToSet(c[b.ref.kind]) : r.name = b.ref.name
  BY DEF Refers
<1>3. (CHOOSE q \in ToSet(c[b.ref.kind]) : q.name = b.ref.name) = r
  BY <1>0, <1>1, <1>2, RoleOfBinding
<1>4. r \in Everything /\ r.kind = b.ref.kind
  BY <1>0, <1>1, <1>2, KindCollected
<1>5. CASE r \notin InPerms(c, accounts) \cup InClusterPerms(c, accounts)
  <2>1. r \in ToSet(c["Role"]) \cup ToSet(c["ClusterRole"])
    BY <1>1, <1>2
  <2>2. \A f \in Plain \ {"ClusterServiceVersion"} : c[f] \in Seq(Everything)
    BY <1>0 DEF IsCollection, Sorted
  <2>3. r \in ToSet(GetManifestObjects(c, accounts))
    BY <1>4, <1>5, <2>1, <2>2, ManifestObjects
  <2>4. QED
    BY <1>0, <1>3, <2>3
<1>6. CASE r \in InPerms(c, accounts) \cup InClusterPerms(c, accounts)
  <2>1. \E of \in {"RoleBinding", "ClusterRoleBinding"} : \E refKind \in {"Role", "ClusterRole"} :
          r \in ToSet(c[refKind]) /\ r.name \in RefNames(Binding(c, of, refKind, accounts))
    BY <1>6 DEF InPerms, InClusterPerms
  <2>2. PICK of \in {"RoleBinding", "ClusterRoleBinding"}, refKind \in {"Role", "ClusterRole"} :
          r \in ToSet(c[refKind]) /\ r.name \in RefNames(Binding(c, of, refKind, accounts))
    BY <2>1
  <2>3. refKind = b.ref.kind
    <3>1. r.kind = refKind
      BY <1>0, <2>2, KindCollected
    <3>2. QED
      BY <1>4, <3>1
  <2>4. PICK other \in ToSet(Binding(c, of, refKind, accounts)) : other.ref.name = r.name
    BY <2>2 DEF RefNames
  <2>5. /\ other \in ToSet(c[of]) /\ Refers(c, other) /\ other.ref.kind = refKind
        /\ \E t \in ToSet(other.subjects) : IsAccount(t, accounts)
    BY <1>0, <2>4, BindingSet
  <2>6. other \in Everything /\ other.kind = of /\ b \in Everything /\ b.kind = kind
    BY <1>0, <2>5, KindCollected
  <2>7. other.ref = [kind |-> other.ref.kind, name |-> other.ref.name] /\ b.ref = [kind |-> b.ref.kind, name |-> b.ref.name]
    <3>1. IsResource(other) /\ IsResource(b)
      BY <2>6, ManifestsAssumption
    <3>2. QED
      BY <2>6, <3>1 DEF IsResource
  <2>8. other.ref = b.ref
    BY <1>2, <2>3, <2>4, <2>5, <2>7
  <2>9. other \in ToSet(c["RoleBinding"]) \cup ToSet(c["ClusterRoleBinding"])
    <3>1. other \in ToSet(c[of])
      BY <2>5
    <3>2. ToSet(c[of]) \subseteq ToSet(c["RoleBinding"]) \cup ToSet(c["ClusterRoleBinding"])
      OBVIOUS
    <3>3. QED
      BY <3>1, <3>2
  <2>10. QED
    BY <2>5, <2>8, <2>9
<1>7. QED
  BY <1>5, <1>6

LEMMA BundleGranted ==
    ASSUME NEW c, NEW accounts, BundledOf(c, accounts)
    PROVE  Granted(c, accounts)
<1> DEFINE bindings == {b \in ToSet(c["RoleBinding"] \o c["ClusterRoleBinding"]) : Refers(c, b)}
           Role(b)  == CHOOSE r \in ToSet(c[b.ref.kind]) : r.name = b.ref.name
           Has(b, a) == \E s \in ToSet(b.subjects) : s.kind = "ServiceAccount" /\ s.name = a
           GivenIn(kind, a) == UNION {Role(b).rules : b \in {b \in bindings : b.kind = kind /\ Has(b, a)}}
           InCSV(perms, a) == IF a \in DOMAIN perms THEN perms[a] ELSE {}
<1>1. IsCollection(c) /\ \A o \in ToSet(GetManifestObjects(c, accounts)) : o \in Files
  BY DEF BundledOf
<1>2. \A f \in Plain \ {"ClusterServiceVersion"} : c[f] \in Seq(Everything)
  BY <1>1 DEF IsCollection, Sorted
<1>3. bindings = {b \in ToSet(c["RoleBinding"]) \cup ToSet(c["ClusterRoleBinding"]) : Refers(c, b)}
  <2>1. c["RoleBinding"] \in Seq(Everything) /\ c["ClusterRoleBinding"] \in Seq(Everything)
    BY <1>2 DEF Plain, Fields, Kinds
  <2>2. ToSet(c["RoleBinding"] \o c["ClusterRoleBinding"]) = ToSet(c["RoleBinding"]) \cup ToSet(c["ClusterRoleBinding"])
    BY <2>1, JoinSets
  <2>3. QED
    BY <2>2
<1> HIDE DEF bindings
<1>4. ASSUME NEW kind \in {"RoleBinding", "ClusterRoleBinding"}
      PROVE  \A b : b \in ToSet(c[kind]) /\ Refers(c, b) <=> b \in bindings /\ b.kind = kind
  <2>1. \A b \in ToSet(c["RoleBinding"]) : b.kind = "RoleBinding"
    BY <1>1, KindCollected
  <2>2. \A b \in ToSet(c["ClusterRoleBinding"]) : b.kind = "ClusterRoleBinding"
    BY <1>1, KindCollected
  <2>3. QED
    BY <1>3, <2>1, <2>2
<1>5. ASSUME NEW kind \in {"RoleBinding", "ClusterRoleBinding"}, NEW a
      PROVE  Given(c, kind, a) = GivenIn(kind, a)
  <2>1. \A x : x \in Given(c, kind, a) <=> \E b : b \in ToSet(c[kind]) /\ Refers(c, b) /\ Has(b, a) /\ x \in Role(b).rules
    BY DEF Given
  <2>2. \A x : x \in GivenIn(kind, a) <=> \E b : b \in bindings /\ b.kind = kind /\ Has(b, a) /\ x \in Role(b).rules
    OBVIOUS
  <2> HIDE DEF Has, Role, GivenIn
  <2>3. \A b : b \in ToSet(c[kind]) /\ Refers(c, b) <=> b \in bindings /\ b.kind = kind
    BY <1>4
  <2>4. QED
    BY <2>1, <2>2, <2>3
<1>6. PICK owned : IsApplied(bundle.csv, c, accounts, owned)
  BY DEF BundledOf
<1>7. ASSUME NEW a \in accounts
      PROVE  /\ InCSV(bundle.csv.permissions, a) = GivenIn("RoleBinding", a)
             /\ InCSV(bundle.csv.clusterPermissions, a) = GivenIn("ClusterRoleBinding", a)
  <2>1. SameBindings(c["RoleBinding"], c["RoleBinding"])
    BY DEF SameBindings, SameBinding
  <2>2. Rules(c["RoleBinding"], InPerms(c, accounts), a) = Given(c, "RoleBinding", a)
    BY <1>1, <2>1, RulesGiven
  <2>3. Rules(ClusterBindings(c), InClusterPerms(c, accounts), a) = Given(c, "ClusterRoleBinding", a)
    BY <1>1, ClusterBindingsSame, RulesGiven
  <2>4. InCSV(bundle.csv.permissions, a) = Rules(c["RoleBinding"], InPerms(c, accounts), a)
    BY <1>6, InPermissions DEF IsApplied
  <2>5. InCSV(bundle.csv.clusterPermissions, a) = Rules(ClusterBindings(c), InClusterPerms(c, accounts), a)
    BY <1>6, InPermissions DEF IsApplied
  <2> HIDE DEF InCSV, GivenIn
  <2>6. QED
    BY <1>5, <2>2, <2>3, <2>4, <2>5
<1>8. ASSUME NEW b \in bindings, NEW s \in ToSet(b.subjects), ~IsAccount(s, accounts)
      PROVE  /\ b \in Files
             /\ Role(b) \in Files \/ \E other \in bindings : /\ other.ref = b.ref
                                                            /\ \E t \in ToSet(other.subjects) : IsAccount(t, accounts)
             /\ \A sa \in ToSet(c["ServiceAccount"]) : (s.kind = sa.kind /\ s.name = sa.name) => sa \in Files
  <2>1. PICK kind \in {"RoleBinding", "ClusterRoleBinding"} : b \in ToSet(c[kind]) /\ Refers(c, b)
    BY <1>3
  <2>2. b \in Files
    <3>1. b \in Everything /\ Remains(c, b, accounts) /\ b \in ToSet(c["RoleBinding"]) \cup ToSet(c["ClusterRoleBinding"])
      BY <1>1, <1>8, <2>1, KindCollected DEF Remains
    <3>2. b \in ToSet(GetManifestObjects(c, accounts))
      BY <1>2, <3>1, ManifestObjects
    <3>3. QED
      BY <1>1, <3>2
  <2>3. Role(b) \in Files \/ \E other \in bindings : /\ other.ref = b.ref
                                                    /\ \E t \in ToSet(other.subjects) : IsAccount(t, accounts)
    BY <1>3, <2>1, RoleInFiles
  <2>4. ASSUME NEW sa \in ToSet(c["ServiceAccount"]), s.kind = sa.kind, s.name = sa.name PROVE sa \in Files
    <3>1. sa \in Everything /\ sa.kind = "ServiceAccount"
      BY <1>1, KindCollected
    <3>2. sa.name \notin accounts
      BY <1>8, <2>4, <3>1 DEF IsAccount
    <3>3. sa \in ToSet(GetManifestObjects(c, accounts))
      BY <1>2, <3>1, <3>2, ManifestObjects
    <3>4. QED
      BY <1>1, <3>3
  <2>5. QED
    BY <2>2, <2>3, <2>4
<1>9. QED
  BY <1>7, <1>8 DEF Granted, bindings

LEMMA BundleGrants == ASSUME BundleInv PROVE GrantsKept
BY BundledFromCollection, BundleGranted DEF GrantsKept

\* No grant is lost or invented between the CSV and the files of a bundle.
THEOREM Grants == Spec => []GrantsKept
<1>1. GenInv => GrantsKept
  BY BundleGrants DEF GenInv
<1>2. QED
  BY <1>1, GenerateSound, PTL

----------------------------------------------------------------------------
(* What the CSV speaks of                                                  *)

\* A description is found by its key, and a definition is its own.
LEMMA KeysOfDescriptions ==
    ASSUME NEW c, IsCollection(c), NEW owned, owned \in Seq(ToSet(owned))
    PROVE  \A i \in DOMAIN Definitions(CRDs(c)) :
             KeyOf(DescriptionsOfBase(c, owned)[i]) = KeyOf(Definitions(CRDs(c))[i])
<1> DEFINE keys == Definitions(CRDs(c))
<1>1. SUFFICES ASSUME NEW i \in DOMAIN keys PROVE KeyOf(DescriptionsOfBase(c, owned)[i]) = KeyOf(keys[i])
  OBVIOUS
<1> DEFINE k  == keys[i]
           of == Of(owned, k)
           at == {j \in DOMAIN owned : KeyOf(owned[j]) = KeyOf(k)}
<1>2. DescriptionsOfBase(c, owned)[i] = IF of = <<>> THEN Described(k) ELSE Last(of)
  BY DEF DescriptionsOfBase
<1>3. of = Filtered(owned, at)
  BY DEF Of, Where
<1> HIDE DEF k, keys, of
<1>4. of \in Seq(ToSet(owned)) /\ ToSet(of) = {owned[j] : j \in at}
  BY <1>3, FilteredSeq
<1>5. ASSUME of = <<>> PROVE KeyOf(DescriptionsOfBase(c, owned)[i]) = KeyOf(k)
  BY <1>2, <1>5 DEF Described, KeyOf
<1>6. ASSUME of # <<>> PROVE KeyOf(DescriptionsOfBase(c, owned)[i]) = KeyOf(k)
  <2>1. DOMAIN of = 1 .. Len(of) /\ Len(of) \in Nat /\ Len(of) # 0
    BY <1>4, <1>6, LenProperties, EmptySeq
  <2>2. Last(of) \in ToSet(of)
    BY <2>1 DEF Last, ToSet
  <2>3. QED
    BY <1>2, <1>4, <1>6, <2>2
<1>7. QED
  BY <1>5, <1>6 DEF k, keys

LEMMA KeyServed ==
    ASSUME NEW crd, NEW d \in ToSet(ServedVersions(crd))
    PROVE  KeyOf(d) = d
<1>1. \E name, version, kind : d = [name |-> name, version |-> version, kind |-> kind]
  BY DEF ServedVersions, ToSet
<1>2. QED
  BY <1>1 DEF KeyOf

\* How a CRD refers to its conversion webhook.
RefOf(d) == [crd |-> d.name, path |-> d.hook.path, port |-> IF d.api = "v1" THEN d.hook.port ELSE 0, api |-> d.api]

LEMMA ConvertedSet ==
    ASSUME NEW c, IsCollection(c), NEW service
    PROVE  \A r : r \in Converted(c, service) <=>
                    \E d \in ToSet(CRDs(c)) : d.hook # <<>> /\ d.hook.service = service /\ r = RefOf(d)
<1> DEFINE crds == CRDs(c)
           at   == {i \in DOMAIN crds : crds[i].hook # <<>> /\ crds[i].hook.service = service}
           of   == Where(crds, LAMBDA d : d.hook # <<>> /\ d.hook.service = service)
<1>1. crds \in Seq(Everything)
  BY CRDsCollected
<1>2. of = Filtered(crds, at)
  BY DEF Where
<1>3. Converted(c, service) = ToSet([i \in DOMAIN of |-> RefOf(of[i])])
  BY DEF Converted, RefOf
<1> HIDE DEF of, crds
<1>4. ToSet(of) = {crds[i] : i \in at}
  BY <1>1, <1>2, FilteredSeq
<1>5. ToSet([i \in DOMAIN of |-> RefOf(of[i])]) = {RefOf(d) : d \in ToSet(of)}
  <2>1. \A d : d \in ToSet(of) <=> \E i \in DOMAIN of : d = of[i]
    BY DEF ToSet
  <2>2. QED
    BY <2>1 DEF ToSet
<1>6. \A d : d \in {crds[i] : i \in at} <=> d \in ToSet(crds) /\ d.hook # <<>> /\ d.hook.service = service
  BY DEF ToSet
<1> HIDE DEF at
<1>7. QED
  BY <1>3, <1>4, <1>5, <1>6 DEF crds

\* The groups divide the CRDs by what is asked for.
LEMMA Grouped ==
    ASSUME NEW refs, NEW r \in refs
    PROVE  \E g \in CRDGroups(refs) : /\ r \in g /\ \A m \in g : m.path = r.path /\ m.port = r.port
                                      /\ \A h \in CRDGroups(refs) : r \in h => h = g
<1>1. CASE r.port = 0
  <2> DEFINE g == {m \in refs : m.port = 0 /\ m.path = r.path}
  <2>1. g \in CRDGroups(refs) /\ r \in g
    BY <1>1 DEF CRDGroups
  <2>2. \A h \in CRDGroups(refs) : r \in h => h = g
    BY <1>1 DEF CRDGroups
  <2>3. \A m \in g : m.path = r.path /\ m.port = r.port
    BY <1>1
  <2> HIDE DEF g
  <2>4. QED
    BY <2>1, <2>2, <2>3
<1>2. CASE r.port # 0
  <2>1. {r} \in CRDGroups(refs)
    BY <1>2 DEF CRDGroups
  <2>2. \A h \in CRDGroups(refs) : r \in h => h = {r}
    BY <1>2 DEF CRDGroups
  <2>3. QED
    BY <2>1, <2>2
<1>3. QED
  BY <1>1, <1>2

\* The description of a group.
ConversionOf(c, svc, group) ==
    LET dep == FindMatchingDepNameFromService(c, svc)
        r   == CHOOSE r \in group : TRUE
    IN  [type |-> "ConversionWebhook", name |-> NoName, crds |-> {m.crd : m \in group},
         deployment |-> IF dep = NoName /\ r.api = "v1" THEN Stem[svc.name] ELSE dep,
         port |-> ContainerPort(svc, PortOf(r)), path |-> r.path]

LEMMA ConversionCRDs ==
    ASSUME NEW c, NEW svc, NEW group, NEW name
    PROVE  name \in ConversionOf(c, svc, group).crds <=> \E m \in group : m.crd = name
<1>1. ConversionOf(c, svc, group).crds = {m.crd : m \in group}
  BY DEF ConversionOf
<1>2. QED
  BY <1>1

LEMMA Conversions ==
    ASSUME NEW c, NEW svc
    PROVE  /\ ConversionDescriptions(c, svc) = {ConversionOf(c, svc, g) : g \in CRDGroups(Converted(c, svc.name))}
           /\ \A g : \A r \in g : (\A m \in g : m.path = r.path /\ m.port = r.port) =>
                /\ ConversionOf(c, svc, g).path = r.path
                /\ ConversionOf(c, svc, g).port = ContainerPort(svc, PortOf(r))
<1>1. ConversionDescriptions(c, svc) = {ConversionOf(c, svc, g) : g \in CRDGroups(Converted(c, svc.name))}
  BY DEF ConversionDescriptions, ConversionOf
<1>2. ASSUME NEW g PROVE /\ ConversionOf(c, svc, g).path = (CHOOSE r \in g : TRUE).path
                         /\ ConversionOf(c, svc, g).port = ContainerPort(svc, PortOf(CHOOSE r \in g : TRUE))
  BY DEF ConversionOf
<1>3. ASSUME NEW g, NEW r \in g, \A m \in g : m.path = r.path /\ m.port = r.port
      PROVE  (CHOOSE m \in g : TRUE).path = r.path /\ PortOf(CHOOSE m \in g : TRUE) = PortOf(r)
  <2>1. (CHOOSE m \in g : TRUE) \in g
    BY <1>3
  <2>2. QED
    BY <1>3, <2>1 DEF PortOf
<1>4. QED
  BY <1>1, <1>2, <1>3

\* Each CRD with a conversion webhook has one description.
LEMMA ConversionFound ==
    ASSUME NEW c, IsCollection(c), NEW crd \in ToSet(CRDs(c)), NEW svc \in ToSet(c["Service"]),
           crd.hook # <<>>, crd.hook.service = svc.name
    PROVE  \E w \in WebhooksOf(c) : /\ crd.name \in w.crds /\ w.path = crd.hook.path
                                    /\ crd.api = "v1" => w.port = ContainerPort(svc, PortOf(crd.hook))
                                    /\ \A v \in WebhooksOf(c) \ {w} : crd.name \notin v.crds
<1> DEFINE r    == RefOf(crd)
           refs == Converted(c, svc.name)
<1>1. r \in refs /\ r.crd = crd.name /\ r.path = crd.hook.path
  <2>1. r \in refs
    BY ConvertedSet
  <2>2. QED
    BY <2>1 DEF RefOf
<1>2. crd.api = "v1" => PortOf(r) = PortOf(crd.hook)
  BY DEF RefOf, PortOf
<1>3. crd \in Everything /\ crd.kind = "CustomResourceDefinition" /\ svc \in Everything /\ svc.kind = "Service"
  BY CRDsCollected, KindCollected
<1> HIDE DEF r, refs
<1>4. PICK g \in CRDGroups(refs) : /\ r \in g /\ \A m \in g : m.path = r.path /\ m.port = r.port
                                   /\ \A h \in CRDGroups(refs) : r \in h => h = g
  BY <1>1, Grouped
<1> DEFINE w == ConversionOf(c, svc, g)
<1>5. /\ w \in ConversionDescriptions(c, svc)
      /\ w.path = r.path /\ w.port = ContainerPort(svc, PortOf(r))
  BY <1>4, Conversions DEF refs
<1>6. crd.name \in w.crds
  BY <1>1, <1>4, ConversionCRDs
<1> HIDE DEF w
<1>7. w \in WebhooksOf(c)
  BY <1>5 DEF WebhooksOf
<1>8. ASSUME NEW v \in WebhooksOf(c), crd.name \in v.crds PROVE v = w
  <2>1. \A h : AdmissionDescription(c, h).crds = {}
    BY DEF AdmissionDescription
  <2>2. PICK other \in ToSet(c["Service"]) : v \in ConversionDescriptions(c, other)
    BY <1>8, <2>1 DEF WebhooksOf
  <2>3. PICK h \in CRDGroups(Converted(c, other.name)) : v = ConversionOf(c, other, h)
    BY <2>2, Conversions
  <2>4. PICK m \in h : m.crd = crd.name
    <3>1. crd.name \in ConversionOf(c, other, h).crds
      BY <1>8, <2>3
    <3>2. QED
      BY <3>1, ConversionCRDs
  <2>5. m \in Converted(c, other.name)
    BY <2>3, <2>4 DEF CRDGroups
  <2>6. PICK d \in ToSet(CRDs(c)) : d.hook # <<>> /\ d.hook.service = other.name /\ m = RefOf(d)
    BY <2>5, ConvertedSet
  <2>7. d = crd
    <3>1. d \in Everything /\ d.kind = "CustomResourceDefinition"
      BY <2>6, CRDsCollected
    <3>2. d.name = crd.name
      BY <2>4, <2>6 DEF RefOf
    <3>3. QED
      BY <1>3, <2>6, <3>1, <3>2, ManifestsAssumption
  <2>8. other = svc
    <3>1. other \in Everything /\ other.kind = "Service" /\ other.name = svc.name
      BY <2>2, <2>6, <2>7, KindCollected
    <3>2. QED
      BY <1>3, <3>1, ManifestsAssumption
  <2>9. h = g
    BY <1>4, <2>3, <2>4, <2>6, <2>7, <2>8 DEF r, refs
  <2>10. QED
    BY <2>3, <2>8, <2>9 DEF w
<1>9. QED
  BY <1>1, <1>2, <1>5, <1>6, <1>7, <1>8

\* A definition that the CSV owns is one that a CRD in the bundle serves.
LEMMA OwnedFound ==
    ASSUME NEW c, NEW accounts, BundledOf(c, accounts), NEW d \in ToSet(bundle.csv.owned)
    PROVE  \E crd \in {o \in Files : o.kind = "CustomResourceDefinition"} : KeyOf(d) \in ToSet(ServedVersions(crd))
<1> DEFINE keys == Definitions(CRDs(c))
<1>0. /\ IsCollection(c) /\ \A o \in ToSet(GetManifestObjects(c, accounts)) : o \in Files
      /\ \A f \in Plain \ {"ClusterServiceVersion"} : c[f] \in Seq(Everything)
  BY DEF BundledOf, IsCollection, Sorted
<1>1. PICK owned : owned \in Seq(ToSet(owned)) /\ IsApplied(bundle.csv, c, accounts, owned)
  BY DEF BundledOf
<1>2. bundle.csv.owned = DescriptionsOfBase(c, owned)
  BY <1>1 DEF IsApplied
<1>3. PICK i \in DOMAIN keys : d = DescriptionsOfBase(c, owned)[i]
  BY <1>0, <1>2, DescribedSeq DEF ToSet
<1>4. KeyOf(d) = KeyOf(keys[i])
  BY <1>0, <1>1, <1>3, KeysOfDescriptions
<1>5. PICK crd \in ToSet(CRDs(c)) : keys[i] \in ToSet(ServedVersions(crd))
  <2>1. keys[i] \in ToSet(keys)
    BY <1>3 DEF ToSet
  <2> HIDE DEF keys
  <2>2. QED
    BY <1>0, <2>1, DefinitionsSeq DEF keys
<1>6. KeyOf(d) \in ToSet(ServedVersions(crd))
  BY <1>4, <1>5, KeyServed
<1>7. crd \in Files /\ crd.kind = "CustomResourceDefinition"
  <2>1. crd \in Everything /\ crd.kind = "CustomResourceDefinition"
    BY <1>0, CRDsCollected
  <2>2. crd \in ToSet(GetManifestObjects(c, accounts))
    BY <1>0, <2>1, ManifestObjects
  <2>3. QED
    BY <1>0, <2>1, <2>2
<1>8. QED
  BY <1>6, <1>7

LEMMA BundleContained == ASSUME BundleInv PROVE BundleSelfContained
<1> SUFFICES ASSUME bundle # <<>> PROVE BundleSelfContained
  BY DEF BundleSelfContained
<1> DEFINE m        == made.bundle
           c        == Collected(m.of, m.base, m.mode)
           accounts == Accounts(c, m.extra)
<1>1. BundledOf(c, accounts)
  BY BundledFromCollection
<1> HIDE DEF m, c, accounts
<1>2. IsCollection(c) /\ \A o \in ToSet(GetManifestObjects(c, accounts)) : o \in Files
  BY <1>1 DEF BundledOf
<1>3. bundle.csv.webhooks = WebhooksOf(c)
  BY <1>1 DEF BundledOf, IsApplied
<1>4. \A svc \in ToSet(c["Service"]) : svc \in Files
  <2>1. TAKE svc \in ToSet(c["Service"])
  <2>2. svc \in Everything /\ \A f \in Plain \ {"ClusterServiceVersion"} : c[f] \in Seq(Everything)
    BY <1>2, KindCollected DEF IsCollection, Sorted
  <2>3. svc \in ToSet(GetManifestObjects(c, accounts))
    BY <2>2, ManifestObjects
  <2>4. QED
    BY <1>2, <2>3
<1>5. \A d \in ToSet(bundle.csv.owned) :
        \E crd \in {o \in Files : o.kind = "CustomResourceDefinition"} : KeyOf(d) \in ToSet(ServedVersions(crd))
  BY <1>1, OwnedFound
<1>6. ASSUME NEW crd \in ToSet(CRDs(c)), NEW svc \in ToSet(c["Service"]), crd.hook # <<>>, crd.hook.service = svc.name
      PROVE  /\ svc \in Files
             /\ \E w \in bundle.csv.webhooks : /\ crd.name \in w.crds /\ w.path = crd.hook.path
                                               /\ crd.api = "v1" => w.port = ContainerPort(svc, PortOf(crd.hook))
                                               /\ \A v \in bundle.csv.webhooks \ {w} : crd.name \notin v.crds
  BY <1>2, <1>3, <1>4, <1>6, ConversionFound
<1>7. bundle.metadata.tests => bundle.config
  BY DEF BundleInv, IsBundle
<1>8. QED
  BY <1>5, <1>6, <1>7 DEF BundleSelfContained, m, c

\* Of what the CSV of a bundle speaks, that is in the bundle.
THEOREM SelfContained == Spec => []BundleSelfContained
<1>1. GenInv => BundleSelfContained
  BY BundleContained DEF GenInv
<1>2. QED
  BY <1>1, GenerateSound, PTL

----------------------------------------------------------------------------
(* What the base is taken for                                              *)

\* Two collections that differ in their CSVs only.
Alike(c, d) ==
    /\ DOMAIN c = Fields /\ DOMAIN d = Fields
    /\ \A f \in Fields \ {"ClusterServiceVersion"} : c[f] = d[f]

\* An object that is sorted into another field changes nothing.
LEMMA ReadWithout ==
    ASSUME NEW S, NEW s \in Seq(S), NEW b, NEW f \in Fields, FieldOf(b) # f
    PROVE  Read(s \o <<b>>)[f] = Read(s)[f]
<1> DEFINE n  == Len(s)
           st == s \o <<b>>
           T  == S \cup {b}
           at == {i \in DOMAIN s : FieldOf(s[i]) = f}
           in == {i \in DOMAIN st : FieldOf(st[i]) = f}
<1>1. DOMAIN s = 1 .. n /\ n \in Nat
  BY LenProperties
<1>2. s \in Seq(T) /\ <<b>> \in Seq(T) /\ Len(<<b>>) = 1 /\ <<b>>[1] = b
  <2>1. s \in Seq(T)
    BY SeqMonotonic
  <2>2. <<b>> \in Seq({b}) /\ {b} \subseteq T
    OBVIOUS
  <2> HIDE DEF T
  <2>3. QED
    BY <2>1, <2>2, SeqMonotonic
<1> HIDE DEF T
<1>3. st \in Seq(T) /\ Len(st) = n + 1 /\ \A i \in 1 .. n + 1 : st[i] = IF i <= n THEN s[i] ELSE <<b>>[i - n]
  BY <1>2, ConcatProperties
<1> HIDE DEF st, n
<1>4. DOMAIN st = 1 .. n + 1
  BY <1>3, LenProperties
<1>5. \A i \in 1 .. n : st[i] = s[i]
  BY <1>1, <1>3
<1>6. st[n + 1] = b
  <2> DEFINE k == n + 1
  <2>1. k \in 1 .. n + 1 /\ ~(k <= n) /\ k - n = 1
    BY <1>1
  <2> HIDE DEF k
  <2>2. st[k] = b
    BY <1>2, <1>3, <2>1
  <2>3. QED
    BY <2>2 DEF k
<1>7. \A i \in 1 .. n + 1 : i \in 1 .. n \/ i = n + 1
  BY <1>1
<1>8. \A i \in 1 .. n : i \in 1 .. n + 1
  BY <1>1
<1>9. in = at
  BY <1>1, <1>4, <1>5, <1>6, <1>7, <1>8
<1>10. Filtered(st, at) = Filtered(s, at)
  BY <1>1, <1>5, FilteredAlike
<1>11. Where(st, LAMBDA o : FieldOf(o) = f) = Where(s, LAMBDA o : FieldOf(o) = f)
  BY <1>9, <1>10 DEF Where
<1>12. QED
  BY <1>11 DEF Read, st

LEMMA DeduplicatedAlike ==
    ASSUME NEW c, NEW d, Alike(c, d)
    PROVE  Alike(Deduplicated(WithCustomResources(c)), Deduplicated(WithCustomResources(d)))
<1> DEFINE v == WithCustomResources(c)
           w == WithCustomResources(d)
<1>1. CRDs(c) = CRDs(d) /\ c["Others"] = d["Others"]
  BY DEF Alike, CRDs, Fields, Kinds
<1>2. Alike(v, w)
  <2> DEFINE gvks == GVKs(CRDs(d))
             of == Where(d["Others"], LAMBDA o : <<o.group, o.version, o.kind>> \in gvks)
  <2>1. w = [d EXCEPT !["CustomResources"] = of]
    BY DEF WithCustomResources
  <2>2. v = [c EXCEPT !["CustomResources"] = of]
    BY <1>1 DEF WithCustomResources, Where
  <2> HIDE DEF v, w, of
  <2>3. QED
    BY <2>1, <2>2 DEF Alike
<1> HIDE DEF v, w
<1>3. \A j \in DOMAIN Hashed : v[Hashed[j]] = w[Hashed[j]]
  BY <1>2 DEF Alike, Hashed, Fields, Kinds
<1>4. \A f : SeenBefore(v, f) = SeenBefore(w, f)
  BY <1>3 DEF SeenBefore
<1>5. QED
  BY <1>2, <1>4 DEF Alike, Deduplicated, v, w

\* The base is read from the stream or where it lies, as a CSV and nothing else.
LEMMA CollectedAlike ==
    ASSUME NEW p \in SUBSET Features, NEW b, IsBase(b), NEW mode
    PROVE  Alike(Collected(p, b, mode), Collected(p, <<>>, mode))
<1> DEFINE s == Stream(p, b, mode)
           t == Stream(p, <<>>, mode)
           c == CollectedFrom(p, b, mode)
           d == CollectedFrom(p, <<>>, mode)
<1>1. Objects[p] \in Seq(Printed(p)) /\ t = Objects[p]
  <2>1. Objects[p] \in Seq(Printed(p))
    BY ObjectsPrinted
  <2>2. t = Objects[p] \o <<>>
    BY DEF Stream
  <2>3. QED
    BY <2>1, <2>2, ConcatEmptySeq
<1>2. CASE mode = "pipe" /\ b # <<>>
  <2>1. s = t \o <<b>> /\ IsCSV(b)
    BY <1>1, <1>2 DEF Stream, IsBase
  <2>2. FieldOf(b) = "ClusterServiceVersion"
    BY <2>1 DEF IsCSV, FieldOf, Kinds
  <2> HIDE DEF s, t
  <2>3. \A f \in Fields \ {"ClusterServiceVersion"} : Read(s)[f] = Read(t)[f]
    BY <1>1, <2>1, <2>2, ReadWithout
  <2>4. Alike(Read(s), Read(t))
    BY <2>3 DEF Alike, Read
  <2>5. c = Deduplicated(WithCustomResources(Read(s))) /\ d = Deduplicated(WithCustomResources(Read(t)))
    BY <1>2 DEF CollectedFrom, FromReader, s, t
  <2>6. QED
    BY <2>4, <2>5, DeduplicatedAlike DEF Collected, CollectedFrom, Alike
<1>3. CASE ~(mode = "pipe" /\ b # <<>>)
  <2>1. s = t
    BY <1>3 DEF Stream
  <2>2. c = d
    BY <2>1 DEF CollectedFrom
  <2>3. DOMAIN c = Fields
    <3>1. "Role" \in Plain
      BY DEF Plain, Fields, Kinds
    <3>2. QED
      BY <3>1, StreamCollected
  <2>4. QED
    BY <2>2, <2>3 DEF Collected, CollectedFrom, Alike
<1>4. QED
  BY <1>2, <1>3

\* What the manifests give a CSV is the same for both.
LEMMA PermissionsAlike ==
    ASSUME NEW c, NEW d, Alike(c, d), NEW accounts
    PROVE  /\ InPerms(c, accounts) = InPerms(d, accounts)
           /\ InClusterPerms(c, accounts) = InClusterPerms(d, accounts)
           /\ ClusterBindings(c) = ClusterBindings(d)
<1>1. \A f \in {"Role", "ClusterRole", "RoleBinding", "ClusterRoleBinding"} : c[f] = d[f]
  BY DEF Alike, Fields, Kinds
<1>2. \A b : Refers(c, b) <=> Refers(d, b)
  BY <1>1 DEF Refers
<1>3. \A kind \in {"RoleBinding", "ClusterRoleBinding"} : \A refKind :
        Binding(c, kind, refKind, accounts) = Binding(d, kind, refKind, accounts)
  <2>1. TAKE kind \in {"RoleBinding", "ClusterRoleBinding"}
  <2>2. TAKE refKind
  <2> DEFINE ats(e) == {i \in DOMAIN e[kind] : /\ Refers(e, e[kind][i]) /\ e[kind][i].ref.kind = refKind
                                              /\ \E s \in ToSet(e[kind][i].subjects) : IsAccount(s, accounts)}
  <2>3. \A e : Binding(e, kind, refKind, accounts) = Filtered(e[kind], ats(e))
    BY DEF Binding, Where
  <2>4. ats(c) = ats(d) /\ c[kind] = d[kind]
    BY <1>1, <1>2
  <2> HIDE DEF ats
  <2>5. QED
    BY <2>3, <2>4
<1>4. QED
  BY <1>1, <1>3 DEF InPerms, InClusterPerms, ClusterBindings

LEMMA WebhooksAlike ==
    ASSUME NEW c, NEW d, Alike(c, d)
    PROVE  WebhooksOf(c) = WebhooksOf(d)
<1>1. /\ c["Deployment"] = d["Deployment"] /\ c["Service"] = d["Service"]
      /\ c["ValidatingWebhookConfiguration"] = d["ValidatingWebhookConfiguration"]
      /\ c["MutatingWebhookConfiguration"] = d["MutatingWebhookConfiguration"]
      /\ CRDs(c) = CRDs(d)
  BY DEF Alike, CRDs, Fields, Kinds
<1>2. \A svc : FindMatchingDepNameFromService(c, svc) = FindMatchingDepNameFromService(d, svc)
  BY <1>1 DEF FindMatchingDepNameFromService, Where
<1>3. \A svc : FindMatchingDeployment(c, svc) = FindMatchingDeployment(d, svc)
  BY <1>2 DEF FindMatchingDeployment
<1>4. \A h : AdmissionDescription(c, h) = AdmissionDescription(d, h)
  <2>1. TAKE h
  <2> DEFINE svcs == Where(d["Service"], LAMBDA s : s.name = h.service)
  <2>2. Where(c["Service"], LAMBDA s : s.name = h.service) = svcs
    BY <1>1 DEF Where
  <2> HIDE DEF svcs
  <2>3. FindMatchingDeployment(c, svcs[1]) = FindMatchingDeployment(d, svcs[1])
    BY <1>3
  <2>4. QED
    BY <2>2, <2>3 DEF AdmissionDescription, svcs
<1>5. \A service : Converted(c, service) = Converted(d, service)
  BY <1>1 DEF Converted, Where
<1>6. \A svc : ConversionDescriptions(c, svc) = ConversionDescriptions(d, svc)
  BY <1>2, <1>5 DEF ConversionDescriptions
<1>7. QED
  BY <1>1, <1>4, <1>6 DEF WebhooksOf

LEMMA ImagesAlike ==
    ASSUME NEW c, NEW d, Alike(c, d)
    PROVE  FindRelatedImages(c) = FindRelatedImages(d)
<1>1. c["Deployment"] = d["Deployment"]
  BY DEF Alike, Fields, Kinds
<1>2. RelatedVariables(c) = RelatedVariables(d)
  BY <1>1 DEF RelatedVariables
<1>3. QED
  BY <1>2 DEF FindRelatedImages

\* What two CSVs have from the manifests is the same.
SameApplied(t, u) ==
    /\ \A f \in {"permissions", "clusterPermissions", "deployments", "webhooks", "examples"} : t[f] = u[f]
    /\ [i \in DOMAIN t.owned |-> KeyOf(t.owned[i])] = [i \in DOMAIN u.owned |-> KeyOf(u.owned[i])]

\* Whatever CSV a collection has, what the manifests give the CSV is the same.
LEMMA AppliedAlike ==
    ASSUME NEW c, NEW d, Alike(c, d), NEW accounts, IsCollection(c), IsCollection(d),
           NEW t, NEW u, NEW owned, NEW others,
           owned \in Seq(ToSet(owned)), others \in Seq(ToSet(others)),
           IsApplied(t, c, accounts, owned), IsApplied(u, d, accounts, others)
    PROVE  SameApplied(t, u)
<1>1. /\ c["RoleBinding"] = d["RoleBinding"] /\ c["Deployment"] = d["Deployment"]
      /\ c["CustomResources"] = d["CustomResources"] /\ CRDs(c) = CRDs(d)
  <2>1. {"RoleBinding", "Deployment", "CustomResources", "CustomResourceDefinition",
         "CustomResourceDefinition-v1beta1"} \subseteq Fields \ {"ClusterServiceVersion"}
    BY DEF Fields, Kinds
  <2>2. QED
    BY <2>1 DEF Alike, CRDs
<1>2. /\ t.permissions = u.permissions /\ t.clusterPermissions = u.clusterPermissions
      /\ t.webhooks = u.webhooks /\ t.examples = u.examples
  BY <1>1, PermissionsAlike, WebhooksAlike DEF IsApplied
<1>3. t.deployments = u.deployments
  BY <1>1 DEF IsApplied, DeploymentsOf
<1> DEFINE keys == Definitions(CRDs(c))
<1>4. DOMAIN t.owned = DOMAIN keys /\ \A i \in DOMAIN keys : KeyOf(t.owned[i]) = KeyOf(keys[i])
  BY KeysOfDescriptions, DescribedSeq DEF IsApplied
<1>5. DOMAIN u.owned = DOMAIN keys /\ \A i \in DOMAIN keys : KeyOf(u.owned[i]) = KeyOf(keys[i])
  BY <1>1, KeysOfDescriptions, DescribedSeq DEF IsApplied
<1> HIDE DEF keys
<1>6. [i \in DOMAIN t.owned |-> KeyOf(t.owned[i])] = [i \in DOMAIN u.owned |-> KeyOf(u.owned[i])]
  BY <1>4, <1>5
<1>7. QED
  BY <1>2, <1>3, <1>6 DEF SameApplied

\* What a generated CSV has, apart from its name, is applied to some owned descriptions.
LEMMA GeneratedApplied ==
    ASSUME NEW p \in SUBSET Features, NEW b, IsBase(b), NEW mode, NEW version, NEW extra
    PROVE  LET c == Collected(p, b, mode)
               t == CSVOfBundle(c, version, extra)
           IN  /\ t.relatedImages = FindRelatedImages(c)
               /\ \E owned : owned \in Seq(ToSet(owned)) /\ IsApplied(t, c, Accounts(c, extra), owned)
<1> DEFINE c == Collected(p, b, mode)
           t == CSVOfBundle(c, version, extra)
           n == Named(c, version, "", FindRelatedImages(c))
<1>1. IsGenerated(t, c, version, "", FindRelatedImages(c), extra)
  BY GeneratedCSV DEF CSVOfBundle
<1>2. IsCollection(c)
  BY CollectedPrinted
<1> HIDE DEF c, t
<1>3. t = Apply(c, n, Accounts(c, extra)) /\ IsCSV(n) /\ t.relatedImages = FindRelatedImages(c)
  BY <1>1 DEF IsGenerated
<1> HIDE DEF n
<1>4. IsApplied(t, c, Accounts(c, extra), n.owned)
  BY <1>2, <1>3, Applied
<1>5. n.owned \in Seq(ToSet(n.owned))
  BY <1>3 DEF IsCSV
<1>6. QED
  BY <1>3, <1>4, <1>5 DEF c, t

LEMMA BundleFromManifests == ASSUME BundleInv PROVE BaseOnlyMetadata
<1> SUFFICES ASSUME bundle # <<>> PROVE BaseOnlyMetadata
  BY DEF BaseOnlyMetadata
<1> DEFINE m == made.bundle
           c == Collected(m.of, m.base, m.mode)
           d == Collected(m.of, <<>>, m.mode)
           fresh == CSVOfBundle(d, m.version, m.extra)
<1>1. m.of \in SUBSET Features /\ IsBase(m.base) /\ IsBase(<<>>) /\ bundle.csv = CSVOfBundle(c, m.version, m.extra)
  BY DEF BundleInv, IsBundle, IsBase
<1>2. Alike(c, d) /\ IsCollection(c) /\ IsCollection(d)
  BY <1>1, CollectedAlike, CollectedPrinted
<1>3. /\ bundle.csv.relatedImages = FindRelatedImages(c)
      /\ \E owned : owned \in Seq(ToSet(owned)) /\ IsApplied(bundle.csv, c, Accounts(c, m.extra), owned)
  BY <1>1, GeneratedApplied
<1>4. /\ fresh.relatedImages = FindRelatedImages(d)
      /\ \E owned : owned \in Seq(ToSet(owned)) /\ IsApplied(fresh, d, Accounts(d, m.extra), owned)
  BY <1>1, GeneratedApplied
<1> HIDE DEF m, c, d, fresh
<1>5. Accounts(c, m.extra) = Accounts(d, m.extra)
  <2>1. c["Deployment"] = d["Deployment"]
    BY <1>2 DEF Alike, Fields, Kinds
  <2>2. QED
    BY <2>1 DEF Accounts
<1>6. PICK owned : owned \in Seq(ToSet(owned)) /\ IsApplied(bundle.csv, c, Accounts(c, m.extra), owned)
  BY <1>3
<1>7. PICK others : others \in Seq(ToSet(others)) /\ IsApplied(fresh, d, Accounts(c, m.extra), others)
  BY <1>4, <1>5
<1>8. SameApplied(bundle.csv, fresh)
  BY <1>2, <1>6, <1>7, AppliedAlike
<1>9. bundle.csv["relatedImages"] = fresh["relatedImages"]
  BY <1>2, <1>3, <1>4, ImagesAlike
<1>10. Agree(bundle.csv, fresh)
  BY <1>8, <1>9 DEF SameApplied, Agree
<1>11. QED
  BY <1>10 DEF BaseOnlyMetadata, m, d, fresh

\* A base is taken for its metadata only.
THEOREM MetadataOnly == Spec => []BaseOnlyMetadata
<1>1. GenInv => BaseOnlyMetadata
  BY BundleFromManifests DEF GenInv
<1>2. QED
  BY <1>1, GenerateSound, PTL

----------------------------------------------------------------------------
(* The descriptions of the base                                            *)

\* What a project lists is among what projects may list.
LEMMA ProjectKinds ==
    ASSUME NEW p \in SUBSET Features
    PROVE  KindTypes(Packages, GVKsOf(p)) \in SUBSET AllKinds /\ IsFiniteSet(KindTypes(Packages, GVKsOf(p)))
<1>1. GVKsOf(p) \subseteq UNION {Resources[f] : f \in Features \cup {"core"}}
  BY DEF GVKsOf
<1> DEFINE all == UNION {Resources[f] : f \in Features \cup {"core"}}
<1>2. KindTypes(Packages, GVKsOf(p)) \subseteq KindTypes(Packages, all)
  <2> HIDE DEF all
  <2> DEFINE types == UNION {{<<i, n>> : n \in DOMAIN Packages[i].types} : i \in Loaded(Packages)}
  <2>1. \A gvks : KindTypes(Packages, gvks) = {t \in types : Packages[t[1]].group # "" /\ GVKAt(Packages, t) \in gvks}
    BY DEF KindTypes
  <2> HIDE DEF types
  <2>2. QED
    BY <1>1, <2>1 DEF all
<1>3. QED
  BY <1>2, KindsFinite DEF AllKinds

\* The base's list before and after the command.
LEMMA BaseUpdated ==
    ASSUME NEW b, IsBase(b), NEW gvks, NEW prompted, NEW answer
    PROVE  LET types == KindTypes(Packages, gvks)
               old   == IF b = <<>> THEN <<>> ELSE b.owned
               new   == GetBase(b, Operator, Packages, gvks, prompted, answer).owned
           IN  /\ old \in Seq(ToSet(old))
               /\ \/ new = UpdateDefinitionsByKey(old, Packages, types)
                  \/ new = old /\ types = {}
<1> DEFINE types == KindTypes(Packages, gvks)
           owned == IF b = <<>> THEN <<>> ELSE b.owned
           old   == IF b = <<>> THEN NewBase(Operator) ELSE Migrated(b, Operator)
           told  == IF prompted THEN RunInteractivePrompt(old, answer) ELSE old
           upd   == UpdateDefinitionsByKey(told.owned, Packages, types)
<1>1. owned \in Seq(ToSet(owned))
  BY NewBaseCSV DEF IsBase, IsCSV, NewBase
<1>2. IsCSV(old) /\ old.owned = owned
  BY NewBaseCSV DEF IsBase, Migrated, IsCSV, NewBase
<1> HIDE DEF old
<1>3. told.owned = owned /\ "owned" \in DOMAIN told
  BY <1>2 DEF RunInteractivePrompt, IsCSV, NewBase
<1>4. GetBase(b, Operator, Packages, gvks, prompted, answer) = IF Packages = <<>> THEN told ELSE [told EXCEPT !.owned = upd]
  BY DEF GetBase, old
<1> HIDE DEF told, upd, owned
<1>5. CASE Packages = <<>>
  <2>1. types = {}
    <3>1. DOMAIN Packages = {}
      BY <1>5
    <3>2. Loaded(Packages) = {}
      BY <3>1 DEF Loaded
    <3>3. QED
      BY <3>2 DEF KindTypes
  <2>2. QED
    BY <1>1, <1>3, <1>4, <1>5, <2>1 DEF owned
<1>6. CASE Packages # <<>>
  <2>1. [told EXCEPT !.owned = upd].owned = upd
    BY <1>3
  <2>2. QED
    BY <1>1, <1>3, <1>4, <1>6, <2>1 DEF upd, owned
<1>7. QED
  BY <1>5, <1>6

\* The two lists that the property compares, by positions.
LEMMA DescriptionsAt ==
    ASSUME NEW j, NEW types
    PROVE  LET gvks == {GVKAt(Packages, t) : t \in types}
           IN  /\ DescriptionsOf(j, gvks, TRUE) = Filtered(j, With(j, types))
               /\ DescriptionsOf(j, gvks, FALSE) = Filtered(j, Without(j, types))
<1> DEFINE gvks == {GVKAt(Packages, t) : t \in types}
<1>1. \A generated : DescriptionsOf(j, gvks, generated) = Filtered(j, {i \in DOMAIN j : (DescToGVK(j[i]) \in gvks) = generated})
  BY DEF DescriptionsOf, Where
<1>2. gvks = KindsOf(Packages, types)
  BY DEF KindsOf
<1> HIDE DEF gvks
<1>3. {i \in DOMAIN j : (DescToGVK(j[i]) \in gvks) = TRUE} = With(j, types)
  BY <1>2 DEF With
<1>4. {i \in DOMAIN j : (DescToGVK(j[i]) \in gvks) = FALSE} = Without(j, types)
  BY <1>2 DEF Without
<1>5. QED
  BY <1>1, <1>3, <1>4 DEF gvks

LEMMA DescriptionsStep ==
    ASSUME BaseInv, NEW level \in Levels, GenerateKustomize(level)
    PROVE  LET types == KindTypes(Packages, GVKsOf(project))
               gvks  == {GVKAt(Packages, t) : t \in types}
               old   == IF base = <<>> THEN <<>> ELSE base.owned
               gen   == DescriptionsOf(base'.owned, gvks, TRUE)
           IN  /\ DescriptionsOf(base'.owned, gvks, FALSE) = DescriptionsOf(old, gvks, FALSE)
               /\ Len(gen) = Cardinality(types)
               /\ {DescToGVK(d) : d \in ToSet(gen)} = gvks
<1> DEFINE types == KindTypes(Packages, GVKsOf(project))
           gvks  == {GVKAt(Packages, t) : t \in types}
           old   == IF base = <<>> THEN <<>> ELSE base.owned
           new   == base'.owned
           gen   == DescriptionsOf(new, gvks, TRUE)
<1>1. types \in SUBSET AllKinds /\ IsFiniteSet(types)
  BY ProjectKinds DEF BaseInv
<1>2. base' = GetBase(base, Operator, Packages, GVKsOf(project), RequiresInteraction(base # <<>>, level), "answered")
  BY DEF GenerateKustomize
<1>3. /\ old \in Seq(ToSet(old))
      /\ \/ new = UpdateDefinitionsByKey(old, Packages, types)
         \/ new = old /\ types = {}
  BY <1>2, BaseUpdated DEF BaseInv
<1> HIDE DEF types, old, new
<1>4. gvks = KindsOf(Packages, types)
  BY DEF KindsOf
<1>5. /\ gen = Filtered(new, With(new, types))
      /\ DescriptionsOf(new, gvks, FALSE) = Filtered(new, Without(new, types))
      /\ DescriptionsOf(old, gvks, FALSE) = Filtered(old, Without(old, types))
  BY DescriptionsAt
<1> HIDE DEF gvks, gen
<1>6. CASE new = UpdateDefinitionsByKey(old, Packages, types)
  <2>1. Filtered(new, Without(new, types)) = Filtered(old, Without(old, types))
    BY <1>1, <1>3, <1>6, OthersKept
  <2>2. Len(gen) = Cardinality(types) /\ {DescToGVK(d) : d \in ToSet(gen)} = KindsOf(Packages, types)
    BY <1>1, <1>3, <1>5, <1>6, KindsDescribed
  <2>3. QED
    BY <1>4, <1>5, <2>1, <2>2 DEF types, old, new, gvks, gen
<1>7. CASE new = old /\ types = {}
  <2>1. KindsOf(Packages, types) = {} /\ Cardinality(types) = 0
    BY <1>7, FS_EmptySet DEF KindsOf
  <2>2. With(new, types) = {} /\ With(new, types) \in SUBSET DOMAIN old
    BY <2>1 DEF With
  <2>3. gen \in Seq(ToSet(old)) /\ ToSet(gen) = {old[i] : i \in {}}
    BY <1>3, <1>5, <1>7, <2>2, FilteredSeq
  <2>4. ToSet(gen) = {}
    BY <2>3
  <2>5. Len(gen) = 0
    <3>1. DOMAIN gen = 1 .. Len(gen) /\ Len(gen) \in Nat
      BY <2>3, LenProperties
    <3>2. DOMAIN gen = {}
      BY <2>4 DEF ToSet
    <3>3. QED
      BY <3>1, <3>2
  <2>6. QED
    BY <1>4, <1>5, <1>7, <2>1, <2>4, <2>5 DEF types, old, new, gvks, gen
<1>8. QED
  BY <1>3, <1>6, <1>7

\* No command to generate the base loses, doubles or moves past another a
\* description that somebody wrote, and each kind with markers is described once.
THEOREM HandWrittenKept == Spec => DescriptionsKept
<1> DEFINE types == KindTypes(Packages, GVKsOf(project))
           gvks  == {GVKAt(Packages, t) : t \in types}
           old   == IF base = <<>> THEN <<>> ELSE base.owned
           gen   == DescriptionsOf(base'.owned, gvks, TRUE)
           Kept  == /\ DescriptionsOf(base'.owned, gvks, FALSE) = DescriptionsOf(old, gvks, FALSE)
                    /\ Len(gen) = Cardinality(types)
                    /\ {DescToGVK(d) : d \in ToSet(gen)} = gvks
           Keeps == (\E level \in Levels : GenerateKustomize(level)) => Kept
<1>1. BaseInv => Keeps
  BY DescriptionsStep
<1>2. GenInv => BaseInv
  BY DEF GenInv
<1>3. QED
  BY <1>1, <1>2, GenerateSound, PTL DEF DescriptionsKept
----------------------------------------------------------------------------
(* The markers of the API types                                            *)

\* What holds of 0 and of the successor of each number it holds of, holds.
LEMMA Induction ==
    ASSUME NEW S \in SUBSET Nat, 0 \in S, \A n \in S : n + 1 \in S
    PROVE  S = Nat
<1> SUFFICES ASSUME S # Nat PROVE FALSE
  OBVIOUS
<1> DEFINE T == Nat \ S
<1>1. T \subseteq Nat /\ T # {}
  OBVIOUS
<1>2. PICK n \in T : \A k \in T : n <= k
  <2>1. PICK R : /\ IsWellFoundedOn(R, Nat)
                 /\ \A k, l \in Nat : k < l => <<k, l>> \in R
    BY NatLessThanWellFounded DEF OpToRel
  <2> HIDE DEF T
  <2>2. IsWellFoundedOn(R, Nat) /\ T \subseteq Nat /\ T # {}
    BY <1>1, <2>1
  <2>3. PICK n \in T : \A k \in T : ~ (<<k, n>> \in R)
    BY <2>2, WFMin
  <2>4. \A k \in T : ~(k < n)
    BY <1>1, <2>1, <2>3
  <2>5. QED
    BY <1>1, <2>4
<1>3. n \in Nat /\ n # 0
  BY <1>2
<1>4. n - 1 \in S
  BY <1>2, <1>3
<1>5. n \in S
  <2>1. (n - 1) + 1 = n
    BY <1>3
  <2>2. QED
    BY <1>4, <2>1
<1>6. QED
  BY <1>2, <1>5

\* The levels of MarkedChildrenOfField and of Marked, from a field of a package.
LevelsFrom(p, root) ==
    LET Level[n \in 0 .. MaxDepth] ==
          IF n = 0 THEN {[field |-> root, path |-> <<>>]}
          ELSE UNION {Below(Packages, p, at) : at \in Level[n - 1]}
    IN  Level
InlinedFrom(p, root) ==
    LET Inlined[n \in 0 .. MaxDepth] ==
          IF n = 0 THEN {<<p, root>>} ELSE {pf \in FieldsOf(Inlined[n - 1]) : Inlines(pf[2])}
    IN  Inlined

LEMMA LevelsDefined ==
    ASSUME NEW p, NEW root
    PROVE  LET L == LevelsFrom(p, root)
           IN  /\ L[0] = {[field |-> root, path |-> <<>>]}
               /\ \A n \in 1 .. MaxDepth : L[n] = UNION {Below(Packages, p, at) : at \in L[n - 1]}
<1> DEFINE x       == {[field |-> root, path |-> <<>>]}
           After(v) == UNION {Below(Packages, p, at) : at \in v}
           Is(g, k) == g = [n \in 0 .. k |-> IF n = 0 THEN x ELSE After(g[n - 1])]
           S == {k \in Nat : \E g : Is(g, k)}
<1>0. LevelsFrom(p, root) = CHOOSE g : Is(g, MaxDepth)
  BY DEF LevelsFrom
<1> HIDE DEF x, After
<1>1. 0 \in S
  <2> DEFINE g == [n \in 0 .. 0 |-> x]
  <2>1. Is(g, 0)
    OBVIOUS
  <2> HIDE DEF g, Is
  <2>2. QED
    BY <2>1
<1>2. ASSUME NEW k \in S PROVE k + 1 \in S
  <2>1. k \in Nat /\ \E g : Is(g, k)
    OBVIOUS
  <2>2. PICK g : Is(g, k)
    BY <2>1
  <2> DEFINE h == [n \in 0 .. k + 1 |-> IF n = 0 THEN x ELSE After(g[n - 1])]
  <2>3. \A n \in 0 .. k : h[n] = g[n]
    BY <2>1, <2>2
  <2>4. h = [n \in 0 .. k + 1 |-> IF n = 0 THEN x ELSE After(h[n - 1])]
    <3>1. \A n \in 0 .. k + 1 : n # 0 => h[n - 1] = g[n - 1]
      <4>1. \A n \in 0 .. k + 1 : n # 0 => n - 1 \in 0 .. k
        BY <2>1
      <4> HIDE DEF h
      <4>2. QED
        BY <2>3, <4>1
    <3>2. \A n \in 0 .. k + 1 : h[n] = IF n = 0 THEN x ELSE After(h[n - 1])
      BY <3>1
    <3>3. QED
      BY <3>2
  <2> HIDE DEF h
  <2>5. Is(h, k + 1)
    BY <2>4
  <2> HIDE DEF Is
  <2>6. QED
    BY <2>1, <2>5
<1>3. S = Nat
  <2> HIDE DEF S
  <2>1. S \in SUBSET Nat
    BY DEF S
  <2>2. QED
    BY <1>1, <1>2, <2>1, Induction
<1>4. \E g : Is(g, MaxDepth)
  <2> HIDE DEF Is
  <2>1. MaxDepth \in S
    BY <1>3, DepthAssumption
  <2>2. QED
    BY <2>1
<1> DEFINE L == LevelsFrom(p, root)
<1>5. Is(L, MaxDepth)
  <2> HIDE DEF Is
  <2>1. QED
    BY <1>0, <1>4
<1> HIDE DEF L
<1>6. L[0] = x /\ \A n \in 1 .. MaxDepth : L[n] = After(L[n - 1])
  BY <1>5, DepthAssumption
<1>7. QED
  BY <1>6 DEF L, x, After

LEMMA InlinedDefined ==
    ASSUME NEW p, NEW root
    PROVE  LET I == InlinedFrom(p, root)
           IN  /\ I[0] = {<<p, root>>}
               /\ \A n \in 1 .. MaxDepth : I[n] = {pf \in FieldsOf(I[n - 1]) : Inlines(pf[2])}
<1> DEFINE x        == {<<p, root>>}
           After(v) == {pf \in FieldsOf(v) : Inlines(pf[2])}
           Is(g, k) == g = [n \in 0 .. k |-> IF n = 0 THEN x ELSE After(g[n - 1])]
           S == {k \in Nat : \E g : Is(g, k)}
<1>0. InlinedFrom(p, root) = CHOOSE g : Is(g, MaxDepth)
  BY DEF InlinedFrom
<1> HIDE DEF x, After
<1>1. 0 \in S
  <2> DEFINE g == [n \in 0 .. 0 |-> x]
  <2>1. Is(g, 0)
    OBVIOUS
  <2> HIDE DEF g, Is
  <2>2. QED
    BY <2>1
<1>2. ASSUME NEW k \in S PROVE k + 1 \in S
  <2>1. k \in Nat /\ \E g : Is(g, k)
    OBVIOUS
  <2>2. PICK g : Is(g, k)
    BY <2>1
  <2> DEFINE h == [n \in 0 .. k + 1 |-> IF n = 0 THEN x ELSE After(g[n - 1])]
  <2>3. \A n \in 0 .. k : h[n] = g[n]
    BY <2>1, <2>2
  <2>4. h = [n \in 0 .. k + 1 |-> IF n = 0 THEN x ELSE After(h[n - 1])]
    <3>1. \A n \in 0 .. k + 1 : n # 0 => h[n - 1] = g[n - 1]
      <4>1. \A n \in 0 .. k + 1 : n # 0 => n - 1 \in 0 .. k
        BY <2>1
      <4> HIDE DEF h
      <4>2. QED
        BY <2>3, <4>1
    <3>2. \A n \in 0 .. k + 1 : h[n] = IF n = 0 THEN x ELSE After(h[n - 1])
      BY <3>1
    <3>3. QED
      BY <3>2
  <2> HIDE DEF h
  <2>5. Is(h, k + 1)
    BY <2>4
  <2> HIDE DEF Is
  <2>6. QED
    BY <2>1, <2>5
<1>3. S = Nat
  <2> HIDE DEF S
  <2>1. S \in SUBSET Nat
    BY DEF S
  <2>2. QED
    BY <1>1, <1>2, <2>1, Induction
<1>4. \E g : Is(g, MaxDepth)
  <2> HIDE DEF Is
  <2>1. MaxDepth \in S
    BY <1>3, DepthAssumption
  <2>2. QED
    BY <2>1
<1> DEFINE I == InlinedFrom(p, root)
<1>5. Is(I, MaxDepth)
  <2> HIDE DEF Is
  <2>1. QED
    BY <1>0, <1>4
<1> HIDE DEF I
<1>6. I[0] = x /\ \A n \in 1 .. MaxDepth : I[n] = After(I[n - 1])
  BY <1>5, DepthAssumption
<1>7. QED
  BY <1>6 DEF I, x, After

\* A field is named in the path, and then as in JSON, inlined or ignored.
IsNamed(f) == f.exported /\ ~f.embedded /\ NameOf(f) \notin {"inline", "ignore"}

LEMMA Segments ==
    ASSUME NEW f
    PROVE  /\ DOMAIN Segment(f) = {"tag", "array"}
           /\ Segment(f).tag = "inline" <=> Inlines(f)
           /\ Segment(f).tag \notin {"inline", "ignore"} <=> IsNamed(f)
           /\ IsNamed(f) => Segment(f).tag = NameOf(f)
<1> DEFINE s == Segment(f)
<1>1. CASE f.embedded
  <2>1. s = [tag |-> "inline", array |-> FALSE]
    BY <1>1 DEF Segment
  <2> HIDE DEF s
  <2>2. QED
    BY <1>1, <2>1 DEF Inlines, IsNamed, s
<1>2. CASE ~f.embedded /\ ~f.exported
  <2>1. s = [tag |-> "ignore", array |-> FALSE]
    BY <1>2 DEF Segment
  <2> HIDE DEF s
  <2>2. QED
    BY <1>2, <2>1 DEF Inlines, IsNamed, s
<1>3. CASE ~f.embedded /\ f.exported
  <2>1. s = [tag |-> NameOf(f), array |-> f.array /\ f.json \notin {"inline", "ignore"}]
    BY <1>3 DEF Segment, NameOf
  <2> HIDE DEF s
  <2>2. QED
    BY <1>3, <2>1 DEF Inlines, IsNamed, s
<1>4. QED
  BY <1>1, <1>2, <1>3

\* The path to a field below the end of another.
Longer(p, f) == Append(p, Segment(f))

LEMMA PathsBelow ==
    ASSUME NEW p, NEW at, NEW x \in Below(Packages, p, at)
    PROVE  \E f : x = [field |-> f, path |-> Longer(at.path, f)]
BY DEF Below, Longer

LEMMA FieldsOfEach ==
    ASSUME NEW fields, NEW g
    PROVE  g \in FieldsOf(fields) <=> \E pf \in fields : g \in FieldsOf({pf})
BY DEF FieldsOf

\* Where the types are found that are meant, their fields are below.
LEMMA FieldsBelow ==
    ASSUME NEW p, NEW pf, TypesFound(Packages, p, pf[2]) = TypesMeant(pf[1], pf[2]),
           NEW at, at.field = pf[2]
    PROVE  /\ \A x \in Below(Packages, p, at) :
                \E g \in FieldsOf({pf}) : x = [field |-> g[2], path |-> Longer(at.path, g[2])]
           /\ \A g \in FieldsOf({pf}) : [field |-> g[2], path |-> Longer(at.path, g[2])] \in Below(Packages, p, at)
<1> DEFINE types == TypesFound(Packages, p, pf[2])
           Fs(t) == ToSet(TypeAt(Packages, t).fields)
           Place(f) == [field |-> f, path |-> Longer(at.path, f)]
<1>1. \A x : x \in Below(Packages, p, at) <=> \E t \in types : \E f \in Fs(t) : x = Place(f)
  BY DEF Below, Longer
<1>2. \A g : g \in FieldsOf({pf}) <=> \E t \in types : \E f \in Fs(t) : g = <<t[1], f>>
  BY DEF FieldsOf, FieldsOfType
<1> HIDE DEF types, Fs
<1>3. ASSUME NEW x \in Below(Packages, p, at) PROVE \E g \in FieldsOf({pf}) : x = Place(g[2])
  <2>1. PICK t \in types : \E f \in Fs(t) : x = Place(f)
    BY <1>1
  <2>2. PICK f \in Fs(t) : x = Place(f)
    BY <2>1
  <2>3. <<t[1], f>> \in FieldsOf({pf}) /\ <<t[1], f>>[2] = f
    BY <1>2
  <2>4. QED
    BY <2>2, <2>3
<1>4. ASSUME NEW g \in FieldsOf({pf}) PROVE Place(g[2]) \in Below(Packages, p, at)
  <2>1. PICK t \in types : \E f \in Fs(t) : g = <<t[1], f>>
    BY <1>2
  <2>2. PICK f \in Fs(t) : g = <<t[1], f>>
    BY <2>1
  <2>3. g[2] = f
    BY <2>2
  <2>4. QED
    BY <1>1, <2>3
<1>5. QED
  BY <1>3, <1>4

\* The search does not leave the kind's package and its imports.
LEMMA NearClosed ==
    ASSUME NEW t, FoundAsMeant(t), NEW pf \in FieldsNear(t), NEW g \in FieldsOf({pf})
    PROVE  g \in FieldsNear(t)
<1>1. PICK u \in TypesFound(Packages, t[1], pf[2]) : g \in FieldsOfType(u)
  BY DEF FieldsOf, FoundAsMeant
<1>2. u[1] \in Near(t[1]) /\ u = <<u[1], u[2]>>
  BY <1>1 DEF TypesFound, Candidates, Near
<1>3. u[1] \in Loaded(Packages) /\ u[2] \in DOMAIN Packages[u[1]].types
  BY <1>1 DEF TypesFound, Known
<1>4. QED
  BY <1>1, <1>2, <1>3 DEF FieldsNear

\* A path of n segments, and one through inlined structs only.
IsPath(p, n) ==
    /\ p \in Seq(ToSet(p)) /\ Len(p) = n
    /\ \A i \in 1 .. n : DOMAIN p[i] = {"tag", "array"}
Through(p, n) == \A i \in 1 .. n : p[i].tag = "inline"

LEMMA LongerPath ==
    ASSUME NEW n \in Nat, NEW p, IsPath(p, n), NEW f, NEW q, q = Longer(p, f)
    PROVE  /\ IsPath(q, n + 1) /\ q[n + 1] = Segment(f)
           /\ \A i \in 1 .. n : q[i] = p[i]
<1> DEFINE s == Segment(f)
           S == ToSet(p) \cup {s}
<1>1. p \in Seq(S) /\ s \in S /\ Len(p) = n
  BY SeqMonotonic DEF IsPath
<1>2. DOMAIN s = {"tag", "array"}
  BY Segments
<1>0. q = Append(p, s)
  BY DEF Longer
<1> HIDE DEF s, S
<1>3. q \in Seq(S) /\ Len(q) = n + 1 /\ q[n + 1] = s /\ \A i \in 1 .. n : q[i] = p[i]
  BY <1>0, <1>1, AppendProperties
<1>4. q \in Seq(ToSet(q))
  BY <1>3, SeqToSet
<1>5. \A i \in 1 .. n + 1 : DOMAIN q[i] = {"tag", "array"}
  <2>1. TAKE i \in 1 .. n + 1
  <2>2. CASE i = n + 1
    BY <1>2, <1>3, <2>2
  <2>3. CASE i # n + 1
    <3>1. i \in 1 .. n
      BY <2>3
    <3>2. QED
      BY <1>3, <3>1 DEF IsPath
  <2>4. QED
    BY <2>2, <2>3
<1>6. QED
  BY <1>3, <1>4, <1>5 DEF IsPath, s

\* What is at a level has a path of as many segments, and what is reached
\* through inlined structs is what is inlined.
IsLevel(t, n) ==
    LET L == LevelsFrom(t[1], SpecOf(t))
        I == InlinedFrom(t[1], SpecOf(t))
    IN  /\ \A at \in L[n] : IsPath(at.path, n) /\ (Through(at.path, n) => \E pf \in I[n] : pf[2] = at.field)
        /\ \A pf \in I[n] : pf \in FieldsNear(t) /\ \E at \in L[n] : at.field = pf[2] /\ Through(at.path, n)

LEMMA AllLevels ==
    ASSUME NEW t, FoundAsMeant(t)
    PROVE  \A n \in 0 .. MaxDepth : IsLevel(t, n)
<1> DEFINE L == LevelsFrom(t[1], SpecOf(t))
           I == InlinedFrom(t[1], SpecOf(t))
           S == {n \in Nat : n <= MaxDepth => IsLevel(t, n)}
<1>1. /\ L[0] = {[field |-> SpecOf(t), path |-> <<>>]}
      /\ \A n \in 1 .. MaxDepth : L[n] = UNION {Below(Packages, t[1], at) : at \in L[n - 1]}
  BY LevelsDefined
<1>2. /\ I[0] = {<<t[1], SpecOf(t)>>}
      /\ \A n \in 1 .. MaxDepth : I[n] = {pf \in FieldsOf(I[n - 1]) : Inlines(pf[2])}
  BY InlinedDefined
<1>L. \A n : IsLevel(t, n) <=>
        /\ \A at \in L[n] : IsPath(at.path, n) /\ (Through(at.path, n) => \E pf \in I[n] : pf[2] = at.field)
        /\ \A pf \in I[n] : pf \in FieldsNear(t) /\ \E at \in L[n] : at.field = pf[2] /\ Through(at.path, n)
  BY DEF IsLevel
<1> HIDE DEF L, I
<1>3. 0 \in S
  <2>1. IsPath(<<>>, 0) /\ Through(<<>>, 0)
    BY DEF IsPath, Through, ToSet
  <2>2. \A at \in L[0] : at.field = SpecOf(t) /\ at.path = <<>>
    BY <1>1
  <2>3. [field |-> SpecOf(t), path |-> <<>>] \in L[0]
    BY <1>1
  <2>4. /\ <<t[1], SpecOf(t)>> \in I[0] /\ <<t[1], SpecOf(t)>>[2] = SpecOf(t)
        /\ \A pf \in I[0] : pf[2] = SpecOf(t) /\ pf \in FieldsNear(t)
    BY <1>2 DEF FieldsNear
  <2>5. IsLevel(t, 0)
    BY <1>L, <2>1, <2>2, <2>3, <2>4
  <2>6. QED
    BY <2>5
<1>4. ASSUME NEW n \in S PROVE n + 1 \in S
  <2>1. n \in Nat /\ n + 1 \in Nat
    OBVIOUS
  <2>2. SUFFICES ASSUME n + 1 <= MaxDepth PROVE IsLevel(t, n + 1)
    BY <2>1
  <2>3. IsLevel(t, n) /\ n + 1 \in 1 .. MaxDepth /\ (n + 1) - 1 = n
    BY <2>1, <2>2, DepthAssumption
  <2>4. /\ L[n + 1] = UNION {Below(Packages, t[1], at) : at \in L[n]}
        /\ I[n + 1] = {pf \in FieldsOf(I[n]) : Inlines(pf[2])}
    BY <1>1, <1>2, <2>3
  <2>5. \A pf \in I[n] : TypesFound(Packages, t[1], pf[2]) = TypesMeant(pf[1], pf[2])
    BY <1>L, <2>3 DEF FoundAsMeant
  <2>6. ASSUME NEW at \in L[n + 1]
        PROVE  IsPath(at.path, n + 1) /\ (Through(at.path, n + 1) => \E pf \in I[n + 1] : pf[2] = at.field)
    <3>1. PICK up \in L[n] : at \in Below(Packages, t[1], up)
      BY <2>4
    <3>2. PICK f : at = [field |-> f, path |-> Longer(up.path, f)]
      BY <3>1, PathsBelow
    <3>3. IsPath(up.path, n) /\ (Through(up.path, n) => \E pf \in I[n] : pf[2] = up.field)
      BY <1>L, <2>3
    <3>4. at.field = f /\ at.path = Longer(up.path, f)
      BY <3>2
    <3>5. /\ IsPath(at.path, n + 1) /\ at.path[n + 1] = Segment(f)
          /\ \A i \in 1 .. n : at.path[i] = up.path[i]
      BY <2>1, <3>3, <3>4, LongerPath
    <3>6. ASSUME Through(at.path, n + 1) PROVE \E pf \in I[n + 1] : pf[2] = at.field
      <4>1. Segment(f).tag = "inline" /\ Through(up.path, n)
        BY <2>1, <3>5, <3>6 DEF Through
      <4>2. Inlines(f)
        BY <4>1, Segments
      <4>3. PICK pf \in I[n] : pf[2] = up.field
        BY <3>3, <4>1
      <4>4. PICK g \in FieldsOf({pf}) : at = [field |-> g[2], path |-> Longer(up.path, g[2])]
        <5>1. TypesFound(Packages, t[1], pf[2]) = TypesMeant(pf[1], pf[2]) /\ up.field = pf[2]
          BY <2>5, <4>3
        <5>2. \A x : x \in Below(Packages, t[1], up)
                <=> \E g \in FieldsOf({pf}) : x = [field |-> g[2], path |-> Longer(up.path, g[2])]
          BY <5>1, FieldsBelow
        <5>3. QED
          BY <3>1, <5>2
      <4>5. g[2] = f
        BY <3>4, <4>4
      <4>6. g \in FieldsOf(I[n])
        BY FieldsOfEach
      <4>7. QED
        BY <2>4, <3>4, <4>2, <4>5, <4>6
    <3>7. QED
      BY <3>5, <3>6
  <2>7. ASSUME NEW pf \in I[n + 1]
        PROVE  pf \in FieldsNear(t) /\ \E at \in L[n + 1] : at.field = pf[2] /\ Through(at.path, n + 1)
    <3>1. Inlines(pf[2]) /\ pf \in FieldsOf(I[n])
      BY <2>4
    <3>2. PICK g \in I[n] : pf \in FieldsOf({g})
      BY <3>1, FieldsOfEach
    <3>3. g \in FieldsNear(t)
      BY <1>L, <2>3
    <3>4. PICK up \in L[n] : up.field = g[2] /\ Through(up.path, n)
      BY <1>L, <2>3
    <3>5. IsPath(up.path, n)
      BY <1>L, <2>3
    <3> DEFINE at == [field |-> pf[2], path |-> Longer(up.path, pf[2])]
    <3>6. at.field = pf[2] /\ at.path = Longer(up.path, pf[2])
      OBVIOUS
    <3>7. at \in Below(Packages, t[1], up)
      BY <2>5, <3>2, <3>4, FieldsBelow
    <3> HIDE DEF at
    <3>8. at.path[n + 1] = Segment(pf[2]) /\ \A i \in 1 .. n : at.path[i] = up.path[i]
      <4>1. IsPath(up.path, n) /\ at.path = Longer(up.path, pf[2])
        BY <3>5, <3>6
      <4>2. QED
        BY <2>1, <4>1, LongerPath
    <3>9. Segment(pf[2]).tag = "inline"
      BY <3>1, Segments
    <3>10. Through(at.path, n + 1)
      <4>1. \A i \in 1 .. n + 1 : i = n + 1 \/ i \in 1 .. n
        BY <2>1
      <4>2. QED
        BY <3>4, <3>8, <3>9, <4>1 DEF Through
    <3>11. at \in L[n + 1]
      BY <2>4, <3>7
    <3>12. pf \in FieldsNear(t)
      BY <3>2, <3>3, NearClosed
    <3>13. QED
      BY <3>6, <3>10, <3>11, <3>12
  <2>8. QED
    BY <1>L, <2>6, <2>7
<1>5. S = Nat
  <2> HIDE DEF S
  <2>1. S \in SUBSET Nat
    BY DEF S
  <2>2. QED
    BY <1>3, <1>4, <2>1, Induction
<1>6. QED
  BY <1>5, DepthAssumption

\* A path through inlined structs only has one name, the last.
LEMMA ShortPaths ==
    ASSUME NEW n \in Nat, NEW p, IsPath(p, n + 1), HasPath(p), NEW key
    PROVE  Names(MakePath(p), key) <=> Through(p, n) /\ p[n + 1].tag = key
<1> DEFINE at    == {i \in DOMAIN p : p[i].tag # "inline"}
           named == Filtered(p, at)
           nth   == InOrder(at, [i \in at |-> {j \in at : j <= i}])
           m     == Cardinality(at)
           mp    == MakePath(p)
           E(i)  == IF i = m THEN [named[i] EXCEPT !.array = FALSE] ELSE named[i]
<1>1. /\ p \in Seq(ToSet(p)) /\ Len(p) = n + 1 /\ DOMAIN p = 1 .. n + 1
      /\ \A i \in 1 .. n + 1 : DOMAIN p[i] = {"tag", "array"}
  BY LenProperties DEF IsPath
<1>2. at \in SUBSET DOMAIN p /\ IsFiniteSet(at)
  <2>1. at \in SUBSET DOMAIN p
    OBVIOUS
  <2>2. IsFiniteSet(DOMAIN p)
    BY <1>1, PositionsFinite
  <2> HIDE DEF at
  <2>3. QED
    BY <2>1, <2>2, FS_Subset
<1>3. n + 1 \in at
  BY <1>1 DEF HasPath, Last
<1>4. \A i \in 1 .. n + 1 : i \in at <=> p[i].tag # "inline"
  BY <1>1
<1>5. m \in Nat /\ \A k \in 1 .. m : nth[k] \in at
  <2> HIDE DEF at
  <2>1. QED
    BY <1>1, <1>2, Positions
<1>6. named = [k \in 1 .. m |-> p[nth[k]]] /\ named \in Seq(ToSet(p))
  <2> HIDE DEF at
  <2>1. QED
    BY <1>1, <1>2, FilteredSeq DEF Filtered
<1>7. MakePath(p) = [i \in DOMAIN named |-> IF i = Len(named) THEN [named[i] EXCEPT !.array = FALSE] ELSE named[i]]
  BY DEF MakePath, Where
<1> HIDE DEF at, nth, m, named
<1>8. DOMAIN named = 1 .. m /\ Len(named) = m
  BY <1>5, <1>6, LenProperties
<1>9. mp = [i \in 1 .. m |-> E(i)]
  BY <1>7, <1>8
<1>10. Len(mp) = m
  <2> DEFINE S == {E(i) : i \in 1 .. m}
  <2>1. \A i \in 1 .. m : E(i) \in S
    OBVIOUS
  <2> HIDE DEF S, E, mp
  <2>2. mp \in Seq(S)
    BY <1>5, <1>9, <2>1, IsASeq
  <2>3. DOMAIN mp = 1 .. m
    BY <1>9
  <2>4. QED
    BY <1>5, <2>2, <2>3, LenProperties
<1>11. m = 1 <=> at = {n + 1}
  BY <1>2, <1>3, FS_Singleton DEF m
<1>12. at = {n + 1} <=> Through(p, n)
  <2>1. \A i \in 1 .. n + 1 : i = n + 1 \/ i \in 1 .. n
    OBVIOUS
  <2>2. \A i \in 1 .. n : i \in 1 .. n + 1 /\ i # n + 1
    OBVIOUS
  <2>3. at \subseteq 1 .. n + 1
    BY <1>1, <1>2
  <2>4. QED
    BY <1>3, <1>4, <2>1, <2>2, <2>3 DEF Through
<1>13. ASSUME m = 1 PROVE mp[1].tag = p[n + 1].tag
  <2>1. nth[1] = n + 1
    BY <1>5, <1>11, <1>13
  <2>2. named[1] = p[n + 1]
    BY <1>6, <1>13, <2>1
  <2>3. mp[1] = [named[1] EXCEPT !.array = FALSE]
    BY <1>9, <1>13
  <2>4. DOMAIN p[n + 1] = {"tag", "array"}
    BY <1>1
  <2> HIDE DEF mp
  <2>5. QED
    BY <2>2, <2>3, <2>4
<1>14. QED
  BY <1>10, <1>11, <1>12, <1>13 DEF Names

\* The names of one segment are the names of the marked fields.
LEMMA MarkedNames ==
    ASSUME NEW t, FoundAsMeant(t), NEW key
    PROVE  (\E path \in Descriptors(Packages, t[1], SpecOf(t), "spec") : Names(path, key)) <=> key \in Marked(t)
<1> DEFINE L == LevelsFrom(t[1], SpecOf(t))
           I == InlinedFrom(t[1], SpecOf(t))
           IsMarked(f) == IsNamed(f) /\ "spec" \in f.descriptors
<1>1. MarkedChildrenOfField(Packages, t[1], SpecOf(t)) = UNION {L[n] : n \in 1 .. MaxDepth}
  BY DEF MarkedChildrenOfField, LevelsFrom
<1>2. key \in Marked(t) <=>
        \E n \in 1 .. MaxDepth : \E pf \in FieldsOf(I[n - 1]) : IsMarked(pf[2]) /\ key = NameOf(pf[2])
  <2> DEFINE All == {pf[2] : pf \in UNION {FieldsOf(I[n - 1]) : n \in 1 .. MaxDepth}}
             Asked(f) == f.exported /\ ~f.embedded /\ NameOf(f) \notin {"inline", "ignore"} /\ "spec" \in f.descriptors
  <2>1. Marked(t) = {NameOf(f) : f \in {f \in All : Asked(f)}}
    BY DEF Marked, InlinedFrom
  <2>2. \A f : Asked(f) <=> IsMarked(f)
    BY DEF IsNamed
  <2> HIDE DEF Asked, IsMarked, I
  <2>3. \A f : f \in All <=> \E n \in 1 .. MaxDepth : \E pf \in FieldsOf(I[n - 1]) : f = pf[2]
    OBVIOUS
  <2> HIDE DEF All
  <2>4. QED
    BY <2>1, <2>2, <2>3
<1>3. \A n \in 1 .. MaxDepth : n - 1 \in Nat /\ n - 1 \in 0 .. MaxDepth /\ n \in 0 .. MaxDepth /\ (n - 1) + 1 = n
  BY DepthAssumption
<1>4. \A n \in 0 .. MaxDepth :
        /\ \A at \in L[n] : IsPath(at.path, n) /\ (Through(at.path, n) => \E pf \in I[n] : pf[2] = at.field)
        /\ \A pf \in I[n] : /\ \E at \in L[n] : at.field = pf[2] /\ Through(at.path, n)
                            /\ TypesFound(Packages, t[1], pf[2]) = TypesMeant(pf[1], pf[2])
  BY AllLevels DEF IsLevel, FoundAsMeant
<1>5. \A n \in 1 .. MaxDepth : L[n] = UNION {Below(Packages, t[1], at) : at \in L[n - 1]}
  BY LevelsDefined
<1> DEFINE Ds == Descriptors(Packages, t[1], SpecOf(t), "spec")
<1>6. \A path : path \in Ds <=> \E n \in 1 .. MaxDepth : \E at \in L[n] :
        "spec" \in at.field.descriptors /\ HasPath(at.path) /\ path = MakePath(at.path)
  <2> HIDE DEF L
  <2>1. QED
    BY <1>1 DEF Descriptors
<1> HIDE DEF L, I, Ds
<1>7. ASSUME NEW path \in Ds, Names(path, key) PROVE key \in Marked(t)
  <2>1. PICK n \in 1 .. MaxDepth : \E at \in L[n] :
            "spec" \in at.field.descriptors /\ HasPath(at.path) /\ path = MakePath(at.path)
    BY <1>6, <1>7
  <2>2. PICK at \in L[n] : "spec" \in at.field.descriptors /\ HasPath(at.path) /\ path = MakePath(at.path)
    BY <2>1
  <2> DEFINE k == n - 1
  <2>3. k \in Nat /\ k \in 0 .. MaxDepth /\ n \in 0 .. MaxDepth /\ k + 1 = n
    BY <1>3
  <2>4. PICK up \in L[k] : at \in Below(Packages, t[1], up)
    BY <1>5
  <2> HIDE DEF k
  <2>5. PICK f : at = [field |-> f, path |-> Longer(up.path, f)]
    BY <2>4, PathsBelow
  <2>6. at.field = f /\ at.path = Longer(up.path, f)
    BY <2>5
  <2>7. IsPath(up.path, k) /\ (Through(up.path, k) => \E pf \in I[k] : pf[2] = up.field)
    BY <1>4, <2>3, <2>4
  <2>8. /\ IsPath(at.path, k + 1) /\ at.path[k + 1] = Segment(f)
        /\ \A i \in 1 .. k : at.path[i] = up.path[i]
    BY <2>3, <2>6, <2>7, LongerPath
  <2>9. Through(at.path, k) /\ at.path[k + 1].tag = key
    BY <1>7, <2>2, <2>3, <2>8, ShortPaths
  <2>10. \E g \in FieldsOf(I[k]) : g[2] = f
    <3>1. Through(up.path, k)
      BY <2>8, <2>9 DEF Through
    <3>2. PICK pf \in I[k] : pf[2] = up.field
      BY <2>7, <3>1
    <3>3. TypesFound(Packages, t[1], pf[2]) = TypesMeant(pf[1], pf[2])
      BY <1>4, <2>3
    <3>4. PICK g \in FieldsOf({pf}) : at = [field |-> g[2], path |-> Longer(up.path, g[2])]
      BY <2>4, <3>2, <3>3, FieldsBelow
    <3>5. g[2] = f /\ g \in FieldsOf(I[k])
      BY <2>6, <3>4, FieldsOfEach
    <3>6. QED
      BY <3>5
  <2>11. Segment(f).tag \notin {"inline", "ignore"}
    <3>1. Len(at.path) = k + 1 /\ k + 1 \in DOMAIN at.path
      BY <2>3, <2>8, LenProperties DEF IsPath
    <3>2. QED
      BY <2>2, <2>8, <3>1 DEF HasPath, Last
  <2>12. IsMarked(f) /\ key = NameOf(f)
    BY <2>2, <2>6, <2>8, <2>9, <2>11, Segments
  <2> HIDE DEF IsMarked
  <2>13. QED
    BY <1>2, <2>10, <2>12 DEF k
<1>8. ASSUME key \in Marked(t) PROVE \E path \in Ds : Names(path, key)
  <2>1. PICK n \in 1 .. MaxDepth : \E pf \in FieldsOf(I[n - 1]) : IsMarked(pf[2]) /\ key = NameOf(pf[2])
    BY <1>2, <1>8
  <2> DEFINE k == n - 1
  <2>2. PICK pf \in FieldsOf(I[k]) : IsMarked(pf[2]) /\ key = NameOf(pf[2])
    BY <2>1
  <2> DEFINE f == pf[2]
  <2>3. k \in Nat /\ k \in 0 .. MaxDepth /\ k + 1 = n
    BY <1>3
  <2>4. L[n] = UNION {Below(Packages, t[1], at) : at \in L[k]}
    BY <1>5
  <2> HIDE DEF k
  <2>5. PICK g \in I[k] : pf \in FieldsOf({g})
    BY FieldsOfEach
  <2>6. PICK up \in L[k] : up.field = g[2] /\ Through(up.path, k)
    BY <1>4, <2>3
  <2>7. IsPath(up.path, k) /\ TypesFound(Packages, t[1], g[2]) = TypesMeant(g[1], g[2])
    BY <1>4, <2>3
  <2> DEFINE at == [field |-> f, path |-> Longer(up.path, f)]
  <2>8. at.field = f /\ at.path = Longer(up.path, f) /\ at \in Below(Packages, t[1], up)
    BY <2>5, <2>6, <2>7, FieldsBelow
  <2> HIDE DEF at, f
  <2>9. at \in L[n]
    BY <2>4, <2>8
  <2>10. /\ IsPath(at.path, k + 1) /\ at.path[k + 1] = Segment(f)
         /\ \A i \in 1 .. k : at.path[i] = up.path[i]
    BY <2>3, <2>7, <2>8, LongerPath
  <2>11. Segment(f).tag = key /\ Segment(f).tag \notin {"inline", "ignore"}
    BY <2>2, Segments DEF f
  <2>12. Through(at.path, k)
    BY <2>6, <2>10 DEF Through
  <2>13. HasPath(at.path)
    <3>1. Len(at.path) = k + 1 /\ DOMAIN at.path = 1 .. k + 1
      BY <2>3, <2>10, LenProperties DEF IsPath
    <3>2. \A i \in 1 .. k + 1 : i = k + 1 \/ i \in 1 .. k
      BY <2>3
    <3>3. QED
      BY <2>10, <2>11, <2>12, <3>1, <3>2 DEF HasPath, Last, Through
  <2>14. Names(MakePath(at.path), key)
    BY <2>3, <2>10, <2>11, <2>12, <2>13, ShortPaths
  <2>15. MakePath(at.path) \in Ds
    BY <1>6, <2>2, <2>8, <2>9, <2>13 DEF f
  <2>16. QED
    BY <2>14, <2>15
<1>9. QED
  BY <1>7, <1>8 DEF Ds

----------------------------------------------------------------------------
(* A refreshed base                                                        *)

\* Every type is described, and by the description that is read from it only.
Describes(owned, types) ==
    \A t \in types :
        LET d == BuildCRDDescription(Packages, t)
        IN  d \in ToSet(owned) /\ \A e \in ToSet(owned) : KeyOf(e) = KeyOf(d) => e = d

\* The CSV is one of the operator.
IsOwn(b) == b # <<>> => b.name[1] = Operator

\* "generate kustomize manifests" was run for the base, if it is remembered,
\* and whatever was edited since, its types are described.
IsRefreshed(b, on) ==
    on = <<>> \/ \E p \in SUBSET Features :
        on = [of |-> p] /\ b # <<>> /\ Describes(b.owned, KindTypes(Packages, GVKsOf(p)))

LEMMA GetDescribes ==
    ASSUME NEW b, IsBase(b), NEW p \in SUBSET Features, NEW prompted, NEW answer
    PROVE  Describes(GetBase(b, Operator, Packages, GVKsOf(p), prompted, answer).owned,
                     KindTypes(Packages, GVKsOf(p)))
<1> DEFINE types == KindTypes(Packages, GVKsOf(p))
           old   == IF b = <<>> THEN <<>> ELSE b.owned
           new   == GetBase(b, Operator, Packages, GVKsOf(p), prompted, answer).owned
           desc(t) == BuildCRDDescription(Packages, t)
<1>1. types \in SUBSET AllKinds /\ IsFiniteSet(types)
  BY ProjectKinds
<1>2. /\ old \in Seq(ToSet(old))
      /\ new = UpdateDefinitionsByKey(old, Packages, types) \/ types = {}
  BY BaseUpdated
<1>3. \A t \in types : DescToGVK(desc(t)) = GVKAt(Packages, t)
  BY <1>1, KindFacts
<1>4. \A t, u \in types : GVKAt(Packages, t) = GVKAt(Packages, u) => t = u
  BY <1>1, KindFacts
<1>5. \A d, e : KeyOf(d) = KeyOf(e) => DescToGVK(d) = DescToGVK(e)
  BY DEF KeyOf, DescToGVK
<1> HIDE DEF types, old, new, desc
<1>6. SUFFICES ASSUME NEW t \in types
               PROVE  desc(t) \in ToSet(new) /\ \A e \in ToSet(new) : KeyOf(e) = KeyOf(desc(t)) => e = desc(t)
  BY DEF Describes, types, new, desc
<1>7. new = UpdateDefinitionsByKey(old, Packages, types)
  BY <1>2
<1>8. /\ \A k \in With(new, types) : \E u \in types : new[k] = desc(u)
      /\ \E k \in With(new, types) : new[k] = desc(t)
  BY <1>1, <1>2, <1>7, EachDescribed DEF desc
<1>9. desc(t) \in ToSet(new)
  BY <1>8 DEF With, ToSet
<1>10. ASSUME NEW e \in ToSet(new), KeyOf(e) = KeyOf(desc(t)) PROVE e = desc(t)
  <2>1. PICK k \in DOMAIN new : e = new[k]
    BY DEF ToSet
  <2>2. DescToGVK(e) = GVKAt(Packages, t)
    BY <1>3, <1>5, <1>10
  <2>3. k \in With(new, types)
    BY <2>1, <2>2 DEF With, KindsOf
  <2>4. PICK u \in types : e = desc(u)
    BY <1>8, <2>1, <2>3
  <2>5. u = t
    BY <1>3, <1>4, <2>2, <2>4
  <2>6. QED
    BY <2>4, <2>5
<1>11. QED
  BY <1>9, <1>10

LEMMA CSVFilled == ASSUME NEW b, IsCSV(b) PROVE b # <<>>
<1>1. "kind" \in DOMAIN b
  BY DEF IsCSV, NewBase
<1>2. DOMAIN <<>> = {}
  OBVIOUS
<1>3. QED
  BY <1>1, <1>2

\* A description of something else changes nothing.
LEMMA AppendDescribes ==
    ASSUME NEW owned, owned \in Seq(ToSet(owned)), NEW types, Describes(owned, types),
           NEW x, KeyOf(x) \notin {KeyOf(d) : d \in ToSet(owned)}
    PROVE  Describes(Append(owned, x), types)
<1> DEFINE T   == ToSet(owned) \cup {x}
           new == Append(owned, x)
<1>1. owned \in Seq(T) /\ x \in T
  BY SeqMonotonic
<1>2. \A d : d \in ToSet(owned) => d \in T
  OBVIOUS
<1> HIDE DEF T
<1>3. /\ new \in Seq(T) /\ Len(new) = Len(owned) + 1
      /\ \A i \in 1 .. Len(owned) : new[i] = owned[i]
  BY <1>1, AppendProperties
<1>4. /\ DOMAIN owned = 1 .. Len(owned) /\ Len(owned) \in Nat
      /\ DOMAIN new = 1 .. Len(owned) + 1
  BY <1>1, <1>3, LenProperties
<1> HIDE DEF new
<1>5. ToSet(owned) \subseteq ToSet(new)
  BY <1>3, <1>4 DEF ToSet
<1>6. ToSet(new) \subseteq T
  BY <1>3, SeqToSet
<1>7. ASSUME NEW t \in types
      PROVE  LET d == BuildCRDDescription(Packages, t)
             IN  d \in ToSet(new) /\ \A e \in ToSet(new) : KeyOf(e) = KeyOf(d) => e = d
  <2> DEFINE d == BuildCRDDescription(Packages, t)
  <2>1. d \in ToSet(owned) /\ \A e \in ToSet(owned) : KeyOf(e) = KeyOf(d) => e = d
    BY DEF Describes
  <2> HIDE DEF d
  <2>2. KeyOf(x) # KeyOf(d)
    BY <2>1
  <2>3. QED
    BY <1>5, <1>6, <2>1, <2>2 DEF T, d
<1>8. QED
  BY <1>7 DEF Describes, new

\* A base is one of the operator, wherever it comes from.
LEMMA GetOwn ==
    ASSUME NEW b, IsBase(b), IsOwn(b), NEW pkgs, NEW gvks, NEW prompted, NEW answer
    PROVE  GetBase(b, Operator, pkgs, gvks, prompted, answer).name[1] = Operator
<1> DEFINE old  == IF b = <<>> THEN NewBase(Operator) ELSE Migrated(b, Operator)
           told == IF prompted THEN RunInteractivePrompt(old, answer) ELSE old
           owned == UpdateDefinitionsByKey(told.owned, pkgs, KindTypes(pkgs, gvks))
<1>1. \A version : MakeCSVName(Operator, version)[1] = Operator
  BY DEF MakeCSVName
<1>2. IsCSV(old) /\ old.name[1] = Operator
  BY <1>1, NewBaseCSV DEF IsBase, IsOwn, Migrated, IsCSV, NewBase
<1> HIDE DEF old
<1>3. DOMAIN told = DOMAIN old /\ told.name[1] = Operator
  BY <1>2 DEF RunInteractivePrompt, IsCSV, NewBase
<1>4. "name" \in DOMAIN old
  BY <1>2 DEF IsCSV, NewBase
<1>5. GetBase(b, Operator, pkgs, gvks, prompted, answer) = IF pkgs = <<>> THEN told ELSE [told EXCEPT !.owned = owned]
  BY DEF GetBase, old
<1> HIDE DEF told, owned
<1>6. [told EXCEPT !.owned = owned].name = told.name
  BY <1>3, <1>4
<1>7. QED
  BY <1>3, <1>5, <1>6

\* Where the API types are not read, it is the base there is.
LEMMA GetKept ==
    ASSUME NEW b, IsBase(b), b # <<>>, IsOwn(b)
    PROVE  LET g == GetBase(b, Operator, <<>>, {}, FALSE, "")
           IN  g.name[1] = Operator /\ g.owned = b.owned
<1> DEFINE g == GetBase(b, Operator, <<>>, {}, FALSE, "")
<1>1. \A version : MakeCSVName(Operator, version)[1] = Operator
  BY DEF MakeCSVName
<1>2. g = Migrated(b, Operator)
  BY DEF GetBase
<1> HIDE DEF g
<1>3. g.name[1] = Operator /\ g.owned = b.owned
  BY <1>1, <1>2 DEF IsBase, IsOwn, Migrated, IsCSV, NewBase
<1>4. QED
  BY <1>3 DEF g

\* A CSV is made from the operator's base where no other is printed.
LEMMA BaseTaken ==
    ASSUME NEW p \in SUBSET Features, \A o \in Printed(p) : o.kind # "ClusterServiceVersion",
           NEW b, IsBase(b), b # <<>>, IsOwn(b), NEW mode
    PROVE  BaseOf(Collected(p, b, mode), Operator).owned = b.owned
<1> DEFINE CSV  == "ClusterServiceVersion"
           s    == Stream(p, b, mode)
           from == CollectedFrom(p, b, mode)
           c    == Collected(p, b, mode)
           get  == GetBase(b, Operator, <<>>, {}, FALSE, "")
           Taken(x) == x.name[1] = Operator /\ x.owned = b.owned
<1>1. DOMAIN from = Fields /\ Sorted(from[CSV], CSV, ToSet(s))
  BY StreamCollected DEF Plain, Fields, Kinds
<1>2. \A o \in ToSet(s) : o \in Printed(p) \/ o = b
  BY StreamSeq
<1>3. Taken(b) /\ Taken(get)
  <2>1. get.name[1] = Operator /\ get.owned = b.owned
    BY GetKept
  <2>2. QED
    BY <2>1 DEF IsOwn
<1>4. c = IF from[CSV] = <<>> /\ b # <<>> THEN [from EXCEPT ![CSV] = <<get>>] ELSE from
  BY DEF Collected, CollectedFrom
<1>5. c[CSV] \in Seq(ToSet(c[CSV]))
  BY CollectedSorted
<1> HIDE DEF s, from, c, get, Taken
<1>6. \A o : FieldOf(o) = CSV => o.kind = CSV
  BY DEF FieldOf
<1>7. \A o \in ToSet(from[CSV]) : Taken(o)
  BY <1>1, <1>2, <1>3, <1>6 DEF Sorted
<1>8. CSV \in Fields
  BY DEF Fields, Kinds
<1>9. c[CSV] # <<>> /\ \A o \in ToSet(c[CSV]) : Taken(o)
  <2>1. CASE from[CSV] = <<>>
    <3>1. c[CSV] = <<get>>
      BY <1>1, <1>4, <1>8, <2>1
    <3>2. QED
      BY <1>3, <3>1 DEF ToSet
  <2>2. CASE from[CSV] # <<>>
    BY <1>4, <1>7, <2>2
  <2>3. QED
    BY <2>1, <2>2
<1> DEFINE all == c[CSV]
           at  == {i \in DOMAIN all : all[i].name[1] = Operator}
           own == Where(all, LAMBDA x : x.name[1] = Operator)
<1>10. own = Filtered(all, at)
  BY DEF Where
<1>11. BaseOf(c, Operator) = IF own = <<>> THEN NewBase(Operator) ELSE own[1]
  BY DEF BaseOf
<1> HIDE DEF own, all
<1>12. own \in Seq(ToSet(all)) /\ ToSet(own) = {all[i] : i \in at}
  BY <1>5, <1>10, FilteredSeq DEF all
<1>13. 1 \in at
  <2>1. DOMAIN all = 1 .. Len(all) /\ Len(all) \in Nat /\ Len(all) # 0
    BY <1>5, <1>9, LenProperties, EmptySeq DEF all
  <2>2. 1 \in DOMAIN all
    BY <2>1
  <2>3. all[1] \in ToSet(all)
    BY <2>2 DEF ToSet
  <2>4. QED
    BY <1>9, <2>2, <2>3 DEF Taken, all
<1> HIDE DEF at
<1>14. own # <<>> /\ own[1] \in ToSet(own)
  <2>1. ToSet(own) # {}
    BY <1>12, <1>13
  <2>2. DOMAIN own = 1 .. Len(own) /\ Len(own) \in Nat
    BY <1>12, LenProperties
  <2>3. 1 \in DOMAIN own
    BY <2>1, <2>2 DEF ToSet
  <2>4. QED
    BY <2>3 DEF ToSet
<1>15. own[1] \in ToSet(all)
  BY <1>12, <1>14, SeqToSet
<1>16. QED
  BY <1>9, <1>11, <1>14, <1>15 DEF Taken, c, all

\* A generated CSV is one of the operator, with the descriptions of its base.
IsMade(t, c, extra) == t.name[1] = Operator /\ IsApplied(t, c, Accounts(c, extra), BaseOf(c, Operator).owned)

LEMMA GeneratedOwn ==
    ASSUME NEW p \in SUBSET Features, NEW b, IsBase(b), NEW mode,
           NEW version, NEW from, NEW images, NEW extra
    PROVE  LET c == Collected(p, b, mode)
           IN  IsMade(Generated(c, Operator, version, from, images, extra), c, extra)
<1> DEFINE c     == Collected(p, b, mode)
           t     == Generated(c, Operator, version, from, images, extra)
           all   == c["ClusterServiceVersion"]
           own   == Where(all, LAMBDA x : x.name[1] = Operator)
           start == BaseOf(c, Operator)
           named == IF version = "" THEN start
                    ELSE [start EXCEPT !.name = MakeCSVName(Operator, version), !.version = version]
           next  == IF from = "" THEN named ELSE [named EXCEPT !.replaces = MakeCSVName(Operator, from)]
           n     == [next EXCEPT !.relatedImages = images]
<1>1. all \in Seq(ToSet(all)) /\ IsCSV(start)
  BY CollectedSorted, BaseOfCSV
<1>2. IsGenerated(t, c, version, from, images, extra) /\ IsCollection(c)
  BY GeneratedCSV, CollectedPrinted
<1>3. start = IF own = <<>> THEN NewBase(Operator) ELSE own[1]
  BY DEF BaseOf
<1>4. n = Named(c, version, from, images)
  BY DEF Named
<1>5. \A v : MakeCSVName(Operator, v)[1] = Operator
  BY DEF MakeCSVName
<1>6. start.name[1] = Operator
  <2> DEFINE at == {i \in DOMAIN all : all[i].name[1] = Operator}
  <2>1. own = Filtered(all, at)
    BY DEF Where
  <2> HIDE DEF own, start, c
  <2>2. own \in Seq(ToSet(all)) /\ ToSet(own) = {all[i] : i \in at}
    BY <1>1, <2>1, FilteredSeq
  <2>3. own # <<>> => own[1] \in ToSet(own)
    <3>1. DOMAIN own = 1 .. Len(own) /\ Len(own) \in Nat /\ (own # <<>> => Len(own) # 0)
      BY <2>2, LenProperties, EmptySeq
    <3>2. QED
      BY <3>1 DEF ToSet
  <2>4. own # <<>> => own[1].name[1] = Operator
    BY <2>2, <2>3
  <2>5. NewBase(Operator).name[1] = Operator
    BY <1>5 DEF NewBase
  <2>6. QED
    BY <1>3, <2>4, <2>5
<1> HIDE DEF c, t, start
<1>7. IsCSV(named) /\ named.name[1] = Operator /\ named.owned = start.owned
  BY <1>1, <1>5, <1>6 DEF IsCSV, NewBase
<1> HIDE DEF named
<1>8. IsCSV(next) /\ next.name[1] = Operator /\ next.owned = start.owned
  BY <1>7 DEF IsCSV, NewBase
<1> HIDE DEF next
<1>9. n.name[1] = Operator /\ n.owned = start.owned
  BY <1>8 DEF IsCSV, NewBase
<1> HIDE DEF n
<1>10. t = Apply(c, n, Accounts(c, extra)) /\ IsCSV(n)
  BY <1>2, <1>4 DEF IsGenerated
<1>11. t.name = n.name /\ IsApplied(t, c, Accounts(c, extra), n.owned)
  BY <1>2, <1>10, Applied
<1>12. QED
  BY <1>9, <1>11 DEF c, t, start, IsMade

----------------------------------------------------------------------------
(* What is in the files of a bundle                                        *)

\* The kinds that a bundle may hold.
AppliedKinds == Supported \cup {"CustomResourceDefinition", "Service", "ServiceAccount", "Role", "ClusterRole",
                                "RoleBinding", "ClusterRoleBinding"}

\* Nothing else is written.
LEMMA WrittenOnly ==
    ASSUME NEW dir, NEW objs, NEW f \in DOMAIN WriteObjectsToFiles(dir, objs)
    PROVE  LET o == WriteObjectsToFiles(dir, objs)[f]
           IN  o \in ToSet(objs) \/ (f \in DOMAIN dir /\ o = dir[f])
<1> DEFINE written == {FileAt(objs, i) : i \in DOMAIN objs}
           files == WriteObjectsToFiles(dir, objs)
           First == CHOOSE i \in DOMAIN objs : FileAt(objs, i) = f
<1>1. files = [g \in DOMAIN dir \cup written |->
        IF g \in written THEN objs[CHOOSE i \in DOMAIN objs : FileAt(objs, i) = g] ELSE dir[g]]
  BY DEF WriteObjectsToFiles
<1>2. f \in DOMAIN dir \cup written /\ files[f] = IF f \in written THEN objs[First] ELSE dir[f]
  BY <1>1
<1>3. f \in written => First \in DOMAIN objs
  OBVIOUS
<1> HIDE DEF written, files, First
<1>4. QED
  BY <1>2, <1>3 DEF ToSet, files

\* The CRDs among them are those collected, and the kinds of all are applied.
LEMMA ObjectsApplied ==
    ASSUME NEW c, IsCollection(c), NEW accounts, NEW o \in ToSet(GetManifestObjects(c, accounts))
    PROVE  o.kind \in AppliedKinds /\ (o.kind = "CustomResourceDefinition" => o \in ToSet(CRDs(c)))
<1> DEFINE Rest == {"Service", "Role", "ClusterRole", "RoleBinding", "ClusterRoleBinding", "ServiceAccount"}
<1>1. \A f \in Plain \ {"ClusterServiceVersion"} : c[f] \in Seq(Everything)
  BY DEF IsCollection, Sorted
<1>2. \/ o \in ToSet(CRDs(c))
      \/ o \in ToSet(c["Others"]) /\ o.kind \in Supported
      \/ \E f \in Rest : o \in ToSet(c[f])
  <2>1. \/ o \in ToSet(CRDs(c)) \/ o \in ToSet(c["Service"])
        \/ o \in ToSet(c["Others"]) /\ o.kind \in Supported
        \/ o \in ToSet(c["Role"]) \cup ToSet(c["ClusterRole"])
        \/ o \in ToSet(c["RoleBinding"]) \cup ToSet(c["ClusterRoleBinding"])
        \/ o \in ToSet(c["ServiceAccount"])
    BY <1>1, ManifestObjects
  <2>2. QED
    BY <2>1
<1>3. \A f \in Rest : f \in Plain \ {"ClusterServiceVersion"}
  BY DEF Plain, Fields, Kinds
<1>4. ASSUME NEW f \in Rest, o \in ToSet(c[f]) PROVE o.kind = f
  <2>1. FieldOf(o) = f
    BY <1>3, <1>4 DEF IsCollection, Sorted
  <2>2. QED
    BY <2>1 DEF FieldOf
<1>5. o \in ToSet(CRDs(c)) => o.kind = "CustomResourceDefinition"
  BY CRDsCollected
<1>6. "CustomResourceDefinition" \notin Rest /\ "CustomResourceDefinition" \notin Supported
  BY DEF Supported
<1>7. AppliedKinds = Supported \cup Rest \cup {"CustomResourceDefinition"}
  BY DEF AppliedKinds
<1> HIDE DEF Rest
<1>8. QED
  BY <1>2, <1>4, <1>5, <1>6, <1>7

\* The bundle b is one that passed the generator's validation, made from a base
\* of the operator; a directory keeps what OLM applies only, and a new one
\* nothing but the command's objects.
MadeFrom(b, m) ==
    LET c == Collected(m.of, m.base, m.mode)
    IN  /\ IsOwn(m.base) /\ IsRefreshed(m.base, m.basedOn)
        /\ IsOwn(b.csv) /\ ValidCSV(b.csv)
        /\ \A f \in DOMAIN b.files : b.files[f].kind \in AppliedKinds
        /\ m.fresh => \A f \in DOMAIN b.files : b.files[f] \in ToSet(GetManifestObjects(c, Accounts(c, m.extra)))

\* What is remembered of the base and of the bundle is what they were made from.
ScoreInv ==
    /\ IsOwn(base) /\ IsRefreshed(base, made.base)
    /\ bundle # <<>> => MadeFrom(bundle, made.bundle)

LEMMA BundleMade ==
    ASSUME MadeInv, BaseInv, ScoreInv, NEW f \in BundleFlags,
           GenerateBundle(f.mode, f.version, {"alpha"}, f.overwrite, f.extra)
    PROVE  MadeFrom(bundle', made'.bundle)
<1> DEFINE c    == Collected(project, base, f.mode)
           csv  == CSVOfBundle(c, f.version, f.extra)
           objs == GetManifestObjects(c, Accounts(c, f.extra))
           old  == IF bundle = <<>> THEN [files |-> <<>>, config |-> FALSE, metadata |-> <<>>] ELSE bundle
           config == old.config \/ c["Configuration"] # <<>>
           files == WriteObjectsToFiles(old.files, objs)
           metadata == RunMetadata(old, f.mode, {"alpha"}, f.overwrite, config)
           m == [of |-> project, base |-> base, basedOn |-> made.base, mode |-> f.mode,
                 version |-> f.version, extra |-> f.extra, fresh |-> bundle = <<>>]
<1>1. project \in SUBSET Features /\ IsBase(base)
  BY DEF BaseInv
<1>2. /\ bundle' = [csv |-> csv, config |-> config, files |-> files, metadata |-> metadata]
      /\ made' = [made EXCEPT !.bundle = m]
      /\ Generates(c, csv, Accounts(c, f.extra))
  BY DEF GenerateBundle
<1>3. csv.name[1] = Operator /\ IsCollection(c)
  <2>1. IsMade(csv, c, f.extra)
    BY <1>1, GeneratedOwn DEF CSVOfBundle
  <2>2. IsCollection(c)
    BY <1>1, CollectedPrinted
  <2> HIDE DEF csv, c
  <2>3. QED
    BY <2>1, <2>2 DEF IsMade
<1>4. ValidCSV(csv)
  BY <1>2 DEF Generates
<1>5. /\ IsOwn(base) /\ IsRefreshed(base, made.base)
      /\ bundle # <<>> => \A g \in DOMAIN bundle.files : bundle.files[g].kind \in AppliedKinds
  BY DEF ScoreInv, MadeFrom
<1>6. /\ bundle = <<>> => DOMAIN old.files = {}
      /\ bundle # <<>> => old.files = bundle.files
  OBVIOUS
<1>7. \A o \in ToSet(objs) : o.kind \in AppliedKinds
  BY <1>3, ObjectsApplied
<1> HIDE DEF c, objs, old
<1>8. \A g \in DOMAIN files : files[g] \in ToSet(objs) \/ (g \in DOMAIN old.files /\ files[g] = old.files[g])
  BY WrittenOnly
<1>9. /\ m.of = project /\ m.base = base /\ m.basedOn = made.base /\ m.mode = f.mode /\ m.extra = f.extra
      /\ m.fresh <=> bundle = <<>>
  OBVIOUS
<1> HIDE DEF csv, config, files, metadata, m
<1>10. bundle'.csv = csv /\ bundle'.files = files /\ made'.bundle = m
  BY <1>2 DEF MadeInv
<1>11. \A g \in DOMAIN files : files[g].kind \in AppliedKinds
  BY <1>5, <1>6, <1>7, <1>8
<1>12. m.fresh => \A g \in DOMAIN files : files[g] \in ToSet(objs)
  BY <1>6, <1>8, <1>9
<1>13. IsOwn(csv)
  BY <1>3 DEF IsOwn
<1>14. objs = GetManifestObjects(Collected(m.of, m.base, m.mode), Accounts(Collected(m.of, m.base, m.mode), m.extra))
  BY <1>9 DEF objs, c
<1>15. QED
  BY <1>4, <1>5, <1>9, <1>10, <1>11, <1>12, <1>13, <1>14 DEF MadeFrom

\* A base keeps its name, and its types their descriptions, where it is edited.
LEMMA EditedScore ==
    ASSUME BaseInv, ScoreInv, EditBase
    PROVE  IsOwn(base') /\ IsRefreshed(base', made.base)
<1>1. IsCSV(base) /\ base # <<>>
  BY DEF BaseInv, IsBase, EditBase
<1>2. IsCSV(base')
  BY EditedBase
<1>3. base.name[1] = Operator /\ IsRefreshed(base, made.base)
  BY <1>1 DEF ScoreInv, IsOwn
<1>4. project \in SUBSET Features
  BY DEF BaseInv
<1> DEFINE keys == ToSet(Definitions(CRDs(Read(Objects[project]))))
           New(k) == [Described(k) EXCEPT !.about = "edited"]
<1>5. \/ base' = [base EXCEPT !.meta = "edited"] \/ base' = [base EXCEPT !.supported = FALSE]
      \/ base' = [base EXCEPT !.annotated = FALSE]
      \/ \E k \in keys \ {KeyOf(d) : d \in ToSet(base.owned)} : base' = [base EXCEPT !.owned = Append(base.owned, New(k))]
  BY DEF EditBase
<1>6. \A k \in keys : KeyOf(k) = k
  <2> DEFINE c == Read(Objects[project])
  <2>1. IsCollection(c)
    <3>1. Objects[project] \in Seq(Everything)
      BY <1>4, ObjectsPrinted, SeqMonotonic
    <3>2. \A g \in Plain : Sorted(c[g], g, Everything)
      <4>1. \A o \in ToSet(Objects[project]) : o \in Everything
        BY <1>4, ObjectsPrinted DEF Printed
      <4>2. QED
        BY <3>1, <4>1, ReadSorted DEF Sorted
    <3>3. QED
      BY <3>2 DEF IsCollection
  <2> HIDE DEF c
  <2>2. \A k \in ToSet(Definitions(CRDs(c))) : \E crd : k \in ToSet(ServedVersions(crd))
    BY <2>1, DefinitionsSeq
  <2>3. QED
    BY <2>2, KeyServed DEF c
<1>7. \A k : KeyOf(New(k)) = KeyOf(k)
  BY DEF KeyOf, Described
<1> HIDE DEF keys, New
<1>8. {"name", "owned", "meta", "supported", "annotated"} \subseteq DOMAIN base
  BY <1>1 DEF IsCSV, NewBase
<1>9. base'.name = base.name
  BY <1>5, <1>8
<1>10. \/ base'.owned = base.owned
       \/ \E x : KeyOf(x) \notin {KeyOf(d) : d \in ToSet(base.owned)} /\ base'.owned = Append(base.owned, x)
  BY <1>5, <1>6, <1>7, <1>8
<1>11. base' # <<>>
  BY <1>2, CSVFilled
<1>12. \A types : Describes(base.owned, types) => Describes(base'.owned, types)
  <2>1. base.owned \in Seq(ToSet(base.owned))
    BY <1>1 DEF IsCSV
  <2>2. QED
    BY <1>10, <2>1, AppendDescribes
<1>13. QED
  BY <1>3, <1>9, <1>11, <1>12 DEF IsOwn, IsRefreshed

LEMMA ScoreInvInit == Init => ScoreInv
<1> SUFFICES ASSUME Init PROVE ScoreInv
  OBVIOUS
<1>1. IsOwn(base)
  <2>1. MakeCSVName(Operator, "X.Y.Z")[1] = Operator
    BY DEF MakeCSVName
  <2>2. [NewBase(Operator) EXCEPT !.name = MakeCSVName(Operator, "X.Y.Z")].name = MakeCSVName(Operator, "X.Y.Z")
    BY DEF NewBase
  <2>3. QED
    BY <2>1, <2>2 DEF Init, IsOwn
<1>2. made.base = <<>> /\ bundle = <<>>
  BY DEF Init
<1>3. QED
  BY <1>1, <1>2 DEF ScoreInv, IsRefreshed

LEMMA ScoreInvNext == GenInv /\ ScoreInv /\ [Next]_vars => ScoreInv'
<1> SUFFICES ASSUME GenInv, ScoreInv, [Next]_vars PROVE ScoreInv'
  OBVIOUS
<1>0. MadeInv /\ BaseInv
  BY DEF GenInv
<1>1. ASSUME UNCHANGED <<base, bundle>>, made'.base = made.base, made'.bundle = made.bundle PROVE ScoreInv'
  BY <1>1 DEF ScoreInv
<1>2. ASSUME NEW f \in Features, EditProject(f) PROVE ScoreInv'
  BY <1>1, <1>2 DEF EditProject
<1>3. CASE EditBase
  <2>1. UNCHANGED <<bundle, made>>
    BY <1>3 DEF EditBase
  <2>2. IsOwn(base') /\ IsRefreshed(base', made.base)
    BY <1>0, <1>3, EditedScore
  <2>3. QED
    BY <2>1, <2>2 DEF ScoreInv
<1>4. CASE AdoptBase
  <2>1. base' = bundle.csv /\ bundle # <<>> /\ made' = [made EXCEPT !.base = <<>>] /\ UNCHANGED bundle
    BY <1>4 DEF AdoptBase
  <2>2. made'.base = <<>> /\ made'.bundle = made.bundle
    BY <1>0, <2>1 DEF MadeInv
  <2>3. IsOwn(base')
    BY <2>1 DEF ScoreInv, MadeFrom
  <2>4. IsRefreshed(base', made'.base)
    BY <2>2 DEF IsRefreshed
  <2>5. QED
    BY <2>1, <2>2, <2>3, <2>4 DEF ScoreInv
<1>5. ASSUME NEW v \in VersionSet, NEW n \in 1 .. 2, AddConfigs(v, n) PROVE ScoreInv'
  BY <1>1, <1>5 DEF AddConfigs
<1>6. CASE RemoveBundles
  <2>1. made' = [made EXCEPT !.migrated = FALSE] /\ UNCHANGED <<base, bundle>>
    BY <1>6 DEF RemoveBundles
  <2>2. made'.base = made.base /\ made'.bundle = made.bundle
    BY <1>0, <2>1 DEF MadeInv
  <2>3. QED
    BY <1>1, <2>1, <2>2
<1>7. ASSUME NEW level \in {"default", "off", "on"}, GenerateKustomize(level) PROVE ScoreInv'
  <2> DEFINE prompted == RequiresInteraction(base # <<>>, level)
             get == GetBase(base, Operator, Packages, GVKsOf(project), prompted, "answered")
  <2>1. base' = get /\ made' = [made EXCEPT !.base = [of |-> project]] /\ UNCHANGED bundle
    BY <1>7 DEF GenerateKustomize
  <2>2. made'.base = [of |-> project] /\ made'.bundle = made.bundle
    BY <1>0, <2>1 DEF MadeInv
  <2>3. project \in SUBSET Features /\ IsBase(base) /\ IsOwn(base)
    BY <1>0 DEF BaseInv, ScoreInv
  <2> HIDE DEF prompted
  <2>4. Describes(get.owned, KindTypes(Packages, GVKsOf(project)))
    BY <2>3, GetDescribes
  <2>5. get.name[1] = Operator
    BY <2>3, GetOwn
  <2>6. get # <<>>
    BY <2>3, GetBaseCSV, CSVFilled
  <2> HIDE DEF get
  <2>7. IsOwn(base') /\ IsRefreshed(base', made'.base)
    BY <2>1, <2>2, <2>3, <2>4, <2>5, <2>6 DEF IsOwn, IsRefreshed
  <2>8. QED
    BY <2>1, <2>2, <2>7 DEF ScoreInv
<1>8. ASSUME NEW f \in BundleFlags, GenerateBundle(f.mode, f.version, {"alpha"}, f.overwrite, f.extra) PROVE ScoreInv'
  <2>1. (\E m : made' = [made EXCEPT !.bundle = m]) /\ UNCHANGED base
    BY <1>8 DEF GenerateBundle
  <2>2. made'.base = made.base
    BY <1>0, <2>1 DEF MadeInv
  <2>3. MadeFrom(bundle', made'.bundle)
    BY <1>0, <1>8, BundleMade
  <2>4. QED
    BY <2>1, <2>2, <2>3 DEF ScoreInv
<1>9. ASSUME NEW f \in {f \in PackageFlags : ValidFlags(f)},
             GeneratePackage(f.mode, f.version, f.from, f.channel, f.isDefault)
      PROVE  ScoreInv'
  <2>1. /\ \E failed, heads : made' = [made EXCEPT !.failed = failed, !.heads = heads, !.migrated = FALSE]
        /\ UNCHANGED <<base, bundle>>
    BY <1>9 DEF GeneratePackage
  <2>2. made'.base = made.base /\ made'.bundle = made.bundle
    BY <1>0, <2>1 DEF MadeInv
  <2>3. QED
    BY <1>1, <2>1, <2>2
<1>10. ASSUME NEW n \in DOMAIN Versions, Migrate(n) PROVE ScoreInv'
  <2>1. (\E migrated : made' = [made EXCEPT !.migrated = migrated]) /\ UNCHANGED <<base, bundle>>
    BY <1>10 DEF Migrate
  <2>2. made'.base = made.base /\ made'.bundle = made.bundle
    BY <1>0, <2>1 DEF MadeInv
  <2>3. QED
    BY <1>1, <2>1, <2>2
<1>11. CASE UNCHANGED vars
  BY <1>1, <1>11 DEF vars
<1>12. QED
  BY <1>2, <1>3, <1>4, <1>5, <1>6, <1>7, <1>8, <1>9, <1>10, <1>11 DEF Next

----------------------------------------------------------------------------
(* What the scorecard says                                                 *)

\* The CSV of a bundle describes the definitions with what its base has of them.
LEMMA BundleOwned ==
    ASSUME BundleInv, bundle # <<>>
    PROVE  LET m == made.bundle
               c == Collected(m.of, m.base, m.mode)
           IN  /\ m.of \in SUBSET Features /\ IsBase(m.base) /\ IsCollection(c)
               /\ bundle.csv.owned = DescriptionsOfBase(c, BaseOf(c, Operator).owned)
<1> DEFINE m == made.bundle
           c == Collected(m.of, m.base, m.mode)
<1>1. m.of \in SUBSET Features /\ IsBase(m.base) /\ bundle.csv = CSVOfBundle(c, m.version, m.extra)
  BY DEF BundleInv, IsBundle
<1> HIDE DEF m
<1>2. IsMade(bundle.csv, c, m.extra)
  BY <1>1, GeneratedOwn DEF CSVOfBundle
<1>3. IsCollection(c)
  BY <1>1, CollectedPrinted
<1> HIDE DEF c
<1>4. QED
  BY <1>1, <1>2, <1>3 DEF IsMade, IsApplied, c, m

\* What a base has of a definition, if anything, is what the CSV says of it.
LEMMA TakenFromBase ==
    ASSUME NEW c, IsCollection(c), NEW owned, owned \in Seq(ToSet(owned)),
           NEW d \in ToSet(DescriptionsOfBase(c, owned)), NEW e \in ToSet(owned), KeyOf(d) = KeyOf(e)
    PROVE  d \in ToSet(owned)
<1> DEFINE keys == Definitions(CRDs(c))
<1>1. PICK i \in DOMAIN keys : d = DescriptionsOfBase(c, owned)[i]
  BY DescribedSeq DEF ToSet
<1> DEFINE k  == keys[i]
           of == Of(owned, k)
           at == {j \in DOMAIN owned : KeyOf(owned[j]) = KeyOf(k)}
<1>2. d = IF of = <<>> THEN Described(k) ELSE Last(of)
  BY <1>1 DEF DescriptionsOfBase
<1>3. KeyOf(e) = KeyOf(k)
  BY <1>1, KeysOfDescriptions
<1>4. of = Filtered(owned, at)
  BY DEF Of, Where
<1> HIDE DEF k, keys, of
<1>5. of \in Seq(ToSet(owned)) /\ ToSet(of) = {owned[j] : j \in at}
  BY <1>4, FilteredSeq
<1>6. e \in ToSet(of)
  <2>1. PICK j \in DOMAIN owned : e = owned[j]
    BY DEF ToSet
  <2>2. QED
    BY <1>3, <1>5, <2>1
<1>7. DOMAIN of = 1 .. Len(of) /\ Len(of) \in Nat
  BY <1>5, LenProperties
<1>8. Len(of) \in DOMAIN of /\ of # <<>>
  <2>1. DOMAIN of # {}
    BY <1>6 DEF ToSet
  <2>2. Len(of) # 0
    BY <1>7, <2>1
  <2>3. QED
    BY <1>7, <2>1, <2>2
<1>9. Last(of) \in ToSet(of)
  BY <1>8 DEF Last, ToSet
<1>10. QED
  BY <1>2, <1>5, <1>8, <1>9, SeqToSet

\* What such a CSV owns is described as its type is.
LEMMA OwnedTypes ==
    ASSUME BundleInv, ScoreInv, bundle # <<>>, FromTypes, NEW d \in ToSet(bundle.csv.owned)
    PROVE  \E t \in ProjectTypes : d = BuildCRDDescription(Packages, t)
<1> DEFINE m == made.bundle
           c == Collected(m.of, m.base, m.mode)
           desc(t) == BuildCRDDescription(Packages, t)
<1>1. /\ m.of \in SUBSET Features /\ IsBase(m.base) /\ IsCollection(c)
      /\ bundle.csv.owned = DescriptionsOfBase(c, BaseOf(c, Operator).owned)
  BY BundleOwned
<1>2. IsOwn(m.base) /\ IsRefreshed(m.base, m.basedOn)
  BY DEF ScoreInv, MadeFrom
<1>3. /\ m.basedOn = [of |-> m.of]
      /\ \A o \in Printed(m.of) : o.kind # "ClusterServiceVersion"
  BY DEF FromTypes, Printed
<1>4. PICK t \in ProjectTypes : KeyOf(d) = KeyOf(desc(t))
  BY DEF FromTypes
<1>5. ProjectTypes = KindTypes(Packages, GVKsOf(m.of))
  BY DEF ProjectTypes
<1> HIDE DEF m
<1>6. m.base # <<>> /\ Describes(m.base.owned, ProjectTypes)
  <2>1. m.basedOn # <<>>
    <3>1. "of" \in DOMAIN m.basedOn /\ DOMAIN <<>> = {}
      BY <1>3
    <3>2. QED
      BY <3>1
  <2>2. PICK p \in SUBSET Features :
          m.basedOn = [of |-> p] /\ m.base # <<>> /\ Describes(m.base.owned, KindTypes(Packages, GVKsOf(p)))
    BY <1>2, <2>1 DEF IsRefreshed
  <2>3. p = m.of
    BY <1>3, <2>2
  <2>4. QED
    BY <1>5, <2>2, <2>3
<1>7. BaseOf(c, Operator).owned = m.base.owned
  BY <1>1, <1>2, <1>3, <1>6, BaseTaken
<1> HIDE DEF c, desc
<1>8. m.base.owned \in Seq(ToSet(m.base.owned))
  BY <1>1, <1>6 DEF IsBase, IsCSV
<1>9. desc(t) \in ToSet(m.base.owned) /\ \A e \in ToSet(m.base.owned) : KeyOf(e) = KeyOf(desc(t)) => e = desc(t)
  BY <1>6 DEF Describes, desc
<1>10. d \in ToSet(m.base.owned)
  BY <1>1, <1>4, <1>7, <1>8, <1>9, TakenFromBase
<1>11. QED
  BY <1>4, <1>9, <1>10 DEF desc

\* An example has a described spec exactly if its fields are marked.
LEMMA ExampleDescribed ==
    ASSUME BaseInv, BundleInv, ScoreInv, bundle # <<>>, FromTypes, Unambiguous,
           \A t \in ProjectTypes : FoundAsMeant(t), NEW cr \in ToSet(bundle.csv.examples)
    PROVE  SpecDescribed(cr, bundle.csv) <=> cr.hasSpec /\ \A t \in TypesOf(cr) : cr.spec \subseteq Marked(t)
<1> DEFINE csv == bundle.csv
           owned == csv.owned
           at  == {i \in DOMAIN owned : owned[i].kind = cr.kind /\ owned[i].version = cr.version}
           of  == OwnedOf(csv, cr)
           d   == of[1]
<1>1. owned \in Seq(ToSet(owned))
  <2>1. IsCSV(bundle.csv)
    BY DEF BaseInv
  <2>2. QED
    BY <2>1 DEF IsCSV
<1>2. of = Filtered(owned, at)
  BY DEF OwnedOf, Where
<1>3. ValidCSV(csv)
  BY DEF ScoreInv, MadeFrom
<1> HIDE DEF of, d, csv, owned
<1>4. of \in Seq(ToSet(owned)) /\ ToSet(of) = {owned[i] : i \in at}
  BY <1>1, <1>2, FilteredSeq
<1>5. PICK e \in ToSet(owned) : e.kind = cr.kind /\ e.version = cr.version
  BY <1>3 DEF ValidCSV, csv, owned
<1>6. of # <<>> /\ d \in ToSet(of)
  <2>1. e \in ToSet(of)
    BY <1>4, <1>5 DEF ToSet
  <2>2. DOMAIN of = 1 .. Len(of) /\ Len(of) \in Nat
    BY <1>4, LenProperties
  <2>3. 1 \in DOMAIN of
    BY <2>1, <2>2 DEF ToSet
  <2>4. QED
    BY <2>3 DEF ToSet, d
<1>7. d \in ToSet(owned) /\ d.kind = cr.kind /\ d.version = cr.version
  BY <1>4, <1>6, SeqToSet
<1>8. PICK t \in ProjectTypes : d = BuildCRDDescription(Packages, t)
  BY <1>7, OwnedTypes DEF csv, owned
<1>9. /\ d.kind = t[2] /\ d.version = Packages[t[1]].version
      /\ d.specs = Descriptors(Packages, t[1], SpecOf(t), "spec")
  BY <1>8 DEF BuildCRDDescription, SpecOf
<1>10. TypesOf(cr) = {t}
  BY <1>7, <1>9 DEF TypesOf, Unambiguous
<1>11. \A key : (\E path \in d.specs : Names(path, key)) <=> key \in Marked(t)
  BY <1>9, MarkedNames
<1>12. SpecDescribed(cr, csv) <=> cr.hasSpec /\ \A key \in cr.spec : \E path \in d.specs : Names(path, key)
  BY <1>6 DEF SpecDescribed, of, d
<1>13. QED
  BY <1>10, <1>11, <1>12 DEF csv

\* A CSV's resources are those of its types.
LEMMA ResourcesDescribed ==
    ASSUME BundleInv, ScoreInv, bundle # <<>>, FromTypes, Unambiguous, NEW d \in ToSet(bundle.csv.owned)
    PROVE  d.resources = {} <=> \E t \in TypesOf(d) : TypeAt(Packages, t).resources = {}
<1>1. PICK t \in ProjectTypes : d = BuildCRDDescription(Packages, t)
  BY OwnedTypes
<1>2. d.kind = t[2] /\ d.version = Packages[t[1]].version /\ d.resources = TypeAt(Packages, t).resources
  BY <1>1 DEF BuildCRDDescription
<1>3. TypesOf(d) = {t}
  BY <1>2 DEF TypesOf, Unambiguous
<1>4. QED
  BY <1>2, <1>3

\* The first bundle in a directory holds the CRDs that its CSV owns, and no other.
LEMMA FreshValid ==
    ASSUME BundleInv, ScoreInv, bundle # <<>>, made.bundle.fresh
    PROVE  BundleValidation(Seen) = "pass"
<1> DEFINE m == made.bundle
           c == Collected(m.of, m.base, m.mode)
           accounts == Accounts(c, m.extra)
           owned == bundle.csv.owned
           start == BaseOf(c, Operator).owned
           keys == Definitions(CRDs(c))
           served == UNION {ToSet(ServedVersions(crd)) : crd \in CRDsOf(Seen)}
<1>1. /\ IsCollection(c) /\ owned = DescriptionsOfBase(c, start)
      /\ start \in Seq(ToSet(start))
  <2>1. m.of \in SUBSET Features /\ IsBase(m.base) /\ IsCollection(c) /\ owned = DescriptionsOfBase(c, start)
    BY BundleOwned
  <2>2. IsCSV(BaseOf(c, Operator))
    BY <2>1, CollectedSorted, BaseOfCSV
  <2>3. QED
    BY <2>1, <2>2 DEF IsCSV
<1>2. \A o \in Files : o \in ToSet(GetManifestObjects(c, accounts))
  BY DEF ScoreInv, MadeFrom, Files
<1>3. \A d \in ToSet(owned) : \E crd \in CRDsOf(Seen) : KeyOf(d) \in ToSet(ServedVersions(crd))
  <2>1. BundledOf(c, accounts)
    BY BundledFromCollection
  <2> HIDE DEF c, accounts
  <2>2. QED
    BY <2>1, OwnedFound DEF CRDsOf, Seen
<1> HIDE DEF c, m, accounts, owned, start
<1>4. ASSUME NEW crd \in CRDsOf(Seen), NEW k \in ToSet(ServedVersions(crd))
      PROVE  \E d \in ToSet(owned) : KeyOf(d) = k
  <2>1. crd \in Files /\ crd.kind = "CustomResourceDefinition"
    BY DEF CRDsOf, Seen
  <2>2. crd \in ToSet(CRDs(c))
    BY <1>1, <1>2, <2>1, ObjectsApplied
  <2>3. k \in ToSet(keys)
    BY <1>1, <2>2, DefinitionsSeq
  <2>4. PICK i \in DOMAIN keys : k = keys[i]
    BY <2>3 DEF ToSet
  <2>5. KeyOf(owned[i]) = KeyOf(keys[i]) /\ i \in DOMAIN owned
    BY <1>1, <2>4, KeysOfDescriptions, DescribedSeq
  <2>6. KeyOf(k) = k
    BY KeyServed
  <2>7. QED
    BY <2>4, <2>5, <2>6 DEF ToSet
<1>5. {KeyOf(d) : d \in ToSet(owned)} = served
  BY <1>3, <1>4
<1> HIDE DEF served
<1>6. BundleValidation(Seen) = Verdict({KeyOf(d) : d \in ToSet(owned)} # served)
  BY DEF BundleValidation, KeyOf, Seen, served, owned
<1>7. QED
  BY <1>5, <1>6 DEF Verdict

\* "bundle validate" finds nothing else in the files.
LEMMA SameValidation ==
    ASSUME ScoreInv, bundle # <<>>
    PROVE  ValidateBundle(Seen) = BundleValidation(Seen)
<1> DEFINE applied == Supported \cup {"Service", "ServiceAccount", "Role", "ClusterRole",
                                      "RoleBinding", "ClusterRoleBinding"}
           v == BundleValidation(Seen)
<1>1. \A o \in Files : o.kind \in AppliedKinds
  BY DEF ScoreInv, MadeFrom, Files
<1>2. AppliedKinds = applied \cup {"CustomResourceDefinition"}
  BY DEF AppliedKinds
<1> HIDE DEF applied
<1>3. ~\E o \in Seen.objects \ CRDsOf(Seen) : o.kind \notin applied
  BY <1>1, <1>2 DEF Seen, CRDsOf
<1>4. v \in {"pass", "fail"}
  BY DEF BundleValidation, Verdict
<1> HIDE DEF v
<1>5. ValidateBundleContent(Seen) = {"pass", v}
  <2>1. ValidateBundleContent(Seen) = {Verdict(\E o \in Seen.objects \ CRDsOf(Seen) : o.kind \notin applied), v}
    BY DEF ValidateBundleContent, applied, v
  <2>2. QED
    BY <1>3, <2>1 DEF Verdict
<1>6. ValidateBundle(Seen) = IF "fail" \in {"pass", v} THEN "fail" ELSE "pass"
  BY <1>5 DEF ValidateBundle, Combined, Verdict
<1>7. QED
  BY <1>4, <1>6 DEF v

LEMMA ScoreAgrees == ASSUME BundleInv, BaseInv, ScoreInv PROVE ScorecardAgrees
<1> SUFFICES ASSUME bundle # <<>> PROVE ScorecardAgrees
  BY DEF ScorecardAgrees
<1>1. RunTest("olm-bundle-validation", Seen) = BundleValidation(Seen)
  BY DEF RunTest
<1>2. ASSUME FromTypes, Unambiguous, \A t \in ProjectTypes : FoundAsMeant(t)
      PROVE  RunTest("olm-spec-descriptors", Seen)
               = Verdict(\E cr \in ToSet(bundle.csv.examples) :
                           ~cr.hasSpec \/ \E t \in TypesOf(cr) : ~(cr.spec \subseteq Marked(t)))
  <2>1. RunTest("olm-spec-descriptors", Seen)
          = Verdict(\E cr \in ToSet(bundle.csv.examples) : ~SpecDescribed(cr, bundle.csv))
    BY DEF RunTest, SpecDescriptors, Seen
  <2>2. \A cr \in ToSet(bundle.csv.examples) :
          SpecDescribed(cr, bundle.csv) <=> cr.hasSpec /\ \A t \in TypesOf(cr) : cr.spec \subseteq Marked(t)
    BY <1>2, ExampleDescribed
  <2>3. (\E cr \in ToSet(bundle.csv.examples) : ~SpecDescribed(cr, bundle.csv))
          <=> \E cr \in ToSet(bundle.csv.examples) :
                ~cr.hasSpec \/ \E t \in TypesOf(cr) : ~(cr.spec \subseteq Marked(t))
    BY <2>2
  <2>4. QED
    BY <2>1, <2>3 DEF Verdict
<1>3. ASSUME FromTypes, Unambiguous
      PROVE  RunTest("olm-crds-have-resources", Seen)
               = Verdict(\E d \in ToSet(bundle.csv.owned) : \E t \in TypesOf(d) : TypeAt(Packages, t).resources = {})
  <2>1. RunTest("olm-crds-have-resources", Seen) = Verdict(\E d \in ToSet(bundle.csv.owned) : d.resources = {})
    BY DEF RunTest, CRDsHaveResources, Seen
  <2>2. \A d \in ToSet(bundle.csv.owned) :
          d.resources = {} <=> \E t \in TypesOf(d) : TypeAt(Packages, t).resources = {}
    BY <1>3, ResourcesDescribed
  <2>3. QED
    BY <2>1, <2>2 DEF Verdict
<1>4. made.bundle.fresh => RunTest("olm-bundle-validation", Seen) = "pass"
  BY <1>1, FreshValid
<1>5. made.bundle.fresh => ValidateBundle(Seen) = "pass"
  BY <1>1, <1>4, SameValidation
<1>6. QED
  BY <1>2, <1>3, <1>4, <1>5 DEF ScorecardAgrees

\* The base that is remembered is refreshed, and each bundle is made from one that
\* is remembered and holds only what its commands wrote.
THEOREM ScoreSound == Spec => []ScoreInv
<1>1. QED
  BY ScoreInvInit, ScoreInvNext, GenerateSound, PTL DEF Spec

\* What the scorecard says of a bundle follows from the markers of the API types,
\* however nested and inlined, whatever the manifests and the commands, where the
\* search for types in the kind's package and its imports (ast.go:127-131) finds
\* those that Go means; the first bundle in a directory is valid.
THEOREM VerdictsFollow == Spec => []ScorecardAgrees
<1>1. GenInv /\ ScoreInv => ScorecardAgrees
  BY ScoreAgrees DEF GenInv
<1>2. QED
  BY <1>1, GenerateSound, ScoreSound, PTL
=============================================================================
