----------------------------- MODULE ListProofs ------------------------------
(***************************************************************************)
(* Lemmas about sets of numbers and about the entries of lists, for the    *)
(* proofs about the components that use them.                              *)
(***************************************************************************)
EXTENDS Lists, Sequences, FiniteSetsExt, FiniteSetTheorems, WellFoundedInduction, TLAPS

\* A set of numbers has a least member: a smallest interval below a member.
LEMMA LeastMember ==
  ASSUME NEW S \in SUBSET Nat, S # {}
  PROVE  Min(S) \in S /\ \A y \in S : Min(S) <= y
<1> DEFINE R == StrictSubsetOrdering(Nat)
<1> DEFINE Below(x) == 0 .. (x - 1)
<1> DEFINE T == {Below(x) : x \in S}
<1>1. IsWellFoundedOn(R, FiniteSubsetsOf(Nat))
  BY FS_StrictSubsetOrderingWellFounded
<1>2. T \subseteq FiniteSubsetsOf(Nat) /\ T # {}
  <2>1. \A x \in S : IsFiniteSet(Below(x)) /\ Below(x) \in SUBSET Nat
    BY FS_Interval
  <2> QED
    BY <2>1 DEF FiniteSubsetsOf
<1>3. \E t \in T : \A u \in T : ~ (<<u, t>> \in R)
  <2> HIDE DEF R, T
  <2> QED
    BY <1>1, <1>2, WFMin
<1>4. PICK x \in S : \A u \in T : ~ (<<u, Below(x)>> \in R)
  BY <1>3
<1>5. \A y \in S : x <= y
  <2> SUFFICES ASSUME NEW y \in S, y < x PROVE FALSE
    OBVIOUS
  <2>1. x \in Nat /\ y \in Nat
    OBVIOUS
  <2>2. Below(y) \subseteq Below(x) /\ y \in Below(x) /\ y \notin Below(y)
    BY <2>1
  <2>3. <<Below(y), Below(x)>> \in R
    BY <2>2, <2>1 DEF StrictSubsetOrdering
  <2> QED
    BY <2>3, <1>4
<1> QED
  BY <1>5 DEF Min

\* A set with 0 and the successor of each of its members up to N has them all.
LEMMA UpTo ==
  ASSUME NEW N \in Nat, NEW S, 0 \in S, \A n \in 0 .. N : n \in S /\ n < N => n + 1 \in S
  PROVE  \A n \in 0 .. N : n \in S
<1> DEFINE Left == {n \in 0 .. N : n \notin S}
<1> SUFFICES ASSUME Left # {} PROVE FALSE
  OBVIOUS
<1>1. Left \in SUBSET Nat
  OBVIOUS
<1>2. Min(Left) \in Left /\ \A y \in Left : Min(Left) <= y
  <2> HIDE DEF Left
  <2> QED
    BY <1>1, LeastMember
<1>3. PICK m \in Left : \A y \in Left : m <= y
  BY <1>2
<1>4. m # 0 /\ m - 1 \in 0 .. N
  BY <1>3
<1>5. m - 1 \in S
  BY <1>3, <1>4
<1> QED
  BY <1>3, <1>4, <1>5

-----------------------------------------------------------------------------
\* f tells where the entries of w come from: the entries of the list at the indexes, each of them once.
Picks(f, w, list, indexes) ==
    /\ f \in [DOMAIN w -> indexes]
    /\ \A m \in DOMAIN w : w[m] = list[f[m]]
    /\ \A m, n \in DOMAIN w : f[m] = f[n] => m = n
    /\ \A k \in indexes : \E m \in DOMAIN w : f[m] = k

\* A set of indexes has a first, a second and so on: each index has a rank, which no other has, and each rank its index.
LEMMA NthMember ==
  ASSUME NEW N \in Nat, NEW indexes \in SUBSET (1 .. N)
  PROVE  LET rank == [k \in indexes |-> Cardinality(indexes \cap (1 .. k))]
         IN  /\ IsFiniteSet(indexes) /\ Cardinality(indexes) \in Nat
             /\ \A k \in indexes : rank[k] \in 1 .. Cardinality(indexes)
             /\ \A k, l \in indexes : rank[k] = rank[l] => k = l
             /\ \A n \in 1 .. Cardinality(indexes) : Nth(indexes, n) \in indexes /\ rank[Nth(indexes, n)] = n
<1> DEFINE c == Cardinality(indexes)
           r == [k \in indexes |-> Cardinality(indexes \cap (1 .. k))]
<1>1. indexes \subseteq Nat \ {0} /\ indexes \subseteq 1 .. N
  OBVIOUS
<1>2. IsFiniteSet(indexes) /\ c \in Nat
  <2>1. IsFiniteSet(1 .. N)
    BY <1>1, FS_Interval
  <2> QED
    BY <1>1, <2>1, FS_Subset, FS_CardinalityType
<1>3. \A k \in indexes : r[k] \in 1 .. c
  <2> SUFFICES ASSUME NEW k \in indexes PROVE r[k] \in 1 .. c
    OBVIOUS
  <2> DEFINE t == indexes \cap (1 .. k)
  <2>1. t \in SUBSET indexes /\ k \in t
    BY <1>1
  <2>2. IsFiniteSet(t) /\ Cardinality(t) <= c
    BY <2>1, <1>2, FS_Subset
  <2>3. Cardinality(t) # 0 /\ Cardinality(t) \in Nat
    BY <2>1, <2>2, FS_EmptySet, FS_CardinalityType
  <2> QED
    BY <2>2, <2>3, <1>2
<1>4. ASSUME NEW k \in indexes, NEW l \in indexes, k < l PROVE r[k] # r[l]
  <2> DEFINE t == indexes \cap (1 .. k)
             u == indexes \cap (1 .. l)
  <2>1. t \in SUBSET u /\ l \in u /\ l \notin t
    BY <1>1, <1>4
  <2>2. IsFiniteSet(u)
    <3>1. u \in SUBSET indexes
      OBVIOUS
    <3> QED
      BY <3>1, <1>2, FS_Subset
  <2>3. Cardinality(t) # Cardinality(u)
    <3> HIDE DEF t, u
    <3> QED
      BY <2>1, <2>2, FS_Subset
  <2> QED
    BY <2>3
<1>5. \A k, l \in indexes : r[k] = r[l] => k = l
  <2>1. \A k, l \in indexes : k < l \/ l < k \/ k = l
    BY <1>1
  <2> HIDE DEF r
  <2> QED
    BY <1>4, <2>1
<1>6. \A n \in 1 .. c : \E k \in indexes : r[k] = n
  <2>1. r \in Injection(indexes, 1 .. c)
    BY <1>3, <1>5 DEF Injection, IsInjective
  <2>2. IsFiniteSet(1 .. c) /\ Cardinality(1 .. c) = c
    BY <1>2, FS_Interval
  <2>3. r \in Surjection(indexes, 1 .. c)
    <3> HIDE DEF r
    <3> QED
      BY <2>1, <2>2, FS_Injection
  <2> QED
    BY <2>3 DEF Surjection
<1>7. \A n \in 1 .. c : Nth(indexes, n) \in indexes /\ r[Nth(indexes, n)] = n
  <2> SUFFICES ASSUME NEW n \in 1 .. c PROVE Nth(indexes, n) \in indexes /\ r[Nth(indexes, n)] = n
    OBVIOUS
  <2>1. \E k \in indexes : Cardinality(indexes \cap (1 .. k)) = n
    BY <1>6
  <2>2. Nth(indexes, n) \in indexes /\ Cardinality(indexes \cap (1 .. Nth(indexes, n))) = n
    BY <2>1 DEF Nth
  <2> QED
    BY <2>2
<1> HIDE DEF r, c
<1>8. IsFiniteSet(indexes) /\ c \in Nat /\ (\A k \in indexes : r[k] \in 1 .. c) /\ (\A k, l \in indexes : r[k] = r[l] => k = l)
      /\ \A n \in 1 .. c : Nth(indexes, n) \in indexes /\ r[Nth(indexes, n)] = n
  BY <1>2, <1>3, <1>5, <1>7
<1> QED
  BY <1>8 DEF c, r

\* The entries of a list at a set of indexes: each of them once, as many as there are indexes.
LEMMA SelectedEntries ==
  ASSUME NEW T, NEW list \in Seq(T), NEW indexes \in SUBSET (DOMAIN list)
  PROVE  /\ Selected(list, indexes) \in Seq(T)
         /\ Len(Selected(list, indexes)) = Cardinality(indexes) /\ Cardinality(indexes) \in Nat
         /\ \E f : Picks(f, Selected(list, indexes), list, indexes)
<1> DEFINE c == Cardinality(indexes)
           r == [k \in indexes |-> Cardinality(indexes \cap (1 .. k))]
<1>1. indexes \in SUBSET (1 .. Len(list)) /\ Len(list) \in Nat
  OBVIOUS
<1>2. /\ IsFiniteSet(indexes) /\ c \in Nat /\ (\A k \in indexes : r[k] \in 1 .. c) /\ (\A k, l \in indexes : r[k] = r[l] => k = l)
      /\ \A n \in 1 .. c : Nth(indexes, n) \in indexes /\ r[Nth(indexes, n)] = n
  BY <1>1, NthMember
<1>3. \A k \in indexes : r[k] \in 1 .. c
  BY <1>2
<1>5. \A k, l \in indexes : r[k] = r[l] => k = l
  BY <1>2
<1>7. \A n \in 1 .. c : Nth(indexes, n) \in indexes /\ r[Nth(indexes, n)] = n
  BY <1>2
<1> DEFINE f == [n \in 1 .. c |-> Nth(indexes, n)]
<1>8. f \in [1 .. c -> indexes] /\ \A n \in 1 .. c : r[f[n]] = n
  BY <1>7
<1> HIDE DEF r
<1>9. \A m, n \in 1 .. c : f[m] = f[n] => m = n
  BY <1>8
<1>10. \A k \in indexes : \E m \in 1 .. c : f[m] = k
  <2> SUFFICES ASSUME NEW k \in indexes PROVE \E m \in 1 .. c : f[m] = k
    OBVIOUS
  <2>1. r[k] \in 1 .. c /\ r[f[r[k]]] = r[k] /\ f[r[k]] \in indexes
    BY <1>3, <1>8
  <2> QED
    BY <2>1, <1>5
<1>11. Selected(list, indexes) = [n \in 1 .. c |-> list[f[n]]]
  BY DEF Selected
<1> HIDE DEF f
<1>12. \A n \in 1 .. c : f[n] \in DOMAIN list /\ list[f[n]] \in T
  BY <1>8
<1>13. /\ Selected(list, indexes) \in Seq(T) /\ Len(Selected(list, indexes)) = c
       /\ DOMAIN Selected(list, indexes) = 1 .. c
       /\ \A m \in 1 .. c : Selected(list, indexes)[m] = list[f[m]]
  <2> HIDE DEF c
  <2> QED
    BY <1>11, <1>12, <1>2
<1>14. Cardinality(indexes) = c
  OBVIOUS
<1> DEFINE l == Selected(list, indexes)
<1> HIDE DEF c, l
<1>15. f \in [DOMAIN l -> indexes]
  BY <1>8, <1>13 DEF l
<1>16. \A m \in DOMAIN l : l[m] = list[f[m]]
  BY <1>13 DEF l
<1>17. \A m, n \in DOMAIN l : f[m] = f[n] => m = n
  BY <1>9, <1>13 DEF l
<1>18. \A k \in indexes : \E m \in DOMAIN l : f[m] = k
  BY <1>10, <1>13 DEF l
<1>19. l \in Seq(T) /\ Len(l) = Cardinality(indexes) /\ Cardinality(indexes) \in Nat
  BY <1>2, <1>13, <1>14 DEF l
<1> QED
  BY <1>15, <1>16, <1>17, <1>18, <1>19 DEF l, Picks
=============================================================================
