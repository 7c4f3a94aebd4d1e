------------------------------ MODULE FleetProofs ------------------------------
(***************************************************************************)
(* The safety of the fleet (module Fleet) for every fleet, every set of    *)
(* stations, every list of orders and every setting: every submitted order *)
(* is in exactly one place, what the fleet would save is a state that both *)
(* restores accept, records, holds and purposes agree, a trip can count on *)
(* its pod, and a pod out of service takes no party.                       *)
(*                                                                         *)
(* The operations of the model map a state to a state, several of them in  *)
(* one step, so the invariant is a property Good(s, j, n) of such a state: *)
(* each operation has a lemma that says that it keeps Good, and a step is  *)
(* a chain of these.  Good has a part for each pod (its riders, stops,     *)
(* flags and purpose), one for the records of each pod, one for the queue  *)
(* and one for the orders.                                                 *)
(***************************************************************************)
EXTENDS Fleet, ListProofs

-----------------------------------------------------------------------------
(***************************************************************************)
(* Numbers, folds and lists.                                               *)
(***************************************************************************)
\* h gives the results of the loop from s with the step functions G.
Looped(h, N, G, s) == h = [n \in 0 .. N |-> IF n = 0 THEN s ELSE G[n][h[n - 1]]]

\* A loop over 1 .. N: where each step maps the set of its stage to the set of the next one, the function of the
\* intermediate results exists and the results stay in those sets.
LEMMA Loop ==
  ASSUME NEW N \in Nat, NEW S, NEW G, NEW s, s \in S[0],
         \A n \in 1 .. N : \A t \in S[n - 1] : G[n][t] \in S[n]
  PROVE  \E h : Looped(h, N, G, s) /\ \A n \in 0 .. N : h[n] \in S[n]
<1> DEFINE Ok(n, h) == /\ h = [k \in 0 .. n |-> IF k = 0 THEN s ELSE G[k][h[k - 1]]]
                       /\ \A k \in 0 .. n : h[k] \in S[k]
           Done == {n \in 0 .. N : \E h : Ok(n, h)}
<1>1. 0 \in Done
  <2> DEFINE h == [k \in 0 .. 0 |-> s]
  <2>1. h = [k \in 0 .. 0 |-> IF k = 0 THEN s ELSE G[k][h[k - 1]]]
    OBVIOUS
  <2>2. \A k \in 0 .. 0 : h[k] \in S[k]
    OBVIOUS
  <2> HIDE DEF h
  <2> QED
    BY <2>1, <2>2
<1>2. ASSUME NEW n \in 0 .. N, n \in Done, n < N PROVE n + 1 \in Done
  <2>1. PICK h : Ok(n, h)
    BY <1>2
  <2> DEFINE g == [k \in 0 .. n + 1 |-> IF k = n + 1 THEN G[n + 1][h[n]] ELSE h[k]]
  <2>2. \A k \in 0 .. n : g[k] = h[k] /\ h[k] \in S[k] /\ h[k] = IF k = 0 THEN s ELSE G[k][h[k - 1]]
    BY <2>1
  <2>3. g[n + 1] = G[n + 1][h[n]] /\ g[n + 1] \in S[n + 1]
    <3>1. n + 1 \in 1 .. N /\ (n + 1) - 1 = n
      BY <1>2
    <3> QED
      BY <3>1, <2>2
  <2>4. \A k \in 0 .. n + 1 : g[k] = IF k = 0 THEN s ELSE G[k][g[k - 1]]
    <3> SUFFICES ASSUME NEW k \in 0 .. n + 1 PROVE g[k] = IF k = 0 THEN s ELSE G[k][g[k - 1]]
      OBVIOUS
    <3>1. CASE k = n + 1
      <4>1. g[k - 1] = h[n] /\ k # 0
        BY <3>1, <2>2
      <4> HIDE DEF g
      <4> QED
        BY <4>1, <2>3, <3>1
    <3>2. CASE k \in 0 .. n /\ k # 0
      <4>1. k - 1 \in 0 .. n
        BY <3>2
      <4> HIDE DEF g
      <4> QED
        BY <4>1, <3>2, <2>2
    <3>3. CASE k = 0
      <4> HIDE DEF g
      <4> QED
        BY <3>3, <2>2
    <3> QED
      BY <3>1, <3>2, <3>3
  <2>5. g = [k \in 0 .. n + 1 |-> g[k]]
    OBVIOUS
  <2>6. g = [k \in 0 .. n + 1 |-> IF k = 0 THEN s ELSE G[k][g[k - 1]]]
    <3> HIDE DEF g
    <3> QED
      BY <2>4, <2>5, Zenon
  <2>7. \A k \in 0 .. n + 1 : g[k] \in S[k]
    <3>1. \A k \in 0 .. n + 1 : k = n + 1 \/ k \in 0 .. n
      BY <1>2
    <3> HIDE DEF g
    <3> QED
      BY <3>1, <2>2, <2>3
  <2>8. n + 1 \in 0 .. N
    BY <1>2
  <2> HIDE DEF g
  <2> QED
    BY <2>6, <2>7, <2>8
<1>3. N \in Done
  <2> HIDE DEF Done
  <2> QED
    BY <1>1, <1>2, UpTo
<1> QED
  BY <1>3 DEF Looped

-----------------------------------------------------------------------------
(***************************************************************************)
(* The queue: a list in the order of the IDs.                              *)
(***************************************************************************)
Ordered(q) == \A i, k \in DOMAIN q : i < k => q[i].id < q[k].id
Ids(q) == {q[i].id : i \in DOMAIN q}

\* Two trips of a queue in order have different IDs.
LEMMA OrderedDiffer ==
  ASSUME NEW T, \A t \in T : t.id \in Nat, NEW q \in Seq(T), Ordered(q)
  PROVE  \A i, k \in DOMAIN q : i # k => q[i].id # q[k].id /\ q[i] # q[k]
<1> SUFFICES ASSUME NEW i \in DOMAIN q, NEW k \in DOMAIN q, i # k PROVE q[i].id # q[k].id
  OBVIOUS
<1>1. i \in Nat /\ k \in Nat /\ q[i].id \in Nat /\ q[k].id \in Nat
  OBVIOUS
<1>2. q[i].id < q[k].id \/ q[k].id < q[i].id
  BY <1>1 DEF Ordered
<1> QED
  BY <1>1, <1>2

\* A list without the entry at n, and with e before the entry at n.
LEMMA RemoveAtEntries ==
  ASSUME NEW T, NEW q \in Seq(T), NEW n \in DOMAIN q
  PROVE  /\ RemoveAt(q, n) \in Seq(T) /\ DOMAIN RemoveAt(q, n) = 1 .. Len(q) - 1
         /\ \A k \in 1 .. Len(q) - 1 : RemoveAt(q, n)[k] = IF k < n THEN q[k] ELSE q[k + 1]
<1> DEFINE a == SubSeq(q, 1, n - 1)
           b == SubSeq(q, n + 1, Len(q))
<1>1. n \in 1 .. Len(q) /\ Len(q) \in Nat
  OBVIOUS
<1>2. a \in Seq(T) /\ Len(a) = n - 1 /\ \A k \in 1 .. (n - 1) : a[k] = q[k]
  BY <1>1
<1>3. b \in Seq(T) /\ Len(b) = Len(q) - n
  BY <1>1
<1>4. \A k \in 1 .. (Len(q) - n) : b[k] = q[k + n]
  BY <1>1
<1> HIDE DEF a, b
<1>5. /\ a \o b \in Seq(T) /\ Len(a \o b) = Len(q) - 1
      /\ \A k \in 1 .. (Len(q) - 1) : (a \o b)[k] = IF k <= n - 1 THEN a[k] ELSE b[k - (n - 1)]
  BY <1>1, <1>2, <1>3, SMTT(30)
<1>6. RemoveAt(q, n) = a \o b
  BY DEF RemoveAt, a, b
<1>7. ASSUME NEW k \in 1 .. Len(q) - 1 PROVE (a \o b)[k] = IF k < n THEN q[k] ELSE q[k + 1]
  <2>1. CASE k < n
    <3>1. k <= n - 1 /\ k \in 1 .. (n - 1)
      BY <1>1, <2>1
    <3> QED
      BY <1>5, <1>2, <3>1, <2>1
  <2>2. CASE ~(k < n)
    <3>1. ~(k <= n - 1) /\ k - (n - 1) \in 1 .. (Len(q) - n) /\ (k - (n - 1)) + n = k + 1
      BY <1>1, <2>2
    <3>2. b[k - (n - 1)] = q[k + 1]
      BY <3>1, <1>4
    <3> QED
      BY <3>1, <3>2, <1>5, <2>2
  <2> QED
    BY <2>1, <2>2
<1>8. DOMAIN (a \o b) = 1 .. Len(q) - 1
  BY <1>5
<1> QED
  BY <1>5, <1>6, <1>7, <1>8

\* A list with e before the entry at n.
LEMMA InsertAtEntries ==
  ASSUME NEW T, NEW q \in Seq(T), NEW n \in 1 .. Len(q) + 1, NEW e \in T
  PROVE  /\ InsertAt(q, n, e) \in Seq(T) /\ DOMAIN InsertAt(q, n, e) = 1 .. Len(q) + 1
         /\ \A k \in 1 .. Len(q) + 1 : InsertAt(q, n, e)[k] = IF k < n THEN q[k] ELSE IF k = n THEN e ELSE q[k - 1]
<1> DEFINE a == SubSeq(q, 1, n - 1)
           b == SubSeq(q, n, Len(q))
           ae == a \o <<e>>
<1>1. n \in Nat /\ Len(q) \in Nat
  OBVIOUS
<1>2. a \in Seq(T) /\ Len(a) = n - 1 /\ \A k \in 1 .. (n - 1) : a[k] = q[k]
  BY <1>1
<1>3. b \in Seq(T) /\ Len(b) = Len(q) - n + 1
  BY <1>1
<1>4. \A k \in 1 .. (Len(q) - n + 1) : b[k] = q[k + n - 1]
  BY <1>1
<1>5. ae \in Seq(T) /\ Len(ae) = n /\ \A k \in 1 .. n : ae[k] = IF k = n THEN e ELSE q[k]
  <2> HIDE DEF a
  <2>1. <<e>> \in Seq(T) /\ Len(<<e>>) = 1 /\ <<e>>[1] = e
    OBVIOUS
  <2>2. ae \in Seq(T) /\ Len(ae) = n
    BY <1>1, <1>2, <2>1
  <2>3. \A k \in 1 .. n : ae[k] = IF k <= n - 1 THEN a[k] ELSE e
    BY <1>1, <1>2, <2>1, SMTT(30)
  <2> HIDE DEF ae
  <2>4. \A k \in 1 .. n : k # n => k <= n - 1 /\ k \in 1 .. (n - 1)
    BY <1>1
  <2>5. ~(n <= n - 1)
    BY <1>1
  <2> QED
    BY <2>2, <2>3, <2>4, <2>5, <1>2
<1> HIDE DEF a, b, ae
<1>6. /\ ae \o b \in Seq(T) /\ Len(ae \o b) = Len(q) + 1
      /\ \A k \in 1 .. (Len(q) + 1) : (ae \o b)[k] = IF k <= n THEN ae[k] ELSE b[k - n]
  BY <1>1, <1>5, <1>3, SMTT(30)
<1>7. InsertAt(q, n, e) = ae \o b
  BY DEF InsertAt, a, b, ae
<1>8. ASSUME NEW k \in 1 .. Len(q) + 1 PROVE (ae \o b)[k] = IF k < n THEN q[k] ELSE IF k = n THEN e ELSE q[k - 1]
  <2>1. CASE k <= n
    <3>1. k \in 1 .. n /\ (k < n <=> k # n)
      BY <1>1, <2>1
    <3> QED
      BY <1>6, <1>5, <3>1, <2>1
  <2>2. CASE ~(k <= n)
    <3>1. k - n \in 1 .. (Len(q) - n + 1) /\ (k - n) + n - 1 = k - 1 /\ ~(k < n) /\ k # n
      BY <1>1, <2>2
    <3>2. b[k - n] = q[k - 1]
      BY <3>1, <1>4
    <3> QED
      BY <3>1, <3>2, <1>6, <2>2
  <2> QED
    BY <2>1, <2>2
<1>9. DOMAIN (ae \o b) = 1 .. Len(q) + 1
  BY <1>6
<1> QED
  BY <1>6, <1>7, <1>8, <1>9

\* A trip that leaves the queue: the others stay, in order.
LEMMA TripRemoved ==
  ASSUME NEW T, \A t \in T : t.id \in Nat, NEW q \in Seq(T), Ordered(q), NEW n \in DOMAIN q
  PROVE  /\ RemoveAt(q, n) \in Seq(T) /\ Ordered(RemoveAt(q, n))
         /\ Range(RemoveAt(q, n)) = Range(q) \ {q[n]}
<1> DEFINE w == RemoveAt(q, n)
           from(k) == IF k < n THEN k ELSE k + 1
<1>1. n \in 1 .. Len(q) /\ Len(q) \in Nat /\ DOMAIN q = 1 .. Len(q)
  OBVIOUS
<1>2. /\ w \in Seq(T) /\ DOMAIN w = 1 .. Len(q) - 1
      /\ \A k \in 1 .. Len(q) - 1 : w[k] = IF k < n THEN q[k] ELSE q[k + 1]
  BY RemoveAtEntries
<1> HIDE DEF w
<1>3. \A k \in DOMAIN w : from(k) \in DOMAIN q /\ from(k) # n /\ w[k] = q[from(k)]
  BY <1>1, <1>2
<1>4. \A i, k \in DOMAIN w : i < k => from(i) < from(k)
  BY <1>1, <1>2
<1>5. \A k \in DOMAIN q : k # n => \E i \in DOMAIN w : from(i) = k
  <2> SUFFICES ASSUME NEW k \in DOMAIN q, k # n PROVE \E i \in DOMAIN w : from(i) = k
    OBVIOUS
  <2>1. CASE k < n
    <3>1. k \in DOMAIN w /\ from(k) = k
      BY <1>1, <1>2, <2>1
    <3> QED
      BY <3>1
  <2>2. CASE k > n
    <3>1. k - 1 \in DOMAIN w /\ from(k - 1) = k
      BY <1>1, <1>2, <2>2
    <3> QED
      BY <3>1
  <2> QED
    BY <1>1, <2>1, <2>2
<1> HIDE DEF from
<1>6. Ordered(w)
  BY <1>3, <1>4 DEF Ordered
<1>7. Range(w) = Range(q) \ {q[n]}
  <2>1. \A k \in DOMAIN w : w[k] \in Range(q) /\ w[k] # q[n]
    BY <1>3, OrderedDiffer DEF Range
  <2>2. ASSUME NEW x \in Range(q), x # q[n] PROVE x \in Range(w)
    <3>1. PICK k \in DOMAIN q : x = q[k]
      BY DEF Range
    <3>2. PICK i \in DOMAIN w : from(i) = k
      BY <3>1, <2>2, <1>5
    <3> QED
      BY <3>1, <3>2, <1>3 DEF Range
  <2> QED
    BY <2>1, <2>2 DEF Range
<1> QED
  BY <1>2, <1>6, <1>7 DEF w

\* A trip that joins the queue: the others stay, in order.
LEMMA TripQueued ==
  ASSUME NEW T, \A t \in T : t.id \in Nat, NEW q \in Seq(T), Ordered(q), NEW trip \in T, \A t \in Range(q) : t.id # trip.id
  PROVE  /\ QueueTransfer(q, trip) \in Seq(T) /\ Ordered(QueueTransfer(q, trip))
         /\ Range(QueueTransfer(q, trip)) = Range(q) \cup {trip}
<1> DEFINE later == {i \in DOMAIN q : q[i].id > trip.id}
           n == IF later = {} THEN Len(q) + 1 ELSE Min(later)
           w == InsertAt(q, n, trip)
           from(k) == IF k < n THEN k ELSE k - 1
<1>1. Len(q) \in Nat /\ DOMAIN q = 1 .. Len(q) /\ later \in SUBSET Nat
  OBVIOUS
<1>2. later # {} => Min(later) \in later /\ \A y \in later : Min(later) <= y
  <2> HIDE DEF later
  <2> QED
    BY <1>1, LeastMember
<1>3. n \in 1 .. Len(q) + 1
  <2>1. later # {} => Min(later) \in DOMAIN q
    BY <1>2
  <2> HIDE DEF later
  <2> QED
    BY <2>1, <1>1
<1>4. \A k \in DOMAIN q : k < n => q[k].id < trip.id
  <2> SUFFICES ASSUME NEW k \in DOMAIN q, k < n PROVE q[k].id < trip.id
    OBVIOUS
  <2>1. k \notin later
    <3> SUFFICES ASSUME k \in later PROVE FALSE
      OBVIOUS
    <3>1. n = Min(later) /\ Min(later) <= k
      <4> HIDE DEF later
      <4> QED
        BY <1>2
    <3> HIDE DEF n, later
    <3> QED
      BY <3>1, <1>3, <1>1
  <2>2. q[k].id \in Nat /\ trip.id \in Nat /\ q[k].id # trip.id
    BY <1>1 DEF Range
  <2> QED
    BY <2>1, <2>2
<1>5. \A k \in DOMAIN q : k >= n => q[k].id > trip.id
  <2> SUFFICES ASSUME NEW k \in DOMAIN q, k >= n PROVE q[k].id > trip.id
    OBVIOUS
  <2>1. later # {}
    <3> HIDE DEF later
    <3> QED
      BY <1>1
  <2>2. n \in later /\ n \in DOMAIN q
    <3>1. n \in later
      <4> HIDE DEF later
      <4> QED
        BY <2>1, <1>2
    <3> QED
      BY <3>1
  <2>3. q[n].id > trip.id
    BY <2>2
  <2>4. n < k => q[n].id < q[k].id
    <3> HIDE DEF n
    <3> QED
      BY <2>2 DEF Ordered
  <2>5. q[n].id \in Nat /\ q[k].id \in Nat /\ trip.id \in Nat /\ n \in Nat /\ k \in Nat
    <3> HIDE DEF n
    <3> QED
      BY <2>2
  <2> HIDE DEF n
  <2> QED
    BY <2>3, <2>4, <2>5
<1>6. QueueTransfer(q, trip) = w
  BY DEF QueueTransfer
<1> HIDE DEF n, later
<1>7. /\ w \in Seq(T) /\ DOMAIN w = 1 .. Len(q) + 1
      /\ \A k \in 1 .. Len(q) + 1 : w[k] = IF k < n THEN q[k] ELSE IF k = n THEN trip ELSE q[k - 1]
  BY <1>3, InsertAtEntries
<1> HIDE DEF w
<1>8. \A k \in DOMAIN w : k # n => from(k) \in DOMAIN q /\ w[k] = q[from(k)]
  BY <1>1, <1>3, <1>7
<1>9. \A i, k \in DOMAIN w : i < k /\ i # n /\ k # n => from(i) < from(k)
  BY <1>1, <1>3, <1>7
<1>10. w[n] = trip /\ n \in DOMAIN w
  BY <1>3, <1>7
<1>11. \A k \in DOMAIN w : /\ k < n => w[k].id < trip.id
                           /\ k > n => w[k].id > trip.id
  <2> SUFFICES ASSUME NEW k \in DOMAIN w PROVE /\ k < n => w[k].id < trip.id
                                               /\ k > n => w[k].id > trip.id
    OBVIOUS
  <2>1. k < n => k \in DOMAIN q /\ w[k] = q[k]
    BY <1>1, <1>3, <1>7
  <2>2. k > n => k - 1 \in DOMAIN q /\ k - 1 >= n /\ w[k] = q[k - 1]
    BY <1>1, <1>3, <1>7
  <2> QED
    BY <2>1, <2>2, <1>4, <1>5
<1>12. Ordered(w)
  <2> SUFFICES ASSUME NEW i \in DOMAIN w, NEW k \in DOMAIN w, i < k PROVE w[i].id < w[k].id
    BY DEF Ordered
  <2>1. CASE i # n /\ k # n
    <3> HIDE DEF from
    <3> QED
      BY <2>1, <1>8, <1>9 DEF Ordered
  <2>2. CASE i = n \/ k = n
    BY <2>2, <1>10, <1>11
  <2> QED
    BY <2>1, <2>2
<1>13. \A k \in DOMAIN q : \E i \in DOMAIN w : i # n /\ from(i) = k
  <2> SUFFICES ASSUME NEW k \in DOMAIN q PROVE \E i \in DOMAIN w : i # n /\ from(i) = k
    OBVIOUS
  <2>1. CASE k < n
    <3>1. k \in DOMAIN w /\ from(k) = k /\ k # n
      BY <1>1, <1>3, <1>7, <2>1
    <3> QED
      BY <3>1
  <2>2. CASE k >= n
    <3>1. k + 1 \in DOMAIN w /\ from(k + 1) = k /\ k + 1 # n
      BY <1>1, <1>3, <1>7, <2>2
    <3> QED
      BY <3>1
  <2> QED
    BY <1>1, <1>3, <2>1, <2>2
<1> HIDE DEF from
<1>14. Range(w) = Range(q) \cup {trip}
  <2>1. \A k \in DOMAIN w : w[k] \in Range(q) \cup {trip}
    BY <1>8, <1>10 DEF Range
  <2>2. ASSUME NEW x \in Range(q) PROVE x \in Range(w)
    <3>1. PICK k \in DOMAIN q : x = q[k]
      BY DEF Range
    <3>2. PICK i \in DOMAIN w : i # n /\ from(i) = k
      BY <3>1, <1>13
    <3> QED
      BY <3>1, <3>2, <1>8 DEF Range
  <2>3. trip \in Range(w)
    BY <1>10 DEF Range
  <2> QED
    BY <2>1, <2>2, <2>3 DEF Range
<1> QED
  BY <1>6, <1>7, <1>12, <1>14

\* A finite set as a list: every member once.
LEMMA ListOfSet ==
  ASSUME NEW S, IsFiniteSet(S)
  PROVE  /\ SetToSeq(S) \in Seq(S) /\ Len(SetToSeq(S)) \in Nat
         /\ \A m, n \in 1 .. Len(SetToSeq(S)) : SetToSeq(S)[m] = SetToSeq(S)[n] => m = n
         /\ \A x \in S : \E n \in 1 .. Len(SetToSeq(S)) : SetToSeq(S)[n] = x
<1> DEFINE c == Cardinality(S)
<1>1. c \in Nat
  BY FS_CardinalityType
<1>2. PICK g : g \in Bijection(1 .. c, S)
  BY FS_NatBijection, FS_CountingElements, FS_CardinalityType, Zenon DEF ExistsBijection
<1>3. g \in [1 .. c -> S] /\ IsInjective(g)
  BY <1>2 DEF Bijection, Injection
<1>4. SetToSeq(S) \in [1 .. c -> S] /\ IsInjective(SetToSeq(S))
  BY <1>3 DEF SetToSeq
<1> DEFINE o == SetToSeq(S)
<1> HIDE DEF o, c
<1>5. o \in [1 .. c -> S] /\ IsInjective(o)
  BY <1>4 DEF o, c
<1>6. o \in Seq(S) /\ Len(o) = c /\ DOMAIN o = 1 .. c
  BY <1>1, <1>5
<1>7. \A m, n \in 1 .. c : o[m] = o[n] => m = n
  BY <1>5 DEF IsInjective
<1>8. o \in Surjection(1 .. c, S)
  <2>1. o \in Injection(1 .. c, S)
    BY <1>5 DEF Injection
  <2>2. Cardinality(1 .. c) = Cardinality(S)
    BY <1>1, FS_Interval DEF c
  <2> QED
    BY <2>1, <2>2, FS_Injection
<1> QED
  BY <1>1, <1>6, <1>7, <1>8 DEF Surjection, o

\* Trips that join the queue one after the other.
LEMMA TripsQueued ==
  ASSUME NEW T, \A t \in T : t.id \in Nat, NEW q \in Seq(T), Ordered(q), NEW trips \in SUBSET T, IsFiniteSet(trips),
         \A t \in trips : \A u \in Range(q) : u.id # t.id,
         \A t, u \in trips : t # u => t.id # u.id
  PROVE  /\ QueueAll(q, trips) \in Seq(T) /\ Ordered(QueueAll(q, trips))
         /\ Range(QueueAll(q, trips)) = Range(q) \cup trips
<1> DEFINE o == SetToSeq(trips)
           N == Len(o)
           First(n) == {o[k] : k \in 1 .. n}
           S == [n \in 0 .. N |-> {w \in Seq(T) : Ordered(w) /\ Range(w) = Range(q) \cup First(n)}]
           G == [n \in 1 .. N |-> [w \in S[n - 1] |-> QueueTransfer(w, o[n])]]
           Equation(f) == f = [n \in 0 .. N |-> IF n = 0 THEN q ELSE QueueTransfer(f[n - 1], o[n])]
<1>1. /\ o \in Seq(trips) /\ N \in Nat
      /\ \A m, n \in 1 .. N : o[m] = o[n] => m = n
      /\ \A x \in trips : \E n \in 1 .. N : o[n] = x
  BY ListOfSet
<1> HIDE DEF o
<1>2. \A n \in 1 .. N : o[n] \in trips
  BY <1>1
<1>3. q \in S[0]
  <2>1. First(0) = {}
    OBVIOUS
  <2> QED
    BY <1>1, <2>1
<1>4. ASSUME NEW n \in 1 .. N, NEW w \in S[n - 1] PROVE QueueTransfer(w, o[n]) \in S[n]
  <2>1. n - 1 \in 0 .. N /\ n \in 0 .. N
    BY <1>1
  <2>2. w \in Seq(T) /\ Ordered(w) /\ Range(w) = Range(q) \cup First(n - 1)
    BY <2>1
  <2>3. \A u \in Range(w) : u.id # o[n].id
    <3> SUFFICES ASSUME NEW u \in Range(w) PROVE u.id # o[n].id
      OBVIOUS
    <3>1. CASE u \in Range(q)
      BY <3>1, <1>2
    <3>2. CASE u \in First(n - 1)
      <4>1. PICK k \in 1 .. n - 1 : u = o[k]
        BY <3>2
      <4>2. k \in 1 .. N /\ k # n
        BY <2>1
      <4> QED
        BY <4>1, <4>2, <1>1, <1>2
    <3> HIDE DEF First
    <3> QED
      BY <3>1, <3>2, <2>2
  <2>4. o[n] \in T
    BY <1>2
  <2>5. /\ QueueTransfer(w, o[n]) \in Seq(T) /\ Ordered(QueueTransfer(w, o[n]))
        /\ Range(QueueTransfer(w, o[n])) = Range(w) \cup {o[n]}
    <3> HIDE DEF First, S, G, N
    <3> QED
      BY <2>2, <2>3, <2>4, TripQueued
  <2>6. First(n) = First(n - 1) \cup {o[n]}
    <3>1. 1 .. n = (1 .. n - 1) \cup {n}
      BY <1>1, SMTT(30)
    <3> QED
      BY <3>1
  <2> HIDE DEF First
  <2> QED
    BY <2>1, <2>2, <2>5, <2>6
<1> HIDE DEF S
<1>5. \A n \in 1 .. N : \A t \in S[n - 1] : G[n][t] \in S[n]
  BY <1>4
<1>6. \E f : Equation(f)
  <2>1. PICK h : Looped(h, N, G, q) /\ \A n \in 0 .. N : h[n] \in S[n]
    <3>1. N \in Nat
      BY <1>1
    <3> HIDE DEF N, G
    <3> QED
      BY <3>1, <1>3, <1>5, Loop
  <2>2. \A n \in 0 .. N : n # 0 => n \in 1 .. N /\ n - 1 \in 0 .. N
    BY <1>1
  <2>3. \A n \in 0 .. N : n # 0 => G[n][h[n - 1]] = QueueTransfer(h[n - 1], o[n])
    BY <2>1, <2>2 DEF Looped
  <2>4. Equation(h)
    <3> HIDE DEF G, N
    <3> QED
      BY <2>1, <2>3 DEF Looped
  <2> QED
    BY <2>4
<1> DEFINE after == CHOOSE f : Equation(f)
<1>7. Equation(after)
  <2> HIDE DEF Equation
  <2> QED
    BY <1>6
<1>8. QueueAll(q, trips) = after[N]
  BY DEF QueueAll, o
<1>9. \A n \in 0 .. N : after[n] \in S[n]
  <2> HIDE DEF after
  <2> DEFINE Done == {n \in 0 .. N : after[n] \in S[n]}
  <2>1. 0 \in Done
    BY <1>3, <1>7, <1>1
  <2>2. ASSUME NEW n \in 0 .. N, n \in Done, n < N PROVE n + 1 \in Done
    <3>1. n + 1 \in 1 .. N /\ (n + 1) - 1 = n /\ n + 1 \in 0 .. N /\ n + 1 # 0
      BY <1>1, <2>2
    <3>2. after[n + 1] = QueueTransfer(after[n], o[n + 1])
      BY <1>7, <3>1
    <3>3. QueueTransfer(after[n], o[n + 1]) \in S[n + 1]
      BY <1>4, <3>1, <2>2
    <3> QED
      BY <3>1, <3>2, <3>3
  <2> HIDE DEF N
  <2>3. \A n \in 0 .. N : n \in Done
    <3> HIDE DEF Done
    <3> QED
      BY <1>1, <2>1, <2>2, UpTo
  <2> QED
    BY <2>3
<1>10. QueueAll(q, trips) \in S[N]
  <2> HIDE DEF after
  <2> QED
    BY <1>8, <1>9, <1>1
<1>11. First(N) = trips
  BY <1>1, <1>2, SMTT(30)
<1>12. N \in 0 .. N
  BY <1>1
<1> HIDE DEF N, First
<1> QED
  BY <1>10, <1>11, <1>12 DEF S

-----------------------------------------------------------------------------
(***************************************************************************)
(* The state of a pod.  The parameter j stands for the orders of the       *)
(* session (options.journey).                                              *)
(***************************************************************************)
Places == Stations \cup {NoStation}
OptPods == Pods \cup {NoPod}
Activities == {"Idle", "Boarding", "DepartingEmpty", "Traveling", "Unloading", "Continuing"}

Rider(j) == [id : DOMAIN j, leg : Passenger \cup {NoStation}, done : BOOLEAN]
Purpose == [purpose : {"service", "unload", "recovery"}, owner : {"none", "fault", "emergency"}, interrupt : SUBSET Nat]
PodRecord(j) ==
    [activity : Activities, at : Places, destination : Stations, relocatingTo : Places, occupied : BOOLEAN,
     riders : Seq(Rider(j)), recorded : BOOLEAN, stops : Seq(Passenger), phase : Nat, released : BOOLEAN,
     rebalancing : BOOLEAN, withdrawn : SUBSET {"fault", "emergency"}, op : Purpose, braking : BOOLEAN]

IsJourney(j) == j \in Seq([from : Passenger, to : Passenger]) /\ \A k \in DOMAIN j : j[k].from # j[k].to

\* What the rider list of a pod says: who is aboard, and where they go.
LegOf(rider, j) == IF rider.leg = NoStation THEN j[rider.id].from ELSE rider.leg
Active(riders) == {k \in DOMAIN riders : ~riders[k].done}
IdsOf(riders) == {riders[k].id : k \in Active(riders)}
Goals(riders, j) == {j[riders[k].id].to : k \in Active(riders)}

RiderList(riders, j) ==
    /\ \A k \in DOMAIN riders : LegOf(riders[k], j) # j[riders[k].id].to
    /\ \A k, l \in Active(riders) : k # l => riders[k].id # riders[l].id
SameLegs(riders, j) == \A k, l \in DOMAIN riders : LegOf(riders[k], j) = LegOf(riders[l], j)
LegsFrom(riders, station, j) == \A k \in DOMAIN riders : LegOf(riders[k], j) = station
NoneDone(riders) == \A k \in DOMAIN riders : ~riders[k].done
DoneGone(riders, stops, j) == \A k \in DOMAIN riders : riders[k].done => j[riders[k].id].to \notin Range(stops)
StopsDiffer(stops) == \A k, l \in DOMAIN stops : k # l => stops[k] # stops[l]

RidersOK(v, j) ==
    /\ RiderList(v.riders, j)
    /\ (Active(v.riders) = {}) <=> (v.activity = "Idle" \/ MovesEmpty(v))
    /\ BoardsHere(v) => ~v.recorded /\ NoneDone(v.riders) /\ LegsFrom(v.riders, v.at, j)
    /\ ~v.recorded => SameLegs(v.riders, j) /\ DoneGone(v.riders, v.stops, j)

StopsOK(v, j) ==
    /\ StopsDiffer(v.stops)
    /\ v.activity = "Unloading" =>
           /\ Range(v.stops) = Goals(v.riders, j) \ {v.at}
           /\ v.stops = <<>> => v.at \in Goals(v.riders, j) \/ v.op.purpose = "unload"
    /\ v.activity \in {"Boarding", "Continuing"} \/ (v.activity = "Traveling" /\ v.occupied) =>
           /\ Range(v.stops) = Goals(v.riders, j)
           /\ v.op.purpose = "service" => v.stops[1] = v.destination
    /\ v.activity = "Idle" \/ MovesEmpty(v) => v.stops = <<>>

FlagsOK(v) ==
    /\ v.activity \in {"Unloading", "Continuing"} => v.occupied
    /\ v.activity \in {"Idle", "DepartingEmpty"} => ~v.occupied
    /\ v.phase > 0 => v.activity \in {"Boarding", "Unloading"}
    /\ v.activity = "Unloading" /\ (v.stops = <<>> \/ v.op.purpose = "unload") => v.phase > 0
    /\ IF MovesEmpty(v) THEN v.relocatingTo = v.destination ELSE v.relocatingTo = NoStation /\ ~v.rebalancing /\ ~v.released
    /\ (v.activity = "Traveling") <=> (v.at = NoStation)
    /\ v.activity = "Unloading" => v.destination = v.at
    /\ v.activity \in {"Boarding", "Continuing", "Unloading"} => v.at \in Passenger
    /\ v.activity = "Traveling" /\ v.occupied => v.destination \in Passenger

PurposeOK(v) ==
    /\ v.op.purpose = "service" => v.op = Service
    /\ v.op.purpose = "unload" => /\ v.op.owner = "emergency" /\ "emergency" \in v.withdrawn /\ v.occupied
                                  /\ v.activity \in {"Traveling", "Unloading"} /\ v.destination \in Passenger
    /\ v.op.purpose = "recovery" => v.op.owner = "fault" /\ "fault" \in v.withdrawn /\ MovesEmpty(v) /\ ~v.rebalancing /\ ~v.released

PodGood(v, j) == v \in PodRecord(j) /\ RidersOK(v, j) /\ StopsOK(v, j) /\ FlagsOK(v) /\ PurposeOK(v)

\* The names of the model for the riders aboard.
LEMMA ActiveIs == \A v : ActiveRiders(v) = Active(v.riders) /\ IdsAt(v, ActiveRiders(v)) = IdsOf(v.riders)
BY DEF ActiveRiders, Active, IdsAt, IdsOf

\* Two places are never the same as no place.
LEMMA StationsAre == Passenger \subseteq Stations /\ Stations \subseteq Places /\ NoStation \in Places /\ NoStation \notin Stations
BY FleetAssumption DEF Stations, Places

\* Releasing a pickup, and the holds, leave the pod as good as it was.
LEMMA PickupReleased ==
  ASSUME NEW j, NEW v, PodGood(v, j), v.op.purpose # "recovery"
  PROVE  PodGood(ReleasePickup(v), j) /\ ReleasePickup(v).riders = v.riders
<1> DEFINE w == [v EXCEPT !.released = TRUE]
<1>1. CASE ~Releasable(v)
  BY <1>1 DEF ReleasePickup
<1>2. CASE Releasable(v)
  <2>1. v \in PodRecord(j) /\ w \in PodRecord(j)
    BY DEF PodGood, PodRecord
  <2>2. /\ w.released = TRUE /\ w.riders = v.riders /\ w.activity = v.activity /\ w.at = v.at /\ w.destination = v.destination
        /\ w.relocatingTo = v.relocatingTo /\ w.occupied = v.occupied /\ w.recorded = v.recorded /\ w.stops = v.stops
        /\ w.phase = v.phase /\ w.rebalancing = v.rebalancing /\ w.withdrawn = v.withdrawn /\ w.op = v.op
    BY <2>1 DEF PodRecord
  <2> HIDE DEF w
  <2>3. MovesEmpty(v)
    BY <1>2 DEF PodGood, FlagsOK, Releasable
  <2>4. RidersOK(w, j) /\ StopsOK(w, j)
    BY <2>2 DEF PodGood, RidersOK, StopsOK, MovesEmpty, BoardsHere
  <2>5. FlagsOK(w) /\ PurposeOK(w)
    BY <2>2, <2>3 DEF PodGood, FlagsOK, PurposeOK, MovesEmpty
  <2> QED
    BY <1>2, <2>1, <2>2, <2>4, <2>5 DEF PodGood, ReleasePickup, w
<1> QED
  BY <1>1, <1>2

\* The holds of a pod may change, as long as the owner of its purpose stays.
LEMMA HoldsChanged ==
  ASSUME NEW j, NEW v, PodGood(v, j), NEW h \in SUBSET {"fault", "emergency"}, v.op.purpose # "service" => v.op.owner \in h
  PROVE  PodGood([v EXCEPT !.withdrawn = h], j)
<1> DEFINE w == [v EXCEPT !.withdrawn = h]
<1>1. v \in PodRecord(j) /\ w \in PodRecord(j)
  BY DEF PodGood, PodRecord
<1>2. /\ w.released = v.released /\ w.riders = v.riders /\ w.activity = v.activity /\ w.at = v.at /\ w.destination = v.destination
      /\ w.relocatingTo = v.relocatingTo /\ w.occupied = v.occupied /\ w.recorded = v.recorded /\ w.stops = v.stops
      /\ w.phase = v.phase /\ w.rebalancing = v.rebalancing /\ w.withdrawn = h /\ w.op = v.op
  BY <1>1 DEF PodRecord
<1> HIDE DEF w
<1>3. RidersOK(w, j) /\ StopsOK(w, j)
  BY <1>2 DEF PodGood, RidersOK, StopsOK, MovesEmpty, BoardsHere
<1>4. FlagsOK(w) /\ PurposeOK(w)
  BY <1>2 DEF PodGood, FlagsOK, PurposeOK, MovesEmpty
<1> QED
  BY <1>1, <1>3, <1>4 DEF PodGood, w

\* An idle pod sets off empty.
LEMMA EmptyMoved ==
  ASSUME NEW j, NEW v, PodGood(v, j), v.activity = "Idle", NEW station \in Stations, NEW guarded \in BOOLEAN
  PROVE  PodGood(EmptyMove(v, station, guarded), j) /\ EmptyMove(v, station, guarded).riders = v.riders
<1> DEFINE w == EmptyMove(v, station, guarded)
<1>1. v \in PodRecord(j) /\ w \in PodRecord(j)
  BY StationsAre DEF PodGood, PodRecord, EmptyMove, Activities
<1>2. /\ w.released = FALSE /\ w.riders = v.riders /\ w.activity = "DepartingEmpty" /\ w.at = v.at /\ w.destination = station
      /\ w.relocatingTo = station /\ w.occupied = v.occupied /\ w.recorded = v.recorded /\ w.stops = v.stops
      /\ w.phase = 0 /\ w.rebalancing = guarded /\ w.withdrawn = v.withdrawn /\ w.op = v.op
  BY <1>1 DEF PodRecord, EmptyMove
<1> HIDE DEF w
<1>3. RidersOK(w, j) /\ StopsOK(w, j)
  BY <1>2 DEF PodGood, RidersOK, StopsOK, MovesEmpty, BoardsHere
<1>4. FlagsOK(w) /\ PurposeOK(w)
  BY <1>2 DEF PodGood, FlagsOK, PurposeOK, MovesEmpty
<1> QED
  BY <1>1, <1>2, <1>3, <1>4 DEF PodGood, w

-----------------------------------------------------------------------------
(***************************************************************************)
(* Riders that get off, are taken off and get on.                          *)
(***************************************************************************)
\* The riders of v whose journey ends.
Ended(riders, which) == [k \in DOMAIN riders |-> [riders[k] EXCEPT !.done = @ \/ k \in which]]

\* The journeys of some riders end: the list keeps its rules and its IDs, and the others stay aboard.
LEMMA RidersEnded ==
  ASSUME NEW j, IsJourney(j), NEW riders \in Seq(Rider(j)), NEW which \in SUBSET Active(riders), RiderList(riders, j)
  PROVE  LET w == Ended(riders, which)
         IN  /\ w \in Seq(Rider(j)) /\ DOMAIN w = DOMAIN riders /\ (w = <<>> <=> riders = <<>>)
             /\ RiderList(w, j)
             /\ Active(w) = Active(riders) \ which
             /\ \A k \in DOMAIN w : w[k].id = riders[k].id /\ w[k].leg = riders[k].leg
             /\ IdsOf(w) = IdsOf(riders) \ {riders[k].id : k \in which}
             /\ SameLegs(riders, j) => SameLegs(w, j)
             /\ \A stops : DoneGone(riders, stops, j) /\ (\A k \in which : j[riders[k].id].to \notin Range(stops)) => DoneGone(w, stops, j)
<1> DEFINE w == Ended(riders, which)
<1>1. DOMAIN w = DOMAIN riders /\ \A k \in DOMAIN riders : w[k] = [riders[k] EXCEPT !.done = @ \/ k \in which]
  BY DEF Ended
<1>2. \A k \in DOMAIN riders : riders[k] \in Rider(j)
  OBVIOUS
<1>3. \A k \in DOMAIN riders : w[k] \in Rider(j) /\ w[k].id = riders[k].id /\ w[k].leg = riders[k].leg
                               /\ (w[k].done <=> riders[k].done \/ k \in which)
  BY <1>1, <1>2, ZenonT(60) DEF Rider
<1>4. Len(riders) \in Nat /\ DOMAIN riders = 1 .. Len(riders)
  OBVIOUS
<1>5. w = [k \in 1 .. Len(riders) |-> w[k]]
  BY <1>4 DEF Ended
<1> HIDE DEF w
<1>6. w \in Seq(Rider(j)) /\ DOMAIN w = DOMAIN riders
  BY <1>1, <1>3, <1>4, <1>5
<1>7. Active(w) = Active(riders) \ which
  BY <1>1, <1>3 DEF Active
<1>8. \A k \in DOMAIN riders : LegOf(w[k], j) = LegOf(riders[k], j)
  BY <1>3 DEF LegOf
<1>9. RiderList(w, j)
  <2>1. Active(riders) \subseteq DOMAIN riders
    BY DEF Active
  <2> QED
    BY <1>1, <1>3, <1>7, <1>8, <2>1 DEF RiderList
<1>10. IdsOf(w) = IdsOf(riders) \ {riders[k].id : k \in which}
  <2>1. \A k \in Active(riders) : k \in DOMAIN riders
    BY DEF Active
  <2> QED
    BY <1>3, <1>7, <2>1 DEF IdsOf, RiderList
<1>11. SameLegs(riders, j) => SameLegs(w, j)
  BY <1>1, <1>8 DEF SameLegs
<1>12. \A stops : DoneGone(riders, stops, j) /\ (\A k \in which : j[riders[k].id].to \notin Range(stops)) => DoneGone(w, stops, j)
  BY <1>1, <1>3 DEF DoneGone
<1>13. w = <<>> <=> riders = <<>>
  BY <1>6
<1> QED
  BY <1>1, <1>3, <1>6, <1>7, <1>9, <1>10, <1>11, <1>12, <1>13 DEF w

\* The riders that stay on the list.
LEMMA RidersKept ==
  ASSUME NEW j, IsJourney(j), NEW riders \in Seq(Rider(j)), NEW kept \in SUBSET (DOMAIN riders), RiderList(riders, j)
  PROVE  LET w == Selected(riders, kept)
         IN  /\ w \in Seq(Rider(j)) /\ RiderList(w, j)
             /\ IdsOf(w) = {riders[k].id : k \in Active(riders) \cap kept}
             /\ Goals(w, j) = {j[riders[k].id].to : k \in Active(riders) \cap kept}
             /\ Active(w) = {} <=> Active(riders) \cap kept = {}
             /\ riders = <<>> => w = <<>>
             /\ SameLegs(riders, j) => SameLegs(w, j)
             /\ \A station : LegsFrom(riders, station, j) => LegsFrom(w, station, j)
             /\ kept \subseteq Active(riders) => NoneDone(w)
             /\ \A stops : DoneGone(riders, stops, j) => DoneGone(w, stops, j)
<1> DEFINE w == Selected(riders, kept)
<1>1. w \in Seq(Rider(j))
  BY SelectedEntries
<1>2. PICK f : Picks(f, w, riders, kept)
  BY SelectedEntries
<1>3. riders = <<>> => w = <<>>
  <2> HIDE DEF w
  <2>1. ASSUME riders = <<>> PROVE DOMAIN w = {}
    <3>1. kept = {}
      BY <2>1
    <3> QED
      BY <3>1, <1>2 DEF Picks
  <2> QED
    BY <2>1, <1>1
<1> HIDE DEF w
<1>4. \A m \in DOMAIN w : f[m] \in DOMAIN riders /\ f[m] \in kept /\ w[m] = riders[f[m]]
  BY <1>2 DEF Picks
<1>5. \A m \in DOMAIN w : m \in Active(w) <=> f[m] \in Active(riders)
  BY <1>4 DEF Active
<1>6. Active(w) \subseteq DOMAIN w
  BY DEF Active
<1>7. \A k \in Active(riders) \cap kept : \E m \in Active(w) : f[m] = k
  BY <1>2, <1>5, <1>6 DEF Picks, Active
<1>8. RiderList(w, j)
  BY <1>2, <1>4, <1>5, <1>6 DEF RiderList, Picks
<1>9. IdsOf(w) = {riders[k].id : k \in Active(riders) \cap kept}
  BY <1>4, <1>5, <1>6, <1>7 DEF IdsOf
<1>10. Goals(w, j) = {j[riders[k].id].to : k \in Active(riders) \cap kept}
  BY <1>4, <1>5, <1>6, <1>7 DEF Goals
<1>11. Active(w) = {} <=> Active(riders) \cap kept = {}
  BY <1>4, <1>5, <1>6, <1>7
<1>12. SameLegs(riders, j) => SameLegs(w, j)
  BY <1>4 DEF SameLegs
<1>13. \A station : LegsFrom(riders, station, j) => LegsFrom(w, station, j)
  BY <1>4 DEF LegsFrom
<1>14. kept \subseteq Active(riders) => NoneDone(w)
  BY <1>4 DEF NoneDone, Active
<1>15. \A stops : DoneGone(riders, stops, j) => DoneGone(w, stops, j)
  BY <1>4 DEF DoneGone
<1> QED
  BY <1>1, <1>3, <1>8, <1>9, <1>10, <1>11, <1>12, <1>13, <1>14, <1>15 DEF w

\* A rider that gets on.
LEMMA RiderAdded ==
  ASSUME NEW j, IsJourney(j), NEW riders \in Seq(Rider(j)), RiderList(riders, j), NEW r \in Rider(j), ~r.done,
         LegOf(r, j) # j[r.id].to, r.id \notin IdsOf(riders)
  PROVE  LET w == Append(riders, r)
         IN  /\ w \in Seq(Rider(j)) /\ RiderList(w, j) /\ w # <<>>
             /\ IdsOf(w) = IdsOf(riders) \cup {r.id} /\ Goals(w, j) = Goals(riders, j) \cup {j[r.id].to}
             /\ Active(w) # {}
             /\ \A station : LegsFrom(riders, station, j) /\ LegOf(r, j) = station => LegsFrom(w, station, j) /\ SameLegs(w, j)
             /\ NoneDone(riders) => NoneDone(w) /\ \A stops : DoneGone(w, stops, j)
<1> DEFINE w == Append(riders, r)
           n == Len(riders) + 1
<1>1. w \in Seq(Rider(j)) /\ DOMAIN w = DOMAIN riders \cup {n} /\ n \notin DOMAIN riders /\ w[n] = r
      /\ \A k \in DOMAIN riders : w[k] = riders[k]
  OBVIOUS
<1> HIDE DEF w, n
<1>2. Active(w) = Active(riders) \cup {n} /\ Active(riders) \subseteq DOMAIN riders
  BY <1>1 DEF Active
<1>3. IdsOf(w) = IdsOf(riders) \cup {r.id}
  BY <1>1, <1>2 DEF IdsOf
<1>4. Goals(w, j) = Goals(riders, j) \cup {j[r.id].to}
  BY <1>1, <1>2 DEF Goals
<1>5. RiderList(w, j)
  <2>1. \A k \in Active(riders) : riders[k].id \in IdsOf(riders)
    BY DEF IdsOf
  <2> QED
    BY <1>1, <1>2, <2>1 DEF RiderList
<1>6. \A station : LegsFrom(riders, station, j) /\ LegOf(r, j) = station => LegsFrom(w, station, j) /\ SameLegs(w, j)
  BY <1>1 DEF LegsFrom, SameLegs
<1>7. NoneDone(riders) => NoneDone(w) /\ \A stops : DoneGone(w, stops, j)
  BY <1>1 DEF NoneDone, DoneGone
<1>8. w # <<>> /\ Active(w) # {}
  BY <1>1, <1>2
<1> QED
  BY <1>1, <1>3, <1>4, <1>5, <1>6, <1>7, <1>8 DEF w

\* A list of different stops, without a station, without its head, and with one more.
LEMMA StopsLeft ==
  ASSUME NEW stops \in Seq(Passenger), StopsDiffer(stops), NEW station
  PROVE  LET w == WithoutStop(stops, station)
         IN  w \in Seq(Passenger) /\ StopsDiffer(w) /\ Range(w) = Range(stops) \ {station}
<1> DEFINE left == {k \in DOMAIN stops : stops[k] # station}
           w == Selected(stops, left)
<1>1. left \in SUBSET (DOMAIN stops)
  OBVIOUS
<1>2. \A k \in left : stops[k] # station
  OBVIOUS
<1>3. \A k \in DOMAIN stops : stops[k] # station => k \in left
  OBVIOUS
<1>4. WithoutStop(stops, station) = w
  BY DEF WithoutStop
<1> HIDE DEF left
<1>5. w \in Seq(Passenger)
  BY <1>1, SelectedEntries
<1>6. PICK f : Picks(f, w, stops, left)
  BY <1>1, SelectedEntries
<1> HIDE DEF w
<1>7. StopsDiffer(w)
  BY <1>1, <1>6 DEF StopsDiffer, Picks
<1>8. Range(w) = Range(stops) \ {station}
  BY <1>1, <1>2, <1>3, <1>6 DEF Range, Picks
<1> QED
  BY <1>4, <1>5, <1>7, <1>8

\* The list of stops without its head.
LEMMA HeadPassed ==
  ASSUME NEW stops \in Seq(Passenger), StopsDiffer(stops), stops # <<>>
  PROVE  /\ Tail(stops) \in Seq(Passenger) /\ StopsDiffer(Tail(stops)) /\ Range(Tail(stops)) = Range(stops) \ {stops[1]}
         /\ Head(stops) = stops[1]
<1> DEFINE w == Tail(stops)
<1>1. w \in Seq(Passenger) /\ \A k \in DOMAIN w : k + 1 \in DOMAIN stops /\ w[k] = stops[k + 1] /\ k + 1 # 1
  OBVIOUS
<1>2. \A k \in DOMAIN stops : k = 1 \/ (k - 1 \in DOMAIN w /\ (k - 1) + 1 = k)
  OBVIOUS
<1>3. 1 \in DOMAIN stops /\ Head(stops) = stops[1]
  OBVIOUS
<1>4. \A k, l \in DOMAIN w : k # l => k + 1 # l + 1
  OBVIOUS
<1> HIDE DEF w
<1>5. StopsDiffer(w)
  BY <1>1, <1>4 DEF StopsDiffer
<1>6. Range(w) = Range(stops) \ {stops[1]}
  <2>1. \A k \in DOMAIN w : w[k] \in Range(stops) /\ w[k] # stops[1]
    BY <1>1, <1>3 DEF StopsDiffer, Range
  <2>2. \A k \in DOMAIN stops : stops[k] # stops[1] => stops[k] \in Range(w)
    BY <1>1, <1>2 DEF Range
  <2> QED
    BY <2>1, <2>2 DEF Range
<1> QED
  BY <1>1, <1>3, <1>5, <1>6 DEF w

\* The list of stops with a new one somewhere.
LEMMA StopInserted ==
  ASSUME NEW stops \in Seq(Passenger), StopsDiffer(stops), NEW n \in 1 .. Len(stops) + 1, NEW station \in Passenger \ Range(stops)
  PROVE  LET w == InsertAt(stops, n, station)
         IN  w \in Seq(Passenger) /\ StopsDiffer(w) /\ Range(w) = Range(stops) \cup {station} /\ w # <<>>
<1> DEFINE w == InsertAt(stops, n, station)
           from(k) == IF k < n THEN k ELSE k - 1
<1>1. Len(stops) \in Nat /\ DOMAIN stops = 1 .. Len(stops)
  OBVIOUS
<1>2. /\ w \in Seq(Passenger) /\ DOMAIN w = 1 .. Len(stops) + 1
      /\ \A k \in 1 .. Len(stops) + 1 : w[k] = IF k < n THEN stops[k] ELSE IF k = n THEN station ELSE stops[k - 1]
  <2>1. station \in Passenger /\ stops \in Seq(Passenger) /\ n \in 1 .. Len(stops) + 1
    OBVIOUS
  <2> HIDE DEF w
  <2>2. /\ InsertAt(stops, n, station) \in Seq(Passenger) /\ DOMAIN InsertAt(stops, n, station) = 1 .. Len(stops) + 1
        /\ \A k \in 1 .. Len(stops) + 1 :
               InsertAt(stops, n, station)[k] = IF k < n THEN stops[k] ELSE IF k = n THEN station ELSE stops[k - 1]
    BY ONLY <2>1, InsertAtEntries, SMTT(30)
  <2> QED
    BY <2>2 DEF w
<1> HIDE DEF w
<1>3. \A k \in DOMAIN w : k # n => from(k) \in DOMAIN stops /\ w[k] = stops[from(k)]
  BY <1>1, <1>2
<1>4. \A i, k \in DOMAIN w : i # k /\ i # n /\ k # n => from(i) # from(k)
  BY <1>1, <1>2
<1>5. n \in DOMAIN w /\ w[n] = station
  BY <1>1, <1>2
<1>6. \A k \in DOMAIN stops : \E i \in DOMAIN w : i # n /\ from(i) = k
  <2> SUFFICES ASSUME NEW k \in DOMAIN stops PROVE \E i \in DOMAIN w : i # n /\ from(i) = k
    OBVIOUS
  <2>1. CASE k < n
    <3>1. k \in DOMAIN w /\ from(k) = k /\ k # n
      BY <1>1, <1>2, <2>1
    <3> QED
      BY <3>1
  <2>2. CASE k >= n
    <3>1. k + 1 \in DOMAIN w /\ from(k + 1) = k /\ k + 1 # n
      BY <1>1, <1>2, <2>2
    <3> QED
      BY <3>1
  <2> QED
    BY <1>1, <2>1, <2>2
<1> HIDE DEF from
<1>7. \A k \in DOMAIN w : k # n => w[k] # station /\ w[k] \in Range(stops)
  BY <1>3 DEF Range
<1>8. StopsDiffer(w)
  <2> SUFFICES ASSUME NEW i \in DOMAIN w, NEW k \in DOMAIN w, i # k PROVE w[i] # w[k]
    BY DEF StopsDiffer
  <2>1. CASE i # n /\ k # n
    BY <2>1, <1>3, <1>4 DEF StopsDiffer
  <2>2. CASE i = n \/ k = n
    BY <2>2, <1>5, <1>7
  <2> QED
    BY <2>1, <2>2
<1>9. Range(w) = Range(stops) \cup {station}
  <2>1. \A k \in DOMAIN stops : stops[k] \in Range(w)
    BY <1>3, <1>6 DEF Range
  <2>2. station \in Range(w)
    BY <1>5 DEF Range
  <2> QED
    BY <1>5, <1>7, <2>1, <2>2 DEF Range
<1>10. w # <<>>
  BY <1>5
<1> QED
  BY <1>2, <1>8, <1>9, <1>10 DEF w

-----------------------------------------------------------------------------
(***************************************************************************)
(* The steps of a pod.                                                     *)
(***************************************************************************)
J == options.journey

Trip(j) == [id : DOMAIN j, pod : OptPods, excluded : OptPods, boarded : BOOLEAN, leg : Passenger \cup {NoStation},
            deferPod : OptPods, deferral : {"none", "open", "over"}]

\* The origin and the destination of a trip in the names of this module.
LEMMA NamesOfTrips == \A trip : LegOrigin(trip) = LegOf(trip, J) /\ ToOf(trip.id) = J[trip.id].to
BY DEF LegOrigin, LegOf, ToOf, J

\* Every order goes from one passenger station to another, and its ID is not zero.
LEMMA JourneyOf ==
  ASSUME NEW j, IsJourney(j)
  PROVE  \A k \in DOMAIN j : j[k].from \in Passenger /\ j[k].to \in Passenger /\ j[k].from # j[k].to /\ k \in Nat \ {0}
<1>1. j \in Seq([from : Passenger, to : Passenger])
  BY DEF IsJourney
<1> DEFINE O == [from : Passenger, to : Passenger]
<1>2. \A k \in DOMAIN j : j[k] \in O
  <2> HIDE DEF O
  <2>1. j \in Seq(O)
    BY <1>1 DEF O
  <2> QED
    BY <2>1
<1>3. \A k \in DOMAIN j : k \in Nat \ {0}
  <2>1. DOMAIN j = 1 .. Len(j) /\ Len(j) \in Nat
    BY <1>1
  <2> QED
    BY <2>1
<1> QED
  BY <1>2, <1>3 DEF IsJourney

\* The party, the holds and the purpose of a pod stay.
Kin(v, w) == w.riders = v.riders /\ w.withdrawn = v.withdrawn /\ w.op = v.op

\* A trip that waits at the station can count on v.
PodServes(v, station) ==
    /\ InService(v) /\ ~v.occupied /\ Active(v.riders) = {}
    /\ IdleAt(v, station) \/ (v.relocatingTo = station /\ ~v.released /\ ~v.rebalancing)

\* A pod out of service is the only one with a purpose of its own.
LEMMA InServiceServes == ASSUME NEW j, NEW v, PodGood(v, j), InService(v) PROVE v.op = Service /\ v.op.purpose = "service"
BY DEF PodGood, PurposeOK, InService, PodRecord, Purpose, Service

\* redirect: an empty pod on its way goes to another station, or stays where it is.
LEMMA PodRedirected ==
  ASSUME NEW j, NEW v, PodGood(v, j), v.op.purpose = "service", v.relocatingTo # NoStation, NEW station \in Stations,
         NEW w \in Redirected(v, station)
  PROVE  /\ PodGood(w, j) /\ Kin(v, w) /\ ~w.occupied /\ Active(w.riders) = {}
         /\ IdleAt(w, station) \/ (w.relocatingTo = station /\ ~w.rebalancing)
<1> DEFINE going == [v EXCEPT !.destination = station, !.relocatingTo = station, !.rebalancing = FALSE]
           staying == [going EXCEPT !.activity = "Idle", !.relocatingTo = NoStation, !.released = FALSE]
<1>1. v \in PodRecord(j) /\ MovesEmpty(v) /\ station # NoStation /\ station \in Places /\ NoStation \in Places
  BY StationsAre DEF PodGood, FlagsOK
<1>2. w = going \/ (w = staying /\ v.activity = "DepartingEmpty" /\ v.at = station)
  BY DEF Redirected
<1>3. CASE w = going
  <2>1. w \in PodRecord(j)
    BY <1>1, <1>3 DEF PodRecord
  <2>2. /\ w.released = v.released /\ w.riders = v.riders /\ w.activity = v.activity /\ w.at = v.at /\ w.destination = station
        /\ w.relocatingTo = station /\ w.occupied = v.occupied /\ w.recorded = v.recorded /\ w.stops = v.stops
        /\ w.phase = v.phase /\ w.rebalancing = FALSE /\ w.withdrawn = v.withdrawn /\ w.op = v.op
    BY <1>1, <1>3 DEF PodRecord
  <2>3. RidersOK(w, j) /\ StopsOK(w, j)
    BY <1>1, <2>2 DEF PodGood, RidersOK, StopsOK, MovesEmpty, BoardsHere
  <2>4. FlagsOK(w) /\ PurposeOK(w)
    BY <1>1, <2>2 DEF PodGood, FlagsOK, PurposeOK, MovesEmpty
  <2>5. ~w.occupied /\ Active(w.riders) = {}
    BY <1>1, <2>2 DEF PodGood, RidersOK, FlagsOK, MovesEmpty
  <2> QED
    BY <2>1, <2>2, <2>3, <2>4, <2>5 DEF PodGood, Kin
<1>4. CASE w = staying /\ v.activity = "DepartingEmpty" /\ v.at = station
  <2>1. w \in PodRecord(j)
    BY <1>1, <1>4 DEF PodRecord, Activities
  <2>2. /\ w.released = FALSE /\ w.riders = v.riders /\ w.activity = "Idle" /\ w.at = station /\ w.destination = station
        /\ w.relocatingTo = NoStation /\ w.occupied = v.occupied /\ w.recorded = v.recorded /\ w.stops = v.stops
        /\ w.phase = v.phase /\ w.rebalancing = FALSE /\ w.withdrawn = v.withdrawn /\ w.op = v.op
    BY <1>1, <1>4 DEF PodRecord
  <2>3. RidersOK(w, j)
    BY <1>1, <1>4, <2>2 DEF PodGood, RidersOK, MovesEmpty, BoardsHere
  <2>6. StopsOK(w, j)
    BY <1>1, <1>4, <2>2 DEF PodGood, StopsOK, MovesEmpty
  <2>4. FlagsOK(w) /\ PurposeOK(w)
    BY <1>1, <1>4, <2>2 DEF PodGood, FlagsOK, PurposeOK, MovesEmpty
  <2>5. ~w.occupied /\ Active(w.riders) = {}
    BY <1>1, <2>2 DEF PodGood, RidersOK, FlagsOK, MovesEmpty
  <2> QED
    BY <2>1, <2>2, <2>3, <2>4, <2>5, <2>6 DEF PodGood, Kin, IdleAt
<1> QED
  BY <1>2, <1>3, <1>4

\* A pod that is no longer released.
LEMMA ReleasedCleared ==
  ASSUME NEW j, NEW v, PodGood(v, j)
  PROVE  LET w == [v EXCEPT !.released = FALSE]
         IN  /\ PodGood(w, j) /\ Kin(v, w) /\ w.released = FALSE /\ w.occupied = v.occupied /\ w.activity = v.activity
             /\ w.at = v.at /\ w.relocatingTo = v.relocatingTo /\ w.rebalancing = v.rebalancing
<1> DEFINE w == [v EXCEPT !.released = FALSE]
<1>1. v \in PodRecord(j) /\ w \in PodRecord(j)
  BY DEF PodGood, PodRecord
<1>2. /\ w.released = FALSE /\ w.riders = v.riders /\ w.activity = v.activity /\ w.at = v.at /\ w.destination = v.destination
      /\ w.relocatingTo = v.relocatingTo /\ w.occupied = v.occupied /\ w.recorded = v.recorded /\ w.stops = v.stops
      /\ w.phase = v.phase /\ w.rebalancing = v.rebalancing /\ w.withdrawn = v.withdrawn /\ w.op = v.op
  BY <1>1 DEF PodRecord
<1> HIDE DEF w
<1>3. RidersOK(w, j) /\ StopsOK(w, j) /\ FlagsOK(w) /\ PurposeOK(w)
  BY <1>2 DEF PodGood, RidersOK, StopsOK, MovesEmpty, BoardsHere, FlagsOK, PurposeOK
<1> QED
  BY <1>1, <1>2, <1>3 DEF PodGood, Kin, w

\* sendToPickup: whatever the pod does, the trip can count on it.
LEMMA PodSent ==
  ASSUME NEW j, NEW v, PodGood(v, j), InService(v), ~v.occupied, v.activity = "Idle" \/ v.relocatingTo # NoStation,
         NEW station \in Stations, NEW w \in SentToPickup(v, station)
  PROVE  PodGood(w, j) /\ Kin(v, w) /\ PodServes(w, station)
<1>1. v.op.purpose = "service" /\ v \in PodRecord(j)
  BY InServiceServes DEF PodGood
<1>2. CASE v.activity = "Idle"
  <2>1. Active(v.riders) = {}
    BY <1>2 DEF PodGood, RidersOK
  <2>2. CASE IdleAt(v, station)
    BY <2>1, <2>2 DEF SentToPickup, Kin, PodServes
  <2>3. CASE ~IdleAt(v, station)
    <3>1. w = EmptyMove(v, station, FALSE)
      BY <1>2, <2>3 DEF SentToPickup
    <3>2. PodGood(w, j)
      BY <3>1, <1>2, EmptyMoved
    <3>3. /\ w.riders = v.riders /\ w.withdrawn = v.withdrawn /\ w.op = v.op /\ w.occupied = v.occupied
          /\ w.relocatingTo = station /\ w.released = FALSE /\ w.rebalancing = FALSE
      BY <1>1, <3>1 DEF EmptyMove, PodRecord
    <3> QED
      BY <2>1, <3>2, <3>3 DEF Kin, PodServes, InService
  <2> QED
    BY <2>2, <2>3
<1>3. CASE v.activity # "Idle"
  <2>1. PICK u \in Redirected(v, station) : w = [u EXCEPT !.released = FALSE]
    BY <1>3 DEF SentToPickup, IdleAt
  <2>2. /\ PodGood(u, j) /\ Kin(v, u) /\ ~u.occupied /\ Active(u.riders) = {}
        /\ IdleAt(u, station) \/ (u.relocatingTo = station /\ ~u.rebalancing)
    BY <1>1, <1>3, PodRedirected
  <2>3. /\ PodGood(w, j) /\ Kin(u, w) /\ w.released = FALSE /\ w.occupied = u.occupied /\ w.activity = u.activity
        /\ w.at = u.at /\ w.relocatingTo = u.relocatingTo /\ w.rebalancing = u.rebalancing
    BY <2>1, <2>2, ReleasedCleared
  <2> QED
    BY <2>2, <2>3 DEF Kin, PodServes, InService, IdleAt
<1> QED
  BY <1>2, <1>3

\* Boarding: the party of a waiting trip at its station.
LEMMA PodBoarded ==
  ASSUME IsJourney(J), NEW v, PodGood(v, J), NEW trip, trip.id \in DOMAIN J, trip.leg \in Passenger \cup {NoStation},
         LegOrigin(trip) # ToOf(trip.id), IdleAt(v, LegOrigin(trip)), InService(v)
  PROVE  /\ PodGood(Boards(v, trip), J) /\ IdsOf(Boards(v, trip).riders) = {trip.id} /\ Boards(v, trip).op = Service
         /\ Boards(v, trip).withdrawn = v.withdrawn
<1> DEFINE w == Boards(v, trip)
           r == RiderOf(trip)
<1>1. /\ r \in Rider(J) /\ ~r.done /\ r.id = trip.id /\ LegOf(r, J) = LegOrigin(trip) /\ LegOf(r, J) # J[r.id].to
  BY NamesOfTrips DEF RiderOf, Rider, LegOf
<1> HIDE DEF r
<1>2. <<r>> \in Seq(Rider(J)) /\ DOMAIN <<r>> = {1} /\ <<r>>[1] = r
  BY <1>1
<1>3. Active(<<r>>) = {1}
  BY <1>1, <1>2 DEF Active
<1>4. /\ RiderList(<<r>>, J) /\ NoneDone(<<r>>) /\ LegsFrom(<<r>>, LegOrigin(trip), J) /\ SameLegs(<<r>>, J)
      /\ DoneGone(<<r>>, <<ToOf(trip.id)>>, J)
  BY <1>1, <1>2, <1>3 DEF RiderList, NoneDone, LegsFrom, SameLegs, DoneGone
<1>5. IdsOf(<<r>>) = {trip.id} /\ Goals(<<r>>, J) = {ToOf(trip.id)}
  BY <1>1, <1>2, <1>3, NamesOfTrips DEF IdsOf, Goals
<1>6. /\ ToOf(trip.id) \in Passenger /\ <<ToOf(trip.id)>> \in Seq(Passenger) /\ <<ToOf(trip.id)>>[1] = ToOf(trip.id)
      /\ Range(<<ToOf(trip.id)>>) = {ToOf(trip.id)} /\ StopsDiffer(<<ToOf(trip.id)>>) /\ LegOrigin(trip) \in Passenger
  <2>1. ToOf(trip.id) \in Passenger /\ J[trip.id].from \in Passenger
    BY JourneyOf, NamesOfTrips
  <2> QED
    BY <2>1, NamesOfTrips DEF Range, StopsDiffer, LegOf
<1>7. v \in PodRecord(J) /\ v.op = Service /\ v.activity = "Idle" /\ v.at = LegOrigin(trip)
  BY InServiceServes DEF PodGood, IdleAt
<1>8. w \in PodRecord(J)
  BY <1>2, <1>6, <1>7, StationsAre DEF PodRecord, Boards, r, Activities
<1>9. /\ w.released = v.released /\ w.riders = <<r>> /\ w.activity = "Boarding" /\ w.at = v.at /\ w.destination = ToOf(trip.id)
      /\ w.relocatingTo = v.relocatingTo /\ w.occupied = v.occupied /\ w.recorded = FALSE /\ w.stops = <<ToOf(trip.id)>>
      /\ w.phase = 1 /\ w.rebalancing = v.rebalancing /\ w.withdrawn = v.withdrawn /\ w.op = v.op
  BY <1>7 DEF PodRecord, Boards, r
<1> HIDE DEF w
<1>10. FlagsOK(w) /\ PurposeOK(w)
  BY <1>6, <1>7, <1>9, StationsAre DEF PodGood, FlagsOK, PurposeOK, MovesEmpty, Service
<1>11. RidersOK(w, J)
  BY <1>3, <1>4, <1>7, <1>9 DEF PodGood, RidersOK, FlagsOK, BoardsHere, MovesEmpty
<1>12. StopsOK(w, J)
  BY <1>5, <1>6, <1>7, <1>9 DEF PodGood, StopsOK, FlagsOK, MovesEmpty
<1> QED
  BY <1>5, <1>7, <1>8, <1>9, <1>10, <1>11, <1>12 DEF PodGood, w

\* The stop list that takes in the destination of a trip.
LEMMA StopsTaken ==
  ASSUME NEW v, v.stops \in Seq(Passenger), StopsDiffer(v.stops), NEW trip, ToOf(trip.id) \in Passenger, NEW stops \in JoinStops(v, trip)
  PROVE  stops \in Seq(Passenger) /\ StopsDiffer(stops) /\ Range(stops) = Range(v.stops) \cup {ToOf(trip.id)} /\ stops # <<>>
         /\ stops[1] \in Passenger
<1>1. CASE ToOf(trip.id) \in Range(v.stops)
  <2>1. stops = v.stops
    BY <1>1 DEF JoinStops
  <2>2. stops # <<>>
    BY <1>1, <2>1 DEF Range
  <2> QED
    BY <1>1, <2>1, <2>2
<1>2. CASE ToOf(trip.id) \notin Range(v.stops)
  <2>1. stops \in AddedStops(v, ToOf(trip.id))
    BY <1>2 DEF JoinStops
  <2>2. PICK k \in 1 .. Len(v.stops) + 1 : stops = InsertAt(v.stops, k, ToOf(trip.id))
    BY <2>1 DEF AddedStops
  <2>3. ToOf(trip.id) \in Passenger \ Range(v.stops)
    BY <1>2
  <2>4. stops \in Seq(Passenger) /\ StopsDiffer(stops) /\ Range(stops) = Range(v.stops) \cup {ToOf(trip.id)} /\ stops # <<>>
    BY <2>2, <2>3, StopInserted
  <2> QED
    BY <2>4
<1> QED
  BY <1>1, <1>2

\* The party of the trip joins the pod that boards at its station.
LEMMA PodJoined ==
  ASSUME IsJourney(J), NEW v, PodGood(v, J), NEW trip, trip.id \in DOMAIN J, trip.leg \in Passenger \cup {NoStation},
         LegOrigin(trip) # ToOf(trip.id), trip.id \notin IdsOf(v.riders), InService(v), v.at = LegOrigin(trip),
         NEW stops \in JoinStops(v, trip)
  PROVE  /\ v.activity = "Boarding" /\ ~v.occupied =>
                LET w == JoinedPod(v, trip, stops)
                IN  /\ PodGood(w, J) /\ w.op = v.op /\ w.withdrawn = v.withdrawn /\ IdsOf(w.riders) = IdsOf(v.riders) \cup {trip.id}
         /\ v.activity = "Continuing" \/ (v.activity = "Boarding" /\ v.occupied) =>
                LET w == AboardPod(v, trip, stops)
                IN  /\ PodGood(w, J) /\ w.op = v.op /\ w.withdrawn = v.withdrawn /\ IdsOf(w.riders) = IdsOf(v.riders) \cup {trip.id}
<1> DEFINE r == RiderOf(trip)
           riders == Append(v.riders, r)
<1>1. r \in Rider(J) /\ ~r.done /\ r.id = trip.id /\ LegOf(r, J) = LegOrigin(trip) /\ LegOf(r, J) # J[r.id].to
  BY NamesOfTrips DEF RiderOf, Rider, LegOf
<1>2. v.riders \in Seq(Rider(J)) /\ RiderList(v.riders, J) /\ v.stops \in Seq(Passenger) /\ StopsDiffer(v.stops)
  BY DEF PodGood, PodRecord, RidersOK, StopsOK
<1> HIDE DEF r
<1>3. /\ riders \in Seq(Rider(J)) /\ RiderList(riders, J) /\ riders # <<>>
      /\ IdsOf(riders) = IdsOf(v.riders) \cup {trip.id} /\ Goals(riders, J) = Goals(v.riders, J) \cup {ToOf(trip.id)}
      /\ Active(riders) # {}
      /\ LegsFrom(v.riders, v.at, J) => LegsFrom(riders, v.at, J) /\ SameLegs(riders, J)
      /\ NoneDone(v.riders) => NoneDone(riders) /\ DoneGone(riders, stops, J)
  BY <1>1, <1>2, RiderAdded, NamesOfTrips
<1>4. ToOf(trip.id) \in Passenger
  BY JourneyOf, NamesOfTrips
<1>5. /\ stops \in Seq(Passenger) /\ StopsDiffer(stops) /\ Range(stops) = Range(v.stops) \cup {ToOf(trip.id)} /\ stops # <<>>
      /\ stops[1] \in Passenger
  BY <1>2, <1>4, StopsTaken
<1>6. v \in PodRecord(J) /\ v.op = Service /\ v.op.purpose = "service"
  BY InServiceServes DEF PodGood
<1>7. ASSUME v.activity = "Boarding" /\ ~v.occupied
      PROVE  LET w == JoinedPod(v, trip, stops)
             IN  /\ PodGood(w, J) /\ w.op = v.op /\ w.withdrawn = v.withdrawn /\ IdsOf(w.riders) = IdsOf(v.riders) \cup {trip.id}
  <2> DEFINE w == JoinedPod(v, trip, stops)
  <2>1. w \in PodRecord(J)
    BY <1>3, <1>5, <1>6, StationsAre DEF PodRecord, JoinedPod, r
  <2>2. /\ w.released = v.released /\ w.riders = riders /\ w.activity = "Boarding" /\ w.at = v.at /\ w.destination = stops[1]
        /\ w.relocatingTo = v.relocatingTo /\ w.occupied = v.occupied /\ w.recorded = v.recorded /\ w.stops = stops
        /\ w.phase = v.phase /\ w.rebalancing = v.rebalancing /\ w.withdrawn = v.withdrawn /\ w.op = v.op
    BY <1>6, <1>7 DEF PodRecord, JoinedPod, r
  <2> HIDE DEF w, riders
  <2>3. FlagsOK(w) /\ PurposeOK(w)
    BY <1>6, <1>7, <2>2 DEF PodGood, FlagsOK, PurposeOK, MovesEmpty
  <2>4. RidersOK(w, J)
    BY <1>3, <1>7, <2>2 DEF PodGood, RidersOK, BoardsHere, MovesEmpty
  <2>5. StopsOK(w, J)
    BY <1>3, <1>5, <1>7, <2>2 DEF PodGood, StopsOK, MovesEmpty
  <2> QED
    BY <1>3, <2>1, <2>2, <2>3, <2>4, <2>5 DEF PodGood, w
<1>8. ASSUME v.activity = "Continuing" \/ (v.activity = "Boarding" /\ v.occupied)
      PROVE  LET w == AboardPod(v, trip, stops)
             IN  /\ PodGood(w, J) /\ w.op = v.op /\ w.withdrawn = v.withdrawn /\ IdsOf(w.riders) = IdsOf(v.riders) \cup {trip.id}
  <2> DEFINE w == AboardPod(v, trip, stops)
  <2>1. w \in PodRecord(J)
    BY <1>3, <1>5, <1>6, StationsAre DEF PodRecord, JoinedPod, AboardPod, r, Activities
  <2>2. /\ w.released = v.released /\ w.riders = riders /\ w.activity = "Boarding" /\ w.at = v.at /\ w.destination = stops[1]
        /\ w.relocatingTo = v.relocatingTo /\ w.occupied = v.occupied /\ w.recorded = TRUE /\ w.stops = stops
        /\ w.rebalancing = v.rebalancing /\ w.withdrawn = v.withdrawn /\ w.op = v.op
    BY <1>6, <1>8 DEF PodRecord, JoinedPod, AboardPod, r
  <2> HIDE DEF w, riders
  <2>3. FlagsOK(w) /\ PurposeOK(w)
    BY <1>6, <1>8, <2>2 DEF PodGood, FlagsOK, PurposeOK, MovesEmpty
  <2>4. RidersOK(w, J)
    BY <1>3, <1>8, <2>2 DEF PodGood, RidersOK, FlagsOK, BoardsHere, MovesEmpty
  <2>5. StopsOK(w, J)
    BY <1>3, <1>5, <1>8, <2>2 DEF PodGood, StopsOK, MovesEmpty
  <2> QED
    BY <1>3, <2>1, <2>2, <2>3, <2>4, <2>5 DEF PodGood, w
<1> QED
  BY <1>7, <1>8

\* Whatever counts on v counts on w.
Keeps(v, w) == (\A station \in Passenger : PodServes(v, station) => PodServes(w, station)) /\ (InService(v) => InService(w))

\* parkReleased keeps the pod good, and whoever counts on it can still do so.
LEMMA PodParked ==
  ASSUME NEW j, NEW v, PodGood(v, j), NEW w \in ParkedStates(v)
  PROVE  PodGood(w, j) /\ Kin(v, w) /\ Keeps(v, w)
<1>1. CASE w = v
  BY <1>1 DEF Kin, Keeps
<1>2. CASE w # v
  <2>1. PICK station \in Stations : w \in Redirected(v, station)
    BY <1>2 DEF ParkedStates
  <2>2. v.released /\ InService(v)
    BY <1>2 DEF ParkedStates
  <2>3. MovesEmpty(v) /\ v.relocatingTo # NoStation /\ v.op.purpose = "service"
    BY <2>2, StationsAre, InServiceServes DEF PodGood, FlagsOK, PodRecord
  <2>4. \A st \in Passenger : ~PodServes(v, st)
    BY <2>2, <2>3 DEF PodServes, IdleAt, MovesEmpty
  <2>5. PodGood(w, j) /\ Kin(v, w)
    BY <2>1, <2>3, PodRedirected
  <2> QED
    BY <2>2, <2>4, <2>5 DEF Keeps, Kin, InService
<1> QED
  BY <1>1, <1>2

\* Positioning: an idle pod sets off, or a pod on its way to a guarded place gives its claim up.
LEMMA PodPositioned ==
  ASSUME NEW j, NEW s, NEW p \in Pods, PodGood(s.pods[p], j), NEW w \in Positioned(s, p)
  PROVE  /\ PodGood(w, j) /\ Kin(s.pods[p], w) /\ InService(s.pods[p])
         /\ (\A station \in Passenger : ~PodServes(s.pods[p], station)) \/ ~Bound(s, p)
<1> DEFINE v == s.pods[p]
<1>1. CASE v.activity = "Idle" /\ InService(v) /\ ~Bound(s, p)
  <2>1. PICK station \in Stations, guarded \in BOOLEAN : w = EmptyMove(v, station, guarded)
    BY <1>1 DEF Positioned
  <2>2. PodGood(w, j) /\ w.riders = v.riders
    BY <1>1, <2>1, EmptyMoved
  <2>3. w.withdrawn = v.withdrawn /\ w.op = v.op
    BY <2>1 DEF PodGood, PodRecord, EmptyMove
  <2> QED
    BY <1>1, <2>2, <2>3 DEF Kin
<1>2. CASE ~(v.activity = "Idle" /\ InService(v) /\ ~Bound(s, p))
  <2> DEFINE u == [v EXCEPT !.rebalancing = FALSE, !.released = TRUE]
  <2>1. v.relocatingTo # NoStation /\ InService(v) /\ v.rebalancing /\ w \in ParkedStates(u)
    BY <1>2 DEF Positioned
  <2>2. v \in PodRecord(j) /\ v.op = Service /\ v.op.purpose = "service" /\ MovesEmpty(v)
    BY <2>1, InServiceServes DEF PodGood, FlagsOK
  <2>3. u \in PodRecord(j)
    BY <2>2 DEF PodRecord
  <2>4. /\ u.released = TRUE /\ u.riders = v.riders /\ u.activity = v.activity /\ u.at = v.at /\ u.destination = v.destination
        /\ u.relocatingTo = v.relocatingTo /\ u.occupied = v.occupied /\ u.recorded = v.recorded /\ u.stops = v.stops
        /\ u.phase = v.phase /\ u.rebalancing = FALSE /\ u.withdrawn = v.withdrawn /\ u.op = v.op
    BY <2>2 DEF PodRecord
  <2> HIDE DEF u
  <2>5. RidersOK(u, j) /\ StopsOK(u, j)
    BY <2>4 DEF PodGood, RidersOK, StopsOK, MovesEmpty, BoardsHere
  <2>6. FlagsOK(u) /\ PurposeOK(u)
    BY <2>2, <2>4 DEF PodGood, FlagsOK, PurposeOK, MovesEmpty
  <2>7. PodGood(w, j) /\ Kin(u, w)
    <3>1. PodGood(u, j)
      BY <2>3, <2>5, <2>6 DEF PodGood
    <3> QED
      BY <3>1, <2>1, PodParked
  <2>8. \A station \in Passenger : ~PodServes(v, station)
    BY <2>1, <2>2 DEF PodServes, IdleAt, MovesEmpty
  <2> QED
    BY <2>1, <2>4, <2>7, <2>8 DEF Kin
<1> QED
  BY <1>1, <1>2

\* A departure and an arrival.
LEMMA PodDeparted ==
  ASSUME NEW j, NEW v, PodGood(v, j), Departs(v), v.phase = 0
  PROVE  PodGood(Departure(v), j) /\ Kin(v, Departure(v)) /\ Keeps(v, Departure(v))
<1> DEFINE w == Departure(v)
<1>1. v \in PodRecord(j) /\ v.activity \in {"Boarding", "DepartingEmpty", "Continuing"}
  BY DEF PodGood, Departs
<1>2. w \in PodRecord(j)
  BY <1>1, StationsAre DEF PodRecord, Departure, Activities
<1>3. /\ w.released = v.released /\ w.riders = v.riders /\ w.activity = "Traveling" /\ w.at = NoStation /\ w.destination = v.destination
      /\ w.relocatingTo = v.relocatingTo /\ (w.occupied <=> v.activity # "DepartingEmpty") /\ w.recorded = v.recorded /\ w.stops = v.stops
      /\ w.phase = 0 /\ w.rebalancing = v.rebalancing /\ w.withdrawn = v.withdrawn /\ w.op = v.op
  BY <1>1 DEF PodRecord, Departure
<1> HIDE DEF w
<1>4. RidersOK(w, j)
  BY <1>1, <1>3 DEF PodGood, RidersOK, MovesEmpty, BoardsHere
<1>5. StopsOK(w, j)
  BY <1>1, <1>3 DEF PodGood, StopsOK, MovesEmpty
<1>6. v.activity # "DepartingEmpty" => v.op.purpose = "service" /\ v.destination \in Passenger
  <2>1. v.activity # "DepartingEmpty" => v.op.purpose = "service"
    BY <1>1 DEF PodGood, PurposeOK, MovesEmpty, PodRecord, Purpose
  <2>2. v.activity # "DepartingEmpty" => v.stops # <<>>
    <3>1. v.activity # "DepartingEmpty" => Active(v.riders) # {} /\ Range(v.stops) = Goals(v.riders, j)
      BY <1>1 DEF PodGood, RidersOK, StopsOK, MovesEmpty
    <3>2. Active(v.riders) # {} => Goals(v.riders, j) # {}
      BY DEF Goals
    <3>3. v.stops = <<>> => Range(v.stops) = {}
      BY DEF Range
    <3> QED
      BY <3>1, <3>2, <3>3
  <2>3. v.stops \in Seq(Passenger)
    BY <1>1 DEF PodRecord
  <2>4. v.stops # <<>> => v.stops[1] \in Passenger
    BY <2>3
  <2> QED
    BY <1>1, <2>1, <2>2, <2>4 DEF PodGood, StopsOK
<1>7. FlagsOK(w) /\ PurposeOK(w)
  BY <1>1, <1>3, <1>6 DEF PodGood, FlagsOK, PurposeOK, MovesEmpty
<1>8. Keeps(v, w)
  <2>1. \A station \in Passenger : PodServes(v, station) => v.activity = "DepartingEmpty"
    BY <1>1, StationsAre DEF PodGood, FlagsOK, MovesEmpty, PodServes, IdleAt
  <2> QED
    BY <1>1, <1>3, <2>1 DEF Keeps, PodServes, IdleAt, InService
<1> QED
  BY <1>2, <1>3, <1>4, <1>5, <1>7, <1>8 DEF PodGood, Kin, w

\* An arrival keeps the pod good: its riders wait for the doors, or the empty pod is idle.
LEMMA PodArrived ==
  ASSUME NEW j, NEW v, PodGood(v, j), v.activity = "Traveling"
  PROVE  /\ PodGood(Arrival(v), j) /\ Arrival(v).riders = v.riders /\ Arrival(v).withdrawn = v.withdrawn
         /\ Arrival(v).op = v.op \/ Arrival(v).op = Service
         /\ Keeps(v, Arrival(v))
<1>1. v \in PodRecord(j) /\ v.stops \in Seq(Passenger) /\ StopsDiffer(v.stops)
  BY DEF PodGood, PodRecord, StopsOK
<1> DEFINE left == IF v.op.purpose = "unload" THEN WithoutStop(v.stops, v.destination)
                   ELSE IF v.stops # <<>> /\ Head(v.stops) = v.destination THEN Tail(v.stops) ELSE v.stops
<1>2. left \in Seq(Passenger) /\ StopsDiffer(left)
  BY <1>1, StopsLeft, HeadPassed
<1>3. CASE v.relocatingTo = NoStation
  <2>1. v.occupied /\ v.destination \in Passenger
    BY <1>3, StationsAre DEF PodGood, FlagsOK, MovesEmpty, PodRecord
  <2> DEFINE w == Unloads(v)
  <2>2. w \in PodRecord(j)
    BY <1>1, <1>2, <2>1, StationsAre, ZenonT(60) DEF PodRecord, Unloads, Activities
  <2>3. /\ w.released = v.released /\ w.riders = v.riders /\ w.activity = "Unloading" /\ w.at = v.destination /\ w.destination = v.destination
        /\ w.relocatingTo = v.relocatingTo /\ w.occupied = TRUE /\ w.recorded = v.recorded /\ w.stops = left
        /\ w.phase = 1 /\ w.rebalancing = v.rebalancing /\ w.withdrawn = v.withdrawn /\ w.op = v.op
    BY <1>1 DEF PodRecord, Unloads
  <2>4. Arrival(v) = w
    BY <1>3 DEF Arrival
  <2>5. Active(v.riders) # {} /\ Range(v.stops) = Goals(v.riders, j) /\ (v.op.purpose = "service" => v.stops[1] = v.destination)
    BY <2>1 DEF PodGood, RidersOK, StopsOK, MovesEmpty
  <2>6. v.op.purpose \in {"service", "unload"}
    BY <2>1 DEF PodGood, PurposeOK, MovesEmpty, PodRecord, Purpose
  <2>7. v.stops # <<>>
    <3>1. Goals(v.riders, j) # {}
      BY <2>5 DEF Goals
    <3>2. v.stops = <<>> => Range(v.stops) = {}
      BY DEF Range
    <3> QED
      BY <2>5, <3>1, <3>2
  <2>8. Range(left) = Range(v.stops) \ {v.destination}
    BY <1>1, <2>5, <2>6, <2>7, StopsLeft, HeadPassed
  <2>9. v.op.purpose = "service" => v.destination \in Goals(v.riders, j)
    <3>1. v.stops[1] \in Range(v.stops)
      <4>1. 1 \in DOMAIN v.stops
        BY <1>1, <2>7
      <4> QED
        BY <4>1 DEF Range
    <3> QED
      BY <2>5, <3>1
  <2>11. DoneGone(v.riders, v.stops, j) => DoneGone(v.riders, left, j)
    BY <2>8 DEF DoneGone
  <2> HIDE DEF w, left
  <2>12. FlagsOK(w) /\ PurposeOK(w)
    BY <1>3, <2>1, <2>3, StationsAre DEF PodGood, FlagsOK, PurposeOK, MovesEmpty
  <2>13. RidersOK(w, j)
    BY <2>3, <2>5, <2>11 DEF PodGood, RidersOK, MovesEmpty, BoardsHere
  <2>14. StopsOK(w, j)
    BY <1>2, <2>3, <2>5, <2>6, <2>8, <2>9 DEF StopsOK, MovesEmpty
  <2>15. Keeps(v, w)
    BY <2>1, <2>3 DEF Keeps, PodServes, InService
  <2> QED
    BY <2>2, <2>3, <2>4, <2>12, <2>13, <2>14, <2>15 DEF PodGood
<1>4. CASE v.relocatingTo # NoStation
  <2>1. MovesEmpty(v) /\ ~v.occupied /\ v.relocatingTo = v.destination /\ v.stops = <<>> /\ Active(v.riders) = {}
    BY <1>4 DEF PodGood, FlagsOK, StopsOK, RidersOK, MovesEmpty
  <2> DEFINE w == Arrival(v)
  <2>2. left = <<>>
    <3>1. v.op.purpose # "unload"
      BY <2>1 DEF PodGood, PurposeOK
    <3> QED
      BY <2>1, <3>1
  <2> DEFINE u == Unloads(v)
  <2>9. u \in PodRecord(j)
    BY <1>1, <1>2, StationsAre, ZenonT(60) DEF PodRecord, Unloads, Activities
  <2>10. w = [u EXCEPT !.activity = "Idle", !.occupied = FALSE, !.phase = 0, !.relocatingTo = NoStation,
                       !.released = FALSE, !.rebalancing = FALSE, !.op = Service]
    BY <1>4 DEF Arrival
  <2>11. Service \in Purpose
    BY DEF Service, Purpose
  <2>3. w \in PodRecord(j)
    <3> HIDE DEF u, w
    <3> QED
      BY <2>9, <2>10, <2>11, StationsAre DEF PodRecord, Activities
  <2>4. /\ w.released = FALSE /\ w.riders = v.riders /\ w.activity = "Idle" /\ w.at = v.destination /\ w.destination = v.destination
        /\ w.relocatingTo = NoStation /\ w.occupied = FALSE /\ w.recorded = v.recorded /\ w.stops = left
        /\ w.phase = 0 /\ w.rebalancing = FALSE /\ w.withdrawn = v.withdrawn /\ w.op = Service
    BY <1>1, <1>4 DEF PodRecord, Unloads, Arrival
  <2> HIDE DEF w, left
  <2>5. FlagsOK(w) /\ PurposeOK(w)
    BY <1>1, <2>4, StationsAre DEF FlagsOK, PurposeOK, MovesEmpty, Service, PodRecord
  <2>6. RidersOK(w, j)
    BY <2>1, <2>2, <2>4 DEF PodGood, RidersOK, MovesEmpty, BoardsHere
  <2>7. StopsOK(w, j)
    BY <2>1, <2>2, <2>4 DEF PodGood, StopsOK, MovesEmpty
  <2>8. Keeps(v, w)
    BY <2>1, <2>4 DEF Keeps, PodServes, InService, IdleAt, MovesEmpty
  <2> QED
    BY <2>3, <2>4, <2>5, <2>6, <2>7, <2>8 DEF PodGood, w
<1> QED
  BY <1>3, <1>4

\* A pod brakes, or no longer does.
LEMMA BrakesReleased ==
  ASSUME NEW j, NEW v, PodGood(v, j), NEW b \in BOOLEAN
  PROVE  LET w == [v EXCEPT !.braking = b] IN PodGood(w, j) /\ Kin(v, w) /\ Keeps(v, w) /\ w.activity = v.activity
<1> DEFINE w == [v EXCEPT !.braking = b]
<1>1. v \in PodRecord(j) /\ w \in PodRecord(j)
  BY DEF PodGood, PodRecord
<1>2. /\ w.released = v.released /\ w.riders = v.riders /\ w.activity = v.activity /\ w.at = v.at /\ w.destination = v.destination
      /\ w.relocatingTo = v.relocatingTo /\ w.occupied = v.occupied /\ w.recorded = v.recorded /\ w.stops = v.stops
      /\ w.phase = v.phase /\ w.rebalancing = v.rebalancing /\ w.withdrawn = v.withdrawn /\ w.op = v.op
  BY <1>1 DEF PodRecord
<1> HIDE DEF w
<1>3. RidersOK(w, j) /\ StopsOK(w, j) /\ FlagsOK(w) /\ PurposeOK(w)
  BY <1>2 DEF PodGood, RidersOK, StopsOK, MovesEmpty, BoardsHere, FlagsOK, PurposeOK
<1> QED
  BY <1>1, <1>2, <1>3 DEF PodGood, Kin, Keeps, PodServes, IdleAt, InService, w

\* The motion of a pod in one tick.
LEMMA PodMoved ==
  ASSUME NEW j, NEW v, PodGood(v, j), NEW faulted \in BOOLEAN, NEW w \in MotionOf(v, faulted)
  PROVE  /\ PodGood(w, j) /\ w.riders = v.riders /\ w.withdrawn = v.withdrawn /\ (w.op = v.op \/ w.op = Service)
         /\ Keeps(v, w)
<1>1. \/ w = v
      \/ Departs(v) /\ v.phase = 0 /\ w = Departure(v)
      \/ v.activity = "Traveling" /\ w = Arrival(v)
      \/ w = [v EXCEPT !.braking = FALSE]
  BY DEF MotionOf
<1>2. CASE w = v
  BY <1>2 DEF Keeps
<1>3. CASE Departs(v) /\ v.phase = 0 /\ w = Departure(v)
  BY <1>3, PodDeparted DEF Kin
<1>4. CASE v.activity = "Traveling" /\ w = Arrival(v)
  BY <1>4, PodArrived
<1>5. CASE w = [v EXCEPT !.braking = FALSE]
  BY <1>5, BrakesReleased DEF Kin
<1> QED
  BY <1>1, <1>2, <1>3, <1>4, <1>5

-----------------------------------------------------------------------------
(***************************************************************************)
(* Pods that unload, are evacuated, have an emergency or are restored.     *)
(***************************************************************************)
\* The tick of the phase of a pod: the pod stays good, unless its unloading ends now.
LEMMA PhasePassed ==
  ASSUME NEW j, NEW v, PodGood(v, j)
  PROVE  LET w == PhaseTicked(v)
         IN  /\ w \in PodRecord(j) /\ w.phase \in Nat /\ Kin(v, w) /\ w.activity = v.activity /\ w.at = v.at /\ w.destination = v.destination
             /\ w.relocatingTo = v.relocatingTo /\ w.occupied = v.occupied /\ w.recorded = v.recorded /\ w.stops = v.stops
             /\ w.released = v.released /\ w.rebalancing = v.rebalancing
             /\ ~(w.activity = "Unloading" /\ w.phase = 0) => PodGood(w, j) /\ Keeps(v, w)
<1> DEFINE w == PhaseTicked(v)
<1>1. v \in PodRecord(j) /\ v.phase \in Nat
  BY DEF PodGood, PodRecord
<1>2. w \in PodRecord(j)
  <2>1. (IF v.phase > 0 THEN v.phase - 1 ELSE 0) \in Nat
    BY <1>1
  <2> QED
    BY <1>1, <2>1 DEF PodRecord, PhaseTicked
<1>3. /\ w.released = v.released /\ w.riders = v.riders /\ w.activity = v.activity /\ w.at = v.at /\ w.destination = v.destination
      /\ w.relocatingTo = v.relocatingTo /\ w.occupied = v.occupied /\ w.recorded = v.recorded /\ w.stops = v.stops
      /\ w.rebalancing = v.rebalancing /\ w.withdrawn = v.withdrawn /\ w.op = v.op
      /\ w.phase = IF v.phase > 0 THEN v.phase - 1 ELSE 0
  BY <1>1 DEF PodRecord, PhaseTicked
<1>4. w.phase \in Nat /\ (w.phase > 0 => v.phase > 0) /\ (w.phase # 0 => w.phase > 0)
  BY <1>1, <1>3
<1> HIDE DEF w
<1>5. RidersOK(w, j) /\ StopsOK(w, j) /\ PurposeOK(w)
  BY <1>3 DEF PodGood, RidersOK, StopsOK, MovesEmpty, BoardsHere, PurposeOK
<1>6. ~(w.activity = "Unloading" /\ w.phase = 0) => FlagsOK(w)
  BY <1>3, <1>4 DEF PodGood, FlagsOK, MovesEmpty
<1>7. Keeps(v, w) /\ Kin(v, w)
  BY <1>3 DEF Keeps, Kin, PodServes, IdleAt, InService
<1> QED
  BY <1>2, <1>3, <1>4, <1>5, <1>6, <1>7 DEF PodGood, w

\* settleIdleAtBerth: a pod at a station with nobody aboard is idle there.
LEMMA PodSettled ==
  ASSUME NEW j, NEW v, v \in PodRecord(j), RiderList(v.riders, j), Active(v.riders) = {}, v.at \in Stations,
         ~v.recorded => SameLegs(v.riders, j)
  PROVE  LET w == SettleIdle(v) IN PodGood(w, j) /\ w.riders = v.riders /\ w.withdrawn = v.withdrawn /\ w.op = Service /\ w.stops = <<>>
<1> DEFINE w == SettleIdle(v)
<1>1. Service \in Purpose /\ <<>> \in Seq(Passenger) /\ (v.recorded /\ v.riders # <<>>) \in BOOLEAN
  BY DEF Service, Purpose
<1>2. w \in PodRecord(j)
  BY <1>1, StationsAre DEF PodRecord, SettleIdle, Activities
<1>3. /\ w.released = FALSE /\ w.riders = v.riders /\ w.activity = "Idle" /\ w.at = v.at /\ w.destination = v.at
      /\ w.relocatingTo = NoStation /\ w.occupied = FALSE /\ (w.recorded <=> v.recorded /\ v.riders # <<>>) /\ w.stops = <<>>
      /\ w.phase = 0 /\ w.rebalancing = FALSE /\ w.withdrawn = v.withdrawn /\ w.op = Service
  BY DEF PodRecord, SettleIdle
<1> HIDE DEF w
<1>4. ~w.recorded => SameLegs(v.riders, j)
  <2>1. v.riders = <<>> => SameLegs(v.riders, j)
    BY DEF SameLegs
  <2> QED
    BY <1>3, <2>1
<1>5. DoneGone(v.riders, <<>>, j)
  BY DEF DoneGone, Range
<1>6. RidersOK(w, j) /\ FlagsOK(w)
  BY <1>3, <1>4, <1>5, StationsAre DEF RidersOK, FlagsOK, MovesEmpty, BoardsHere
<1>7. StopsOK(w, j) /\ PurposeOK(w)
  BY <1>3 DEF StopsOK, StopsDiffer, PurposeOK, MovesEmpty, Service
<1> QED
  BY <1>2, <1>3, <1>6, <1>7 DEF PodGood, w

\* The riders of v without some of them.
LEMMA RidersGone ==
  ASSUME NEW j, IsJourney(j), NEW v, v \in PodRecord(j), RiderList(v.riders, j), NEW gone, Active(v.riders) \subseteq gone,
         ~v.recorded => SameLegs(v.riders, j)
  PROVE  LET w == WithoutRiders(v, gone)
         IN  /\ w \in PodRecord(j) /\ RiderList(w.riders, j) /\ Active(w.riders) = {} /\ IdsOf(w.riders) = {}
             /\ ~w.recorded => SameLegs(w.riders, j)
             /\ w.activity = v.activity /\ w.at = v.at /\ w.destination = v.destination /\ w.withdrawn = v.withdrawn /\ w.recorded = v.recorded
<1> DEFINE w == WithoutRiders(v, gone)
           kept == (DOMAIN v.riders) \ gone
           riders == Selected(v.riders, kept)
<1>1. v.riders \in Seq(Rider(j)) /\ kept \in SUBSET (DOMAIN v.riders) /\ Active(v.riders) \cap kept = {}
  BY DEF PodRecord
<1> HIDE DEF kept
<1>2. /\ riders \in Seq(Rider(j)) /\ RiderList(riders, j) /\ Active(riders) = {}
      /\ SameLegs(v.riders, j) => SameLegs(riders, j)
  BY <1>1, RidersKept
<1>3. IdsOf(riders) = {}
  BY <1>2 DEF IdsOf
<1>4. w = [v EXCEPT !.riders = riders]
  BY DEF WithoutRiders, kept
<1> HIDE DEF riders
<1>5. w \in PodRecord(j) /\ w.riders = riders
      /\ w.activity = v.activity /\ w.at = v.at /\ w.destination = v.destination /\ w.withdrawn = v.withdrawn /\ w.recorded = v.recorded
  BY <1>2, <1>4 DEF PodRecord
<1> QED
  BY <1>2, <1>3, <1>5

\* The journeys of some riders of a pod end.
LEMMA PodEnded ==
  ASSUME NEW j, IsJourney(j), NEW v, v \in PodRecord(j), RiderList(v.riders, j), NEW which \in SUBSET Active(v.riders)
  PROVE  LET w == CompleteRiders(v, which)
         IN  /\ w \in PodRecord(j) /\ w.riders = Ended(v.riders, which)
             /\ w.released = v.released /\ w.activity = v.activity /\ w.at = v.at /\ w.destination = v.destination
             /\ w.relocatingTo = v.relocatingTo /\ w.occupied = v.occupied /\ w.recorded = v.recorded /\ w.stops = v.stops
             /\ w.rebalancing = v.rebalancing /\ w.withdrawn = v.withdrawn /\ w.op = v.op /\ w.phase = v.phase
<1> DEFINE w == CompleteRiders(v, which)
           riders == Ended(v.riders, which)
<1>1. v.riders \in Seq(Rider(j))
  BY DEF PodRecord
<1>2. riders \in Seq(Rider(j))
  BY <1>1, RidersEnded
<1>3. w = [v EXCEPT !.riders = riders]
  BY DEF CompleteRiders, Ended
<1> HIDE DEF riders, w
<1>4. w \in PodRecord(j) /\ w.riders = riders
  BY <1>2, <1>3 DEF PodRecord
<1>5. /\ w.released = v.released /\ w.activity = v.activity /\ w.at = v.at /\ w.destination = v.destination
      /\ w.relocatingTo = v.relocatingTo /\ w.occupied = v.occupied /\ w.recorded = v.recorded /\ w.stops = v.stops
      /\ w.rebalancing = v.rebalancing /\ w.withdrawn = v.withdrawn /\ w.op = v.op /\ w.phase = v.phase
  BY <1>3 DEF PodRecord
<1> QED
  BY <1>4, <1>5 DEF w, riders

\* A pod whose unloading ends, before its phase says so: u is the pod, v the pod with the phase passed.
UnloadDone(u, v, j) == PodGood(u, j) /\ v = PhaseTicked(u) /\ v.activity = "Unloading" /\ v.phase = 0

\* FinishOperationalUnload: the pod is empty at its berth.
LEMMA PodUnloaded ==
  ASSUME NEW j, IsJourney(j), NEW u, NEW v, UnloadDone(u, v, j), NEW arrived \in SUBSET Active(v.riders), NEW gone, Active(v.riders) \ arrived \subseteq gone
  PROVE  LET w == SettleIdle(WithoutRiders(CompleteRiders(v, arrived), gone))
         IN  PodGood(w, j) /\ IdsOf(w.riders) = {} /\ w.withdrawn = u.withdrawn /\ w.op = Service
<1> DEFINE e == CompleteRiders(v, arrived)
           x == WithoutRiders(e, gone)
<1>1. /\ v \in PodRecord(j) /\ Kin(u, v) /\ v.activity = u.activity /\ v.at = u.at /\ v.recorded = u.recorded /\ u.activity = "Unloading"
  BY PhasePassed DEF UnloadDone
<1>2. v.riders \in Seq(Rider(j)) /\ RiderList(v.riders, j) /\ (~v.recorded => SameLegs(v.riders, j)) /\ v.at \in Stations
  BY <1>1, StationsAre DEF UnloadDone, PodGood, RidersOK, FlagsOK, Kin, PodRecord
<1>3. e \in PodRecord(j) /\ e.riders = Ended(v.riders, arrived) /\ e.at = v.at /\ e.recorded = v.recorded /\ e.withdrawn = v.withdrawn
  BY <1>1, <1>2, PodEnded
<1>4. /\ RiderList(e.riders, j) /\ Active(e.riders) = Active(v.riders) \ arrived
      /\ SameLegs(v.riders, j) => SameLegs(e.riders, j)
  BY <1>2, <1>3, RidersEnded
<1> HIDE DEF e
<1>5. /\ x \in PodRecord(j) /\ RiderList(x.riders, j) /\ Active(x.riders) = {} /\ IdsOf(x.riders) = {}
      /\ ~x.recorded => SameLegs(x.riders, j)
      /\ x.at = e.at /\ x.withdrawn = e.withdrawn
  <2>1. Active(e.riders) \subseteq gone /\ (~e.recorded => SameLegs(e.riders, j))
    BY <1>2, <1>3, <1>4
  <2> QED
    BY <2>1, <1>3, <1>4, RidersGone
<1> HIDE DEF x
<1>6. x.at \in Stations /\ x.withdrawn = u.withdrawn
  BY <1>1, <1>2, <1>3, <1>5 DEF Kin
<1>7. LET w == SettleIdle(x) IN PodGood(w, j) /\ w.riders = x.riders /\ w.withdrawn = x.withdrawn /\ w.op = Service
  BY <1>5, <1>6, PodSettled
<1> QED
  BY <1>5, <1>6, <1>7 DEF x, e

\* Alight: the riders without a later stop leave; the pod goes on, waits where the way is cut, or is idle.
AlightedPod(s, v) ==
    LET left == CompleteRiders(v, Leaving(v))
    IN  IF v.stops # <<>> /\ ActiveRiders(left) # {} THEN ContinueJourney(s, left)
        ELSE [left EXCEPT !.activity = "Idle", !.occupied = FALSE, !.stops = <<>>]

\* After the arrival of riders the pod is good, and it carries those who stay.
LEMMA PodAlighted ==
  ASSUME IsJourney(J), NEW s, NEW u, NEW v, UnloadDone(u, v, J), v.op.purpose # "unload"
  PROVE  LET w == AlightedPod(s, v)
         IN  /\ PodGood(w, J) /\ IdsOf(w.riders) = IdsOf(v.riders) \ IdsAt(v, Leaving(v))
             /\ Leaving(v) \subseteq Active(v.riders) /\ w.withdrawn = u.withdrawn /\ w.op = Service
<1> DEFINE which == Leaving(v)
           e == CompleteRiders(v, which)
           w == AlightedPod(s, v)
<1>1. /\ v \in PodRecord(J) /\ v.phase \in Nat /\ Kin(u, v) /\ v.activity = u.activity /\ v.at = u.at /\ v.destination = u.destination
      /\ v.relocatingTo = u.relocatingTo /\ v.occupied = u.occupied /\ v.recorded = u.recorded /\ v.stops = u.stops
      /\ v.released = u.released /\ v.rebalancing = u.rebalancing /\ u.activity = "Unloading" /\ v.phase = 0
  BY PhasePassed DEF UnloadDone
<1>2. PodGood(u, J)
  BY DEF UnloadDone
<1>3. /\ v.riders \in Seq(Rider(J)) /\ RiderList(v.riders, J) /\ v.stops \in Seq(Passenger) /\ StopsDiffer(v.stops)
      /\ ~v.recorded => SameLegs(v.riders, J) /\ DoneGone(v.riders, v.stops, J)
      /\ Range(v.stops) = Goals(v.riders, J) \ {v.at} /\ v.at \in Passenger
  BY <1>1, <1>2 DEF PodGood, RidersOK, StopsOK, FlagsOK, Kin, PodRecord
<1>4. v.op = Service /\ v.op.purpose = "service" /\ v.relocatingTo = NoStation /\ ~v.rebalancing /\ ~v.released /\ v.occupied
  <2>1. v.op.purpose # "recovery"
    BY <1>1, <1>2 DEF PodGood, PurposeOK, MovesEmpty, Kin
  <2>2. v.op.purpose = "service"
    BY <1>1, <2>1 DEF PodRecord, Purpose
  <2> QED
    BY <1>1, <1>2, <2>2 DEF PodGood, PurposeOK, FlagsOK, MovesEmpty, Kin
<1>5. which = {k \in Active(v.riders) : J[v.riders[k].id].to \notin Range(v.stops)}
  BY NamesOfTrips, ActiveIs DEF Leaving
<1>6. which \in SUBSET Active(v.riders) /\ \A k \in which : J[v.riders[k].id].to \notin Range(v.stops)
  BY <1>5
<1> HIDE DEF which
<1>7. /\ e \in PodRecord(J) /\ e.riders = Ended(v.riders, which)
      /\ e.released = v.released /\ e.activity = v.activity /\ e.at = v.at /\ e.destination = v.destination
      /\ e.relocatingTo = v.relocatingTo /\ e.occupied = v.occupied /\ e.recorded = v.recorded /\ e.stops = v.stops
      /\ e.rebalancing = v.rebalancing /\ e.withdrawn = v.withdrawn /\ e.op = v.op /\ e.phase = v.phase
  BY <1>1, <1>3, <1>6, PodEnded
<1> HIDE DEF e
<1>8. /\ RiderList(e.riders, J)
      /\ Active(e.riders) = Active(v.riders) \ which
      /\ \A k \in DOMAIN e.riders : e.riders[k].id = v.riders[k].id
      /\ IdsOf(e.riders) = IdsOf(v.riders) \ {v.riders[k].id : k \in which}
      /\ ~e.recorded => SameLegs(e.riders, J) /\ DoneGone(e.riders, v.stops, J)
  <2>1. /\ RiderList(e.riders, J)
        /\ Active(e.riders) = Active(v.riders) \ which
        /\ DOMAIN e.riders = DOMAIN v.riders
        /\ \A k \in DOMAIN e.riders : e.riders[k].id = v.riders[k].id
        /\ IdsOf(e.riders) = IdsOf(v.riders) \ {v.riders[k].id : k \in which}
        /\ SameLegs(v.riders, J) => SameLegs(e.riders, J)
    BY <1>3, <1>6, <1>7, RidersEnded
  <2>2. DoneGone(v.riders, v.stops, J) => DoneGone(e.riders, v.stops, J)
    BY <1>3, <1>6, <1>7, RidersEnded
  <2> QED
    BY <1>3, <1>7, <2>1, <2>2
<1>9. Goals(e.riders, J) = Range(v.stops)
  <2>1. \A k \in Active(e.riders) : k \in DOMAIN e.riders /\ k \in Active(v.riders) /\ k \notin which
    BY <1>8 DEF Active
  <2>2. \A k \in Active(e.riders) : J[e.riders[k].id].to \in Range(v.stops)
    BY <2>1, <1>5, <1>8
  <2>3. ASSUME NEW x \in Range(v.stops) PROVE x \in Goals(e.riders, J)
    <3>1. PICK k \in Active(v.riders) : J[v.riders[k].id].to = x
      BY <1>3 DEF Goals
    <3>2. k \in Active(e.riders) /\ J[e.riders[k].id].to = x
      <4>1. k \in Active(e.riders)
        BY <3>1, <1>5, <1>8
      <4>2. k \in DOMAIN e.riders
        BY <2>1, <4>1
      <4> QED
        BY <3>1, <4>1, <4>2, <1>8
    <3> QED
      BY <3>2 DEF Goals
  <2> QED
    BY <2>2, <2>3 DEF Goals
<1>10. v.stops = <<>> <=> Active(e.riders) = {}
  <2>1. v.stops = <<>> => Range(v.stops) = {}
    BY DEF Range
  <2>2. v.stops # <<>> => Range(v.stops) # {}
    <3>1. v.stops # <<>> => 1 \in DOMAIN v.stops
      BY <1>3
    <3> QED
      BY <3>1 DEF Range
  <2>3. Goals(e.riders, J) = {} <=> Active(e.riders) = {}
    BY DEF Goals
  <2> QED
    BY <1>9, <2>1, <2>2, <2>3
<1>11. IdsAt(v, which) = {v.riders[k].id : k \in which}
  BY DEF IdsAt
<1>12. w = IF v.stops # <<>> THEN ContinueJourney(s, e) ELSE [e EXCEPT !.activity = "Idle", !.occupied = FALSE, !.stops = <<>>]
  BY <1>10, ActiveIs DEF AlightedPod, e, which
<1> HIDE DEF w
<1>13. CASE v.stops = <<>>
  <2>1. w = [e EXCEPT !.activity = "Idle", !.occupied = FALSE, !.stops = <<>>]
    BY <1>12, <1>13
  <2>7. <<>> \in Seq(Passenger)
    OBVIOUS
  <2>2. w \in PodRecord(J)
    BY <1>7, <2>1, <2>7 DEF PodRecord, Activities
  <2>3. /\ w.released = v.released /\ w.riders = e.riders /\ w.activity = "Idle" /\ w.at = v.at /\ w.destination = v.destination
        /\ w.relocatingTo = v.relocatingTo /\ w.occupied = FALSE /\ w.recorded = v.recorded /\ w.stops = <<>>
        /\ w.phase = 0 /\ w.rebalancing = v.rebalancing /\ w.withdrawn = v.withdrawn /\ w.op = v.op
    BY <1>1, <1>7, <2>1 DEF PodRecord
  <2>4. FlagsOK(w) /\ PurposeOK(w)
    BY <1>3, <1>4, <2>3, StationsAre DEF FlagsOK, PurposeOK, MovesEmpty
  <2>5. RidersOK(w, J)
    BY <1>7, <1>8, <1>10, <1>13, <2>3 DEF RidersOK, MovesEmpty, BoardsHere
  <2>6. StopsOK(w, J)
    BY <2>3 DEF StopsOK, StopsDiffer, MovesEmpty
  <2> QED
    BY <1>1, <1>4, <1>6, <1>8, <1>11, <2>2, <2>3, <2>4, <2>5, <2>6 DEF PodGood, which, w, Kin
<1>14. CASE v.stops # <<>> /\ e.stops[1] \in Cut(s)
  <2>1. w = e
    BY <1>12, <1>14 DEF ContinueJourney
  <2>2. FlagsOK(e) /\ PurposeOK(e)
    BY <1>1, <1>2, <1>3, <1>4, <1>7, <1>14, StationsAre DEF PodGood, FlagsOK, PurposeOK, MovesEmpty
  <2>3. RidersOK(e, J)
    BY <1>1, <1>7, <1>8, <1>10, <1>14 DEF RidersOK, MovesEmpty, BoardsHere
  <2>4. StopsOK(e, J)
    BY <1>1, <1>3, <1>7, <1>9, <1>14 DEF StopsOK, MovesEmpty
  <2> QED
    BY <1>1, <1>4, <1>6, <1>7, <1>8, <1>11, <2>1, <2>2, <2>3, <2>4 DEF PodGood, which, w, Kin
<1>15. CASE v.stops # <<>> /\ e.stops[1] \notin Cut(s)
  <2>1. w = [e EXCEPT !.activity = "Continuing", !.occupied = TRUE, !.destination = e.stops[1], !.phase = 0]
    BY <1>12, <1>15 DEF ContinueJourney
  <2>2. e.stops[1] \in Stations
    BY <1>3, <1>7, <1>15, StationsAre
  <2>3. w \in PodRecord(J)
    BY <1>7, <2>1, <2>2 DEF PodRecord, Activities
  <2>4. /\ w.released = v.released /\ w.riders = e.riders /\ w.activity = "Continuing" /\ w.at = v.at /\ w.destination = v.stops[1]
        /\ w.relocatingTo = v.relocatingTo /\ w.occupied = TRUE /\ w.recorded = v.recorded /\ w.stops = v.stops
        /\ w.phase = 0 /\ w.rebalancing = v.rebalancing /\ w.withdrawn = v.withdrawn /\ w.op = v.op
    BY <1>1, <1>7, <2>1 DEF PodRecord
  <2>5. FlagsOK(w) /\ PurposeOK(w)
    BY <1>3, <1>4, <2>4, StationsAre DEF FlagsOK, PurposeOK, MovesEmpty
  <2>6. RidersOK(w, J)
    BY <1>7, <1>8, <1>10, <1>15, <2>4 DEF RidersOK, MovesEmpty, BoardsHere
  <2>7. StopsOK(w, J)
    BY <1>3, <1>9, <2>4 DEF StopsOK, MovesEmpty
  <2> QED
    BY <1>1, <1>4, <1>6, <1>8, <1>11, <2>3, <2>4, <2>5, <2>6, <2>7 DEF PodGood, which, w, Kin
<1> QED
  BY <1>13, <1>14, <1>15

\* An evacuated pod is empty and good, at its berth or on its lane.
LEMMA PodEvacuated ==
  ASSUME NEW j, IsJourney(j), NEW v, PodGood(v, j), Active(v.riders) # {}, "fault" \in v.withdrawn
  PROVE  LET empty == WithoutRiders(v, ActiveRiders(v))
             w == IF v.activity = "Traveling" THEN EvacuatedOnLane(empty) ELSE SettleIdle(empty)
         IN  PodGood(w, j) /\ IdsOf(w.riders) = {} /\ w.withdrawn = v.withdrawn /\ w.op.purpose # "unload"
<1> DEFINE e == WithoutRiders(v, ActiveRiders(v))
           w == IF v.activity = "Traveling" THEN EvacuatedOnLane(e) ELSE SettleIdle(e)
<1>1. v \in PodRecord(j) /\ RiderList(v.riders, j) /\ (~v.recorded => SameLegs(v.riders, j)) /\ Active(v.riders) \subseteq ActiveRiders(v)
  BY ActiveIs DEF PodGood, RidersOK
<1>2. /\ e \in PodRecord(j) /\ RiderList(e.riders, j) /\ Active(e.riders) = {} /\ IdsOf(e.riders) = {}
      /\ ~e.recorded => SameLegs(e.riders, j)
      /\ e.activity = v.activity /\ e.at = v.at /\ e.destination = v.destination /\ e.withdrawn = v.withdrawn /\ e.recorded = v.recorded
  BY <1>1, RidersGone
<1>3. e.rebalancing = v.rebalancing /\ e.phase = v.phase
  BY <1>1 DEF WithoutRiders, PodRecord
<1> HIDE DEF e
<1>4. CASE v.activity # "Traveling"
  <2>1. e.at \in Stations
    BY <1>1, <1>2, <1>4 DEF PodGood, FlagsOK, PodRecord, Places
  <2>2. LET x == SettleIdle(e) IN PodGood(x, j) /\ x.riders = e.riders /\ x.withdrawn = e.withdrawn /\ x.op = Service
    BY <1>2, <2>1, PodSettled
  <2> QED
    BY <1>2, <1>4, <2>2 DEF e, Service
<1>5. CASE v.activity = "Traveling"
  <2> DEFINE x == EvacuatedOnLane(e)
             recovery == [Service EXCEPT !.purpose = "recovery", !.owner = "fault"]
  <2>1. recovery \in Purpose /\ <<>> \in Seq(Passenger) /\ (v.recorded /\ v.riders # <<>>) \in BOOLEAN
        /\ recovery.purpose = "recovery" /\ recovery.owner = "fault"
    <3>1. Service \in Purpose
      BY DEF Service, Purpose
    <3>2. recovery \in Purpose
      BY <3>1 DEF Purpose
    <3>3. recovery.purpose = "recovery" /\ recovery.owner = "fault"
      BY <3>1 DEF Purpose
    <3>4. <<>> \in Seq(Passenger)
      OBVIOUS
    <3>5. (v.recorded /\ v.riders # <<>>) \in BOOLEAN
      OBVIOUS
    <3> QED
      BY <3>2, <3>3, <3>4, <3>5
  <2> HIDE DEF recovery
  <2>2. x \in PodRecord(j)
    BY <1>2, <2>1, StationsAre DEF PodRecord, EvacuatedOnLane, recovery
  <2>3. /\ x.released = FALSE /\ x.riders = e.riders /\ x.activity = "Traveling" /\ x.at = v.at /\ x.destination = v.destination
        /\ x.relocatingTo = v.destination /\ x.occupied = FALSE /\ (x.recorded <=> e.recorded /\ e.riders # <<>>) /\ x.stops = <<>>
        /\ x.phase = v.phase /\ x.rebalancing = FALSE /\ x.withdrawn = v.withdrawn /\ x.op = recovery
    BY <1>2, <1>3, <1>5 DEF PodRecord, EvacuatedOnLane, recovery
  <2> HIDE DEF x
  <2>4. ~x.recorded => SameLegs(e.riders, j)
    <3>1. e.riders = <<>> => SameLegs(e.riders, j)
      BY DEF SameLegs
    <3> QED
      BY <1>2, <2>3, <3>1
  <2>5. DoneGone(e.riders, <<>>, j)
    BY DEF DoneGone, Range
  <2>6. RidersOK(x, j)
    BY <1>2, <2>3, <2>4, <2>5 DEF RidersOK, MovesEmpty, BoardsHere
  <2>7. FlagsOK(x) /\ PurposeOK(x)
    BY <1>5, <2>1, <2>3 DEF PodGood, FlagsOK, PurposeOK, MovesEmpty
  <2>8. StopsOK(x, j)
    BY <2>3 DEF StopsOK, StopsDiffer, MovesEmpty
  <2> QED
    BY <1>2, <1>5, <2>1, <2>2, <2>3, <2>6, <2>7, <2>8 DEF PodGood, x, e
<1> QED
  BY <1>4, <1>5

\* The emergency of a pod at a station or on its way.
Unload(marks) == [purpose |-> "unload", owner |-> "emergency", interrupt |-> marks]

\* The emergency of a pod with a party: it unloads at its berth, or goes to a station to unload there.
LEMMA PodDiverted ==
  ASSUME NEW j, NEW v, PodGood(v, j), v.op.purpose = "service", "emergency" \in v.withdrawn, Active(v.riders) # {}, NEW marks \in SUBSET Nat
  PROVE  /\ v.activity \in {"Boarding", "Continuing", "Unloading"} =>
                LET w == StartOperationalUnload(v, marks)
                IN  PodGood(w, j) /\ w.riders = v.riders /\ w.withdrawn = v.withdrawn /\ w.op = Unload(marks)
         /\ v.activity = "Traveling" =>
                \A choice \in {NoStation} \cup Passenger :
                    LET w == BindEmergency(v, marks, choice)
                    IN  PodGood(w, j) /\ w.riders = v.riders /\ w.withdrawn = v.withdrawn /\ (w = v \/ w.op = Unload(marks))
<1>1. v \in PodRecord(j) /\ v.phase \in Nat /\ v.stops \in Seq(Passenger) /\ StopsDiffer(v.stops)
  BY DEF PodGood, PodRecord, StopsOK
<1>2. Unload(marks) \in Purpose /\ Unload(marks).purpose = "unload" /\ Unload(marks).owner = "emergency"
  BY DEF Unload, Purpose
<1>3. ASSUME v.activity \in {"Boarding", "Continuing", "Unloading"}
      PROVE  LET w == StartOperationalUnload(v, marks)
             IN  PodGood(w, j) /\ w.riders = v.riders /\ w.withdrawn = v.withdrawn /\ w.op = Unload(marks)
  <2> DEFINE w == StartOperationalUnload(v, marks)
             left == WithoutStop(v.stops, v.at)
             phase == IF v.activity = "Unloading" /\ v.phase >= 1 THEN v.phase ELSE 1
  <2>1. left \in Seq(Passenger) /\ StopsDiffer(left) /\ Range(left) = Range(v.stops) \ {v.at}
    BY <1>1, StopsLeft
  <2>2. phase \in Nat /\ phase > 0
    BY <1>1
  <2>3. v.at \in Passenger /\ v.at \in Stations
    BY <1>3, StationsAre DEF PodGood, FlagsOK
  <2>4. w = [v EXCEPT !.phase = phase, !.activity = "Unloading", !.occupied = TRUE, !.destination = v.at, !.stops = left, !.op = Unload(marks)]
    BY <1>1 DEF StartOperationalUnload, Unload, PodRecord
  <2> HIDE DEF left, phase, w
  <2>5. w \in PodRecord(j)
    BY <1>1, <1>2, <2>1, <2>2, <2>3, <2>4 DEF PodRecord, Activities
  <2>6. /\ w.released = v.released /\ w.riders = v.riders /\ w.activity = "Unloading" /\ w.at = v.at /\ w.destination = v.at
        /\ w.relocatingTo = v.relocatingTo /\ w.occupied = TRUE /\ w.recorded = v.recorded /\ w.stops = left
        /\ w.phase > 0 /\ w.rebalancing = v.rebalancing /\ w.withdrawn = v.withdrawn /\ w.op = Unload(marks)
    BY <1>1, <2>2, <2>4 DEF PodRecord
  <2>7. DoneGone(v.riders, v.stops, j) => DoneGone(v.riders, left, j)
    BY <2>1 DEF DoneGone
  <2>8. RidersOK(w, j)
    BY <1>3, <2>6, <2>7 DEF PodGood, RidersOK, MovesEmpty, BoardsHere
  <2>9. Range(left) = Goals(v.riders, j) \ {v.at}
    BY <1>3, <2>1 DEF PodGood, StopsOK
  <2>10. StopsOK(w, j)
    BY <1>2, <2>1, <2>6, <2>9 DEF StopsOK, MovesEmpty
  <2>11. FlagsOK(w) /\ PurposeOK(w)
    BY <1>2, <1>3, <2>3, <2>6 DEF PodGood, FlagsOK, PurposeOK, MovesEmpty
  <2> QED
    BY <2>5, <2>6, <2>8, <2>10, <2>11 DEF PodGood, w
<1>4. ASSUME v.activity = "Traveling", NEW choice \in {NoStation} \cup Passenger
      PROVE  LET w == BindEmergency(v, marks, choice)
             IN  PodGood(w, j) /\ w.riders = v.riders /\ w.withdrawn = v.withdrawn /\ (w = v \/ w.op = Unload(marks))
  <2> DEFINE w == BindEmergency(v, marks, choice)
  <2>1. CASE choice = NoStation
    BY <2>1 DEF BindEmergency
  <2>2. CASE choice # NoStation
    <3>1. w = [v EXCEPT !.destination = choice, !.op = Unload(marks)] /\ choice \in Passenger
      BY <2>2 DEF BindEmergency, Unload
    <3> HIDE DEF w
    <3>2. w \in PodRecord(j)
      BY <1>1, <1>2, <3>1, StationsAre DEF PodRecord
    <3>3. /\ w.released = v.released /\ w.riders = v.riders /\ w.activity = v.activity /\ w.at = v.at /\ w.destination = choice
          /\ w.relocatingTo = v.relocatingTo /\ w.occupied = v.occupied /\ w.recorded = v.recorded /\ w.stops = v.stops
          /\ w.phase = v.phase /\ w.rebalancing = v.rebalancing /\ w.withdrawn = v.withdrawn /\ w.op = Unload(marks)
      BY <1>1, <3>1 DEF PodRecord
    <3>4. v.occupied
      BY <1>4 DEF PodGood, RidersOK, MovesEmpty
    <3>5. RidersOK(w, j) /\ StopsOK(w, j)
      BY <1>2, <1>4, <3>3, <3>4 DEF PodGood, RidersOK, StopsOK, MovesEmpty, BoardsHere
    <3>6. FlagsOK(w) /\ PurposeOK(w)
      BY <1>2, <1>4, <3>1, <3>3, <3>4 DEF PodGood, FlagsOK, PurposeOK, MovesEmpty
    <3> QED
      BY <3>2, <3>3, <3>5, <3>6 DEF PodGood, w
  <2> QED
    BY <2>1, <2>2
<1> QED
  BY <1>3, <1>4

\* A pod at its first berth.
LEMMA PodAtHome ==
  ASSUME NEW j, NEW station \in Stations
  PROVE  LET w == ParkedPod(station) IN PodGood(w, j) /\ w.riders = <<>> /\ IdsOf(w.riders) = {} /\ w.withdrawn = {} /\ w.op = Service
<1> DEFINE w == ParkedPod(station)
<1>1. /\ w.released = FALSE /\ w.riders = <<>> /\ w.activity = "Idle" /\ w.at = station /\ w.destination = station
      /\ w.relocatingTo = NoStation /\ w.occupied = FALSE /\ w.recorded = FALSE /\ w.stops = <<>>
      /\ w.phase = 0 /\ w.rebalancing = FALSE /\ w.withdrawn = {} /\ w.op = Service
  BY DEF ParkedPod
<1>2. w \in PodRecord(j)
  <2>1. Service \in Purpose
    BY DEF Service, Purpose
  <2> QED
    BY <2>1, StationsAre DEF PodRecord, ParkedPod, Activities
<1> HIDE DEF w
<1>3. Active(<<>>) = {} /\ IdsOf(<<>>) = {} /\ Range(<<>>) = {}
  BY DEF Active, IdsOf, Range
<1>4. RidersOK(w, j)
  BY <1>1, <1>3 DEF RidersOK, RiderList, SameLegs, DoneGone, MovesEmpty, BoardsHere
<1>5. StopsOK(w, j) /\ FlagsOK(w) /\ PurposeOK(w)
  BY <1>1, StationsAre DEF StopsOK, StopsDiffer, FlagsOK, PurposeOK, MovesEmpty, Service
<1> QED
  BY <1>1, <1>2, <1>3, <1>4, <1>5 DEF PodGood, w

\* A physical restore keeps a pod where it is.
KeptPod(v) == [v EXCEPT !.braking = FALSE, !.released = @ /\ Releasable(v)]

\* A kept pod is good, and whoever counts on it can still do so.
LEMMA PodKept ==
  ASSUME NEW j, NEW v, PodGood(v, j)
  PROVE  PodGood(KeptPod(v), j) /\ Kin(v, KeptPod(v)) /\ Keeps(v, KeptPod(v))
<1> DEFINE w == KeptPod(v)
<1>1. v \in PodRecord(j) /\ w \in PodRecord(j)
  BY DEF PodGood, PodRecord, KeptPod, Releasable
<1>2. /\ (w.released => v.released) /\ w.riders = v.riders /\ w.activity = v.activity /\ w.at = v.at /\ w.destination = v.destination
      /\ w.relocatingTo = v.relocatingTo /\ w.occupied = v.occupied /\ w.recorded = v.recorded /\ w.stops = v.stops
      /\ w.phase = v.phase /\ w.rebalancing = v.rebalancing /\ w.withdrawn = v.withdrawn /\ w.op = v.op
  BY <1>1 DEF PodRecord, KeptPod
<1> HIDE DEF w
<1>3. RidersOK(w, j) /\ StopsOK(w, j) /\ FlagsOK(w) /\ PurposeOK(w)
  BY <1>2 DEF PodGood, RidersOK, StopsOK, MovesEmpty, BoardsHere, FlagsOK, PurposeOK
<1> QED
  BY <1>1, <1>2, <1>3 DEF PodGood, Kin, Keeps, PodServes, IdleAt, InService, w

\* placeDemoted: the pod is empty at a station and its party waits, or boards again where it boarded.
LEMMA PodPlaced ==
  ASSUME IsJourney(J), NEW s, NEW v, PodGood(v, J), v.activity \in {"Boarding", "DepartingEmpty", "Continuing", "Traveling"},
         v.op.purpose # "unload", NEW x \in Placements(s, v)
  PROVE  /\ PodGood(x.pod, J) /\ x.pod.withdrawn = v.withdrawn /\ x.pod.op = Service
         /\ \/ IdsOf(x.pod.riders) = {} /\ x.requeued = RequeuedRiders(v, ActiveRiders(v))
            \/ IdsOf(x.pod.riders) = IdsOf(v.riders) /\ x.requeued = {}
<1>1. /\ v \in PodRecord(J) /\ v.riders \in Seq(Rider(J)) /\ RiderList(v.riders, J) /\ (~v.recorded => SameLegs(v.riders, J))
      /\ v.stops \in Seq(Passenger) /\ StopsDiffer(v.stops)
  BY DEF PodGood, RidersOK, StopsOK, PodRecord
<1> DEFINE emptied == IF ActiveRiders(v) = {} THEN v ELSE [v EXCEPT !.riders = <<>>, !.stops = <<>>, !.recorded = FALSE]
<1>2. (\E station \in Stations : x = [pod |-> DemotedAt(emptied, station), requeued |-> RequeuedRiders(v, ActiveRiders(v))])
      \/ (ActiveRiders(v) # {} /\ MayBoardAgain(s, v) /\ x = [pod |-> BoardAgain(v), requeued |-> {}])
  BY DEF Placements
<1>3. ASSUME NEW station \in Stations, x = [pod |-> DemotedAt(emptied, station), requeued |-> RequeuedRiders(v, ActiveRiders(v))]
      PROVE  PodGood(x.pod, J) /\ x.pod.withdrawn = v.withdrawn /\ x.pod.op = Service /\ IdsOf(x.pod.riders) = {}
             /\ x.requeued = RequeuedRiders(v, ActiveRiders(v))
  <2>1. emptied \in PodRecord(J) /\ emptied.withdrawn = v.withdrawn /\ emptied.stops = <<>>
    <3>1. <<>> \in Seq(Passenger) /\ <<>> \in Seq(Rider(J))
      OBVIOUS
    <3>2. ActiveRiders(v) = {} => v.stops = <<>>
      BY ActiveIs DEF PodGood, RidersOK, StopsOK
    <3> QED
      BY <1>1, <3>1, <3>2 DEF PodRecord
  <2>2. RiderList(emptied.riders, J) /\ Active(emptied.riders) = {} /\ (~emptied.recorded => SameLegs(emptied.riders, J))
    <3>1. RiderList(<<>>, J) /\ Active(<<>>) = {} /\ SameLegs(<<>>, J)
      BY DEF RiderList, Active, SameLegs
    <3>2. emptied.riders = IF ActiveRiders(v) = {} THEN v.riders ELSE <<>>
      BY <1>1 DEF PodRecord
    <3>3. ActiveRiders(v) = {} => emptied = v
      OBVIOUS
    <3> HIDE DEF emptied
    <3> QED
      BY <1>1, <3>1, <3>2, <3>3, ActiveIs
  <2> HIDE DEF emptied
  <2> DEFINE u == [emptied EXCEPT !.at = station]
  <2>3. u \in PodRecord(J) /\ u.at = station /\ u.riders = emptied.riders /\ u.recorded = emptied.recorded /\ u.withdrawn = v.withdrawn
    BY <2>1, StationsAre DEF PodRecord
  <2>4. LET w == SettleIdle(u) IN PodGood(w, J) /\ w.riders = u.riders /\ w.withdrawn = u.withdrawn /\ w.op = Service /\ w.stops = <<>>
    <3> HIDE DEF u
    <3> QED
      BY <2>2, <2>3, PodSettled
  <2>5. DemotedAt(emptied, station) = SettleIdle(u)
    BY <2>1, ZenonT(60) DEF DemotedAt, SettleIdle, PodRecord
  <2>6. IdsOf(u.riders) = {}
    BY <2>2, <2>3 DEF IdsOf
  <2> QED
    BY <1>3, <2>3, <2>4, <2>5, <2>6
<1>4. ASSUME ActiveRiders(v) # {}, MayBoardAgain(s, v), x = [pod |-> BoardAgain(v), requeued |-> {}]
      PROVE  PodGood(x.pod, J) /\ x.pod.withdrawn = v.withdrawn /\ x.pod.op = Service /\ IdsOf(x.pod.riders) = IdsOf(v.riders) /\ x.requeued = {}
  <2> DEFINE station == LegOf(v.riders[1], J)
             riders == Selected(v.riders, Active(v.riders))
             w == BoardAgain(v)
  <2>1. ~v.recorded /\ v.stops # <<>> /\ Active(v.riders) # {} /\ Active(v.riders) \in SUBSET (DOMAIN v.riders)
    BY <1>4, ActiveIs DEF MayBoardAgain, Active
  <2>2. 1 \in DOMAIN v.riders /\ v.riders[1] \in Rider(J)
    <3>1. DOMAIN v.riders = 1 .. Len(v.riders) /\ Len(v.riders) \in Nat
      BY <1>1
    <3>2. 1 \in DOMAIN v.riders
      BY <2>1, <3>1
    <3> QED
      BY <1>1, <3>2
  <2>3. station \in Passenger
    BY <2>2, JourneyOf DEF LegOf, Rider
  <2>4. LegsFrom(v.riders, station, J)
    BY <1>1, <2>1, <2>2 DEF SameLegs, LegsFrom
  <2>5. /\ riders \in Seq(Rider(J)) /\ RiderList(riders, J) /\ SameLegs(riders, J) /\ LegsFrom(riders, station, J) /\ NoneDone(riders)
        /\ Active(riders) # {} /\ IdsOf(riders) = IdsOf(v.riders) /\ Goals(riders, J) = Goals(v.riders, J)
    <3>1. /\ riders \in Seq(Rider(J)) /\ RiderList(riders, J) /\ SameLegs(riders, J) /\ NoneDone(riders)
          /\ IdsOf(riders) = {v.riders[k].id : k \in Active(v.riders) \cap Active(v.riders)}
          /\ Goals(riders, J) = {J[v.riders[k].id].to : k \in Active(v.riders) \cap Active(v.riders)}
          /\ (Active(riders) = {} <=> Active(v.riders) \cap Active(v.riders) = {})
      BY <1>1, <2>1, RidersKept
    <3>2. LegsFrom(riders, station, J)
      <4> HIDE DEF station
      <4> QED
        BY <1>1, <2>1, <2>4, RidersKept
    <3>3. Active(v.riders) \cap Active(v.riders) = Active(v.riders)
      OBVIOUS
    <3> QED
      BY <2>1, <3>1, <3>2, <3>3 DEF IdsOf, Goals
  <2>6. Goals(v.riders, J) = Range(v.stops) /\ v.stops[1] \in Passenger
    <3>1. ~MovesEmpty(v) /\ v.activity # "Idle"
      BY <2>1 DEF PodGood, RidersOK
    <3>2. v.activity \in {"Boarding", "Continuing"} \/ (v.activity = "Traveling" /\ v.occupied)
      BY <3>1 DEF MovesEmpty
    <3>3. Range(v.stops) = Goals(v.riders, J)
      BY <3>2 DEF PodGood, StopsOK
    <3> QED
      BY <1>1, <2>1, <3>3
  <2> DEFINE d == DemotedAt(v, station)
  <2>7. w = [d EXCEPT !.activity = "Boarding", !.destination = v.stops[1], !.riders = Selected(@, Active(v.riders))]
    BY ActiveIs DEF BoardAgain, LegOf, J
  <2>8. Service \in Purpose /\ (v.recorded /\ v.riders # <<>>) \in BOOLEAN
    BY DEF Service, Purpose
  <2> HIDE DEF station
  <2>9. /\ d \in PodRecord(J)
        /\ d.released = FALSE /\ d.riders = v.riders /\ d.at = station
        /\ d.relocatingTo = NoStation /\ d.occupied = FALSE /\ ~d.recorded /\ d.stops = v.stops
        /\ d.phase = 0 /\ d.rebalancing = FALSE /\ d.withdrawn = v.withdrawn /\ d.op = Service
    BY <1>1, <2>1, <2>3, <2>8, StationsAre DEF PodRecord, DemotedAt, SettleIdle, Activities
  <2> HIDE DEF w, d
  <2>10. /\ w \in PodRecord(J)
         /\ w.released = FALSE /\ w.riders = riders /\ w.activity = "Boarding" /\ w.at = station /\ w.destination = v.stops[1]
         /\ w.relocatingTo = NoStation /\ w.occupied = FALSE /\ ~w.recorded /\ w.stops = v.stops
         /\ w.phase = 0 /\ w.rebalancing = FALSE /\ w.withdrawn = v.withdrawn /\ w.op = Service
    <3>1. w = [d EXCEPT !.activity = "Boarding", !.destination = v.stops[1], !.riders = riders]
      BY <2>7, <2>9 DEF PodRecord
    <3> HIDE DEF riders
    <3> QED
      BY <3>1, <2>5, <2>6, <2>9, StationsAre DEF PodRecord, Activities
  <2> HIDE DEF riders
  <2>11. DoneGone(riders, v.stops, J)
    BY <2>5 DEF NoneDone, DoneGone
  <2>12. RidersOK(w, J)
    BY <2>5, <2>10, <2>11 DEF RidersOK, MovesEmpty, BoardsHere
  <2>13. StopsOK(w, J)
    BY <1>1, <2>5, <2>6, <2>10 DEF StopsOK, MovesEmpty
  <2>14. FlagsOK(w) /\ PurposeOK(w)
    BY <2>3, <2>10, StationsAre DEF FlagsOK, PurposeOK, MovesEmpty, Service
  <2> QED
    BY <1>4, <2>5, <2>9, <2>10, <2>12, <2>13, <2>14 DEF PodGood, w
<1> QED
  BY <1>2, <1>3, <1>4

-----------------------------------------------------------------------------
(***************************************************************************)
(* The orders and where they are: W is the queue, C and I the completed    *)
(* and the interrupted orders, A the party of each pod.                    *)
(***************************************************************************)
Split(n, W, C, I, A) ==
    /\ \A x : x \in 1 .. n <=> (x \in W \/ x \in C \/ x \in I \/ \E p \in Pods : x \in A[p])
    /\ \A x \in W : x \notin C /\ x \notin I
    /\ \A x \in C : x \notin I
    /\ \A p \in Pods : \A x \in A[p] : x \notin W /\ x \notin C /\ x \notin I /\ \A q \in Pods : q # p => x \notin A[q]

\* The orders X, Y and Z of each pod go to the queue, the completed and the interrupted orders.
LEMMA PartiesLeft ==
  ASSUME NEW n, NEW W, NEW C, NEW I, NEW A, Split(n, W, C, I, A), NEW X, NEW Y, NEW Z, NEW B,
         \A p \in Pods : /\ X[p] \subseteq A[p] /\ Y[p] \subseteq A[p] /\ Z[p] \subseteq A[p]
                         /\ X[p] \cap Y[p] = {} /\ X[p] \cap Z[p] = {} /\ Y[p] \cap Z[p] = {}
                         /\ B[p] = A[p] \ (X[p] \cup Y[p] \cup Z[p])
  PROVE  Split(n, W \cup UNION {X[p] : p \in Pods}, C \cup UNION {Y[p] : p \in Pods}, I \cup UNION {Z[p] : p \in Pods}, B)
<1> DEFINE W2 == W \cup UNION {X[p] : p \in Pods}
           C2 == C \cup UNION {Y[p] : p \in Pods}
           I2 == I \cup UNION {Z[p] : p \in Pods}
<1>1. /\ \A x : x \in W2 <=> x \in W \/ \E p \in Pods : x \in X[p]
      /\ \A x : x \in C2 <=> x \in C \/ \E p \in Pods : x \in Y[p]
      /\ \A x : x \in I2 <=> x \in I \/ \E p \in Pods : x \in Z[p]
  OBVIOUS
<1> HIDE DEF W2, C2, I2
<1>2. \A p \in Pods : \A x : /\ x \in X[p] \/ x \in Y[p] \/ x \in Z[p] => x \in A[p]
                             /\ ~(x \in X[p] /\ x \in Y[p]) /\ ~(x \in X[p] /\ x \in Z[p]) /\ ~(x \in Y[p] /\ x \in Z[p])
                             /\ x \in B[p] <=> x \in A[p] /\ x \notin X[p] /\ x \notin Y[p] /\ x \notin Z[p]
  OBVIOUS
<1>3. \A x : x \in 1 .. n <=> (x \in W2 \/ x \in C2 \/ x \in I2 \/ \E p \in Pods : x \in B[p])
  BY <1>1, <1>2 DEF Split
<1>4. \A x \in W2 : x \notin C2 /\ x \notin I2
  BY <1>1, <1>2 DEF Split
<1>5. \A x \in C2 : x \notin I2
  BY <1>1, <1>2 DEF Split
<1>6. \A p \in Pods : \A x \in B[p] : x \notin W2 /\ x \notin C2 /\ x \notin I2 /\ \A q \in Pods : q # p => x \notin B[q]
  BY <1>1, <1>2 DEF Split
<1> QED
  BY <1>3, <1>4, <1>5, <1>6 DEF Split, W2, C2, I2

\* The orders X, Y and Z of the pod p leave it.
Leaves(A, B, p, X, Y, Z) ==
    /\ X \subseteq A[p] /\ Y \subseteq A[p] /\ Z \subseteq A[p] /\ X \cap Y = {} /\ X \cap Z = {} /\ Y \cap Z = {}
    /\ B[p] = A[p] \ (X \cup Y \cup Z) /\ \A q \in Pods : q # p => B[q] = A[q]

\* The same for one pod.
LEMMA PartyLeft ==
  ASSUME NEW n, NEW W, NEW C, NEW I, NEW A, Split(n, W, C, I, A), NEW p \in Pods, NEW X, NEW Y, NEW Z, NEW B, Leaves(A, B, p, X, Y, Z)
  PROVE  Split(n, W \cup X, C \cup Y, I \cup Z, B)
<1>0. /\ X \subseteq A[p] /\ Y \subseteq A[p] /\ Z \subseteq A[p] /\ X \cap Y = {} /\ X \cap Z = {} /\ Y \cap Z = {}
      /\ B[p] = A[p] \ (X \cup Y \cup Z) /\ \A q \in Pods : q # p => B[q] = A[q]
  BY DEF Leaves
<1>1. \A x : x \in 1 .. n <=> (x \in W \cup X \/ x \in C \cup Y \/ x \in I \cup Z \/ \E q \in Pods : x \in B[q])
  <2>1. \A x \in B[p] : x \in A[p]
    BY <1>0
  <2>2. \A x \in A[p] : x \in B[p] \/ x \in X \/ x \in Y \/ x \in Z
    BY <1>0
  <2>3. \A q \in Pods : q = p \/ B[q] = A[q]
    BY <1>0
  <2> QED
    BY <1>0, <2>1, <2>2, <2>3 DEF Split
<1>2. \A x \in W \cup X : x \notin C \cup Y /\ x \notin I \cup Z
  BY <1>0 DEF Split
<1>3. \A x \in C \cup Y : x \notin I \cup Z
  BY <1>0 DEF Split
<1>4. \A q \in Pods : \A x \in B[q] : x \notin W \cup X /\ x \notin C \cup Y /\ x \notin I \cup Z /\ \A r \in Pods : r # q => x \notin B[r]
  BY <1>0 DEF Split
<1> QED
  BY <1>1, <1>2, <1>3, <1>4 DEF Split

\* An order of the queue gets aboard.
LEMMA PartyBoarded ==
  ASSUME NEW n, NEW W, NEW C, NEW I, NEW A, Split(n, W, C, I, A), NEW p \in Pods, NEW x \in W, NEW B,
         B[p] = A[p] \cup {x}, \A q \in Pods : q # p => B[q] = A[q]
  PROVE  Split(n, W \ {x}, C, I, B)
<1>1. \A y : y \in 1 .. n <=> (y \in W \ {x} \/ y \in C \/ y \in I \/ \E q \in Pods : y \in B[q])
  <2>1. \A q \in Pods : \A y : y \in B[q] <=> y \in A[q] \/ (q = p /\ y = x)
    OBVIOUS
  <2> QED
    BY <2>1 DEF Split
<1>2. \A q \in Pods : \A y \in B[q] : y \notin W \ {x} /\ y \notin C /\ y \notin I /\ \A r \in Pods : r # q => y \notin B[r]
  BY DEF Split
<1> QED
  BY <1>1, <1>2 DEF Split

\* A new order joins the queue, or gets aboard at once.
LEMMA PartySubmitted ==
  ASSUME NEW n \in Nat, NEW W, NEW C, NEW I, NEW A, Split(n, W, C, I, A)
  PROVE  /\ Split(n + 1, W \cup {n + 1}, C, I, A)
         /\ \A p \in Pods : \A B : B[p] = A[p] \cup {n + 1} /\ (\A q \in Pods : q # p => B[q] = A[q]) => Split(n + 1, W, C, I, B)
<1>1. n + 1 \notin 1 .. n /\ \A y : y \in 1 .. n + 1 <=> y \in 1 .. n \/ y = n + 1
  OBVIOUS
<1>2. n + 1 \notin W /\ n + 1 \notin C /\ n + 1 \notin I /\ \A p \in Pods : n + 1 \notin A[p]
  BY <1>1 DEF Split
<1>3. Split(n + 1, W \cup {n + 1}, C, I, A)
  BY <1>1, <1>2 DEF Split
<1>4. ASSUME NEW p \in Pods, NEW B, B[p] = A[p] \cup {n + 1}, \A q \in Pods : q # p => B[q] = A[q] PROVE Split(n + 1, W, C, I, B)
  <2>1. \A q \in Pods : \A y : y \in B[q] <=> y \in A[q] \/ (q = p /\ y = n + 1)
    BY <1>4
  <2>2. \A y : y \in 1 .. n + 1 <=> (y \in W \/ y \in C \/ y \in I \/ \E q \in Pods : y \in B[q])
    BY <1>1, <2>1 DEF Split
  <2>3. \A q \in Pods : \A y \in B[q] : y \notin W /\ y \notin C /\ y \notin I /\ \A r \in Pods : r # q => y \notin B[r]
    BY <1>2, <2>1 DEF Split
  <2> QED
    BY <2>2, <2>3 DEF Split
<1> QED
  BY <1>3, <1>4

-----------------------------------------------------------------------------
(***************************************************************************)
(* Lists of trips.                                                         *)
(***************************************************************************)
\* The trips of a list by index and by membership.
LEMMA IdsOfTrips ==
  ASSUME NEW T, NEW q \in Seq(T)
  PROVE  /\ Ids(q) = {t.id : t \in Range(q)} /\ Range(q) \subseteq T
         /\ \A i \in DOMAIN q : q[i] \in Range(q) /\ q[i] \in T
         /\ \A t \in Range(q) : \E i \in DOMAIN q : t = q[i]
BY DEF Ids, Range

\* The trips change and their IDs stay.
LEMMA TripsChanged ==
  ASSUME NEW T, \A t \in T : t.id \in Nat, NEW q \in Seq(T), Ordered(q), NEW w, w = [i \in DOMAIN q |-> w[i]],
         \A i \in DOMAIN q : w[i] \in T /\ w[i].id = q[i].id
  PROVE  w \in Seq(T) /\ Ordered(w) /\ Ids(w) = Ids(q) /\ DOMAIN w = DOMAIN q /\ Len(w) = Len(q)
<1>1. DOMAIN q = 1 .. Len(q) /\ Len(q) \in Nat
  OBVIOUS
<1>2. w \in [1 .. Len(q) -> T]
  BY <1>1
<1>3. w \in Seq(T)
  BY <1>1, <1>2
<1>4. DOMAIN w = DOMAIN q
  BY <1>1, <1>2
<1>5. Len(w) = Len(q)
  BY <1>1, <1>3, <1>4
<1>6. Ordered(w) /\ Ids(w) = Ids(q)
  BY <1>4 DEF Ordered, Ids
<1> QED
  BY <1>3, <1>4, <1>5, <1>6

\* One trip changes.
LEMMA TripChanged ==
  ASSUME NEW T, \A t \in T : t.id \in Nat, NEW q \in Seq(T), Ordered(q), NEW i \in DOMAIN q, NEW t \in T, t.id = q[i].id
  PROVE  LET w == [q EXCEPT ![i] = t]
         IN  /\ w \in Seq(T) /\ Ordered(w) /\ Ids(w) = Ids(q) /\ DOMAIN w = DOMAIN q /\ Len(w) = Len(q)
             /\ Range(w) = (Range(q) \ {q[i]}) \cup {t}
             /\ w[i] = t /\ \A k \in DOMAIN q : k # i => w[k] = q[k]
<1> DEFINE w == [q EXCEPT ![i] = t]
<1>1. w = [k \in DOMAIN q |-> w[k]] /\ \A k \in DOMAIN q : w[k] = IF k = i THEN t ELSE q[k]
  OBVIOUS
<1>2. \A k \in DOMAIN q : w[k] \in T /\ w[k].id = q[k].id
  BY <1>1
<1>3. \A k \in DOMAIN q : k # i => q[k] # q[i]
  BY OrderedDiffer
<1> HIDE DEF w
<1>4. w \in Seq(T) /\ Ordered(w) /\ Ids(w) = Ids(q) /\ DOMAIN w = DOMAIN q /\ Len(w) = Len(q)
  BY <1>1, <1>2, TripsChanged
<1>5. Range(w) = (Range(q) \ {q[i]}) \cup {t}
  BY <1>1, <1>3, <1>4 DEF Range
<1> QED
  BY <1>1, <1>4, <1>5 DEF w

-----------------------------------------------------------------------------
(***************************************************************************)
(* The invariant of the state that the operations pass from one to the     *)
(* next, at every point of a tick.                                         *)
(***************************************************************************)
FaultRecord == [left : Nat, age : Nat, cut : SUBSET Stations]
State(j) == [pods : [Pods -> PodRecord(j)], queue : Seq(Trip(j)), completed : SUBSET Nat, interrupted : SUBSET Nat,
             faults : [Pods -> FaultRecord], emergencies : [Pods -> Nat]]

Aboards(vehicles) == [p \in Pods |-> IdsOf(vehicles[p].riders)]
Party(riders, e) == {k \in Active(riders) : riders[k].id = e}

\* A trip can count on the pods that it names.
TripOK(t, vehicles, j) ==
    /\ LegOf(t, j) # j[t.id].to
    /\ t.pod # NoPod => t.pod # t.excluded /\ PodServes(vehicles[t.pod], LegOf(t, j))
    /\ t.deferPod # NoPod => InService(vehicles[t.deferPod])

Unshared(T) == \A t, u \in T : t.pod # NoPod /\ t.pod = u.pod => t = u

QueueGood(q, vehicles, j) == q \in Seq(Trip(j)) /\ Ordered(q) /\ (\A t \in Range(q) : TripOK(t, vehicles, j)) /\ Unshared(Range(q))

\* The holds, the purpose and the records of a pod.
Incident(v, fault, e) ==
    /\ fault # NoFault => "fault" \in v.withdrawn
    /\ "emergency" \in v.withdrawn => e # 0
    /\ v.op.purpose = "unload" => v.op.interrupt = Party(v.riders, e) /\ v.op.interrupt # {}

Good(s, j, n) ==
    /\ s \in State(j)
    /\ \A p \in Pods : PodGood(s.pods[p], j) /\ Incident(s.pods[p], s.faults[p], s.emergencies[p])
    /\ QueueGood(s.queue, s.pods, j)
    /\ Split(n, Ids(s.queue), s.completed, s.interrupted, Aboards(s.pods))

\* The parties only get smaller, of every pod and of the pods out of service.
Shrinks(s, t) == \A p \in Pods : IdsOf(t.pods[p].riders) \subseteq IdsOf(s.pods[p].riders)
HoldsStay(s, t) ==
    \A p \in Pods : /\ t.pods[p].withdrawn = s.pods[p].withdrawn
                    /\ ~InService(s.pods[p]) => IdsOf(t.pods[p].riders) \subseteq IdsOf(s.pods[p].riders)

\* Smaller parties and the same holds, over two operations.
LEMMA Chained == \A s, t, u : /\ Shrinks(s, t) /\ Shrinks(t, u) => Shrinks(s, u)
                              /\ HoldsStay(s, t) /\ HoldsStay(t, u) => HoldsStay(s, u)
                              /\ Shrinks(s, s) /\ HoldsStay(s, s)
<1>1. \A s, t, u : Shrinks(s, t) /\ Shrinks(t, u) => Shrinks(s, u)
  BY DEF Shrinks
<1>2. \A s, t, u : HoldsStay(s, t) /\ HoldsStay(t, u) => HoldsStay(s, u)
  BY DEF HoldsStay, InService
<1> QED
  BY <1>1, <1>2, ZenonT(60) DEF Shrinks, HoldsStay

\* What the type of a trip says.
LEMMA TripTyped ==
  ASSUME NEW j, IsJourney(j)
  PROVE  \A t \in Trip(j) : /\ t.id \in Nat /\ t.id \in DOMAIN j /\ LegOf(t, j) \in Passenger /\ j[t.id].to \in Passenger
                            /\ t.leg \in Passenger \cup {NoStation}
                            /\ t.pod # NoPod => t.pod \in Pods
                            /\ t.deferPod # NoPod => t.deferPod \in Pods
BY JourneyOf DEF Trip, LegOf, OptPods

\* The parts of a state.
LEMMA StateTyped ==
  ASSUME NEW j, NEW s, s \in State(j)
  PROVE  /\ s.pods \in [Pods -> PodRecord(j)] /\ s.queue \in Seq(Trip(j)) /\ s.completed \in SUBSET Nat /\ s.interrupted \in SUBSET Nat
         /\ s.faults \in [Pods -> FaultRecord] /\ s.emergencies \in [Pods -> Nat]
         /\ s = [pods |-> s.pods, queue |-> s.queue, completed |-> s.completed, interrupted |-> s.interrupted,
                 faults |-> s.faults, emergencies |-> s.emergencies]
BY DEF State

\* A pod that no trip has may change, the others keep what is promised to the trips.
LEMMA QueueKept ==
  ASSUME NEW j, IsJourney(j), NEW q, NEW a, NEW b, QueueGood(q, a, j),
         \A p \in Pods : InService(a[p]) => InService(b[p]),
         \A p \in Pods : Keeps(a[p], b[p]) \/ \A t \in Range(q) : t.pod # p
  PROVE  QueueGood(q, b, j)
<1> SUFFICES ASSUME NEW t \in Range(q) PROVE TripOK(t, b, j)
  BY DEF QueueGood
<1>1. t \in Trip(j) /\ TripOK(t, a, j)
  BY IdsOfTrips DEF QueueGood
<1>2. /\ LegOf(t, j) \in Passenger
      /\ t.pod # NoPod => t.pod \in Pods
      /\ t.deferPod # NoPod => t.deferPod \in Pods
  BY <1>1, TripTyped
<1>3. t.pod # NoPod => PodServes(b[t.pod], LegOf(t, j))
  BY <1>1, <1>2 DEF TripOK, Keeps
<1> QED
  BY <1>1, <1>2, <1>3 DEF TripOK

\* The holds, the purpose and the party of a pod decide on its records.
LEMMA IncidentKept ==
  ASSUME NEW v, NEW w, NEW f, NEW e, Incident(v, f, e), w.withdrawn = v.withdrawn,
         w.op.purpose # "unload" \/ (w.op = v.op /\ w.riders = v.riders)
  PROVE  Incident(w, f, e)
BY DEF Incident

\* A state with another pod at p.
LEMMA PodSet ==
  ASSUME NEW j, NEW s, s \in State(j), NEW p \in Pods, NEW w, w \in PodRecord(j)
  PROVE  LET t == [s EXCEPT !.pods[p] = w]
         IN  /\ t \in State(j) /\ t.pods = [s.pods EXCEPT ![p] = w] /\ t.queue = s.queue /\ t.completed = s.completed
             /\ t.interrupted = s.interrupted /\ t.faults = s.faults /\ t.emergencies = s.emergencies
             /\ t.pods[p] = w /\ \A q \in Pods : q # p => t.pods[q] = s.pods[q]
<1> DEFINE t == [s EXCEPT !.pods[p] = w]
<1>1. s.pods \in [Pods -> PodRecord(j)]
  BY StateTyped
<1>2. /\ t.pods = [s.pods EXCEPT ![p] = w] /\ t.queue = s.queue /\ t.completed = s.completed
      /\ t.interrupted = s.interrupted /\ t.faults = s.faults /\ t.emergencies = s.emergencies
  BY DEF State
<1>3. t \in State(j)
  <2> HIDE DEF PodRecord
  <2> QED
    BY <1>1 DEF State
<1> QED
  BY <1>1, <1>2, <1>3

\* The parties and the queue stay, one pod changes.
LEMMA PodChanged ==
  ASSUME NEW j, IsJourney(j), NEW n, NEW s, Good(s, j, n), NEW p \in Pods, NEW w, PodGood(w, j),
         IdsOf(w.riders) = IdsOf(s.pods[p].riders), Incident(w, s.faults[p], s.emergencies[p]),
         InService(s.pods[p]) => InService(w),
         Keeps(s.pods[p], w) \/ \A t \in Range(s.queue) : t.pod # p
  PROVE  Good([s EXCEPT !.pods[p] = w], j, n)
<1> DEFINE t == [s EXCEPT !.pods[p] = w]
<1>1. s \in State(j) /\ w \in PodRecord(j)
  BY DEF Good, PodGood
<1>2. /\ t \in State(j) /\ t.pods = [s.pods EXCEPT ![p] = w] /\ t.queue = s.queue /\ t.completed = s.completed
      /\ t.interrupted = s.interrupted /\ t.faults = s.faults /\ t.emergencies = s.emergencies
      /\ t.pods[p] = w /\ \A q \in Pods : q # p => t.pods[q] = s.pods[q]
  BY <1>1, PodSet
<1> HIDE DEF t
<1>3. Aboards(t.pods) = Aboards(s.pods)
  BY <1>2 DEF Aboards
<1>4. \A q \in Pods : PodGood(t.pods[q], j) /\ Incident(t.pods[q], t.faults[q], t.emergencies[q])
  BY <1>2 DEF Good
<1>5. QueueGood(t.queue, t.pods, j)
  <2>1. \A q \in Pods : InService(s.pods[q]) => InService(t.pods[q])
    BY <1>2
  <2>2. \A q \in Pods : Keeps(s.pods[q], t.pods[q]) \/ \A u \in Range(s.queue) : u.pod # q
    BY <1>2 DEF Keeps
  <2>3. QueueGood(s.queue, s.pods, j)
    BY DEF Good
  <2> QED
    BY <2>1, <2>2, <2>3, <1>2, QueueKept
<1> QED
  BY <1>2, <1>3, <1>4, <1>5 DEF Good, t

-----------------------------------------------------------------------------
(***************************************************************************)
(* Parties that leave a pod.                                               *)
(***************************************************************************)
\* Riders as trips that wait again, each from its station in legs.
Requeued(riders, which, legs) == {RequeuedTrip(riders[k].id, legs[k]) : k \in which}
IdsIn(riders, which) == {riders[k].id : k \in which}

\* Each has a way to go from there.
GoesOn(riders, which, legs, j) ==
    \A k \in which : /\ legs[k] \in Passenger \cup {NoStation}
                      /\ (IF legs[k] = NoStation THEN j[riders[k].id].from ELSE legs[k]) # j[riders[k].id].to

\* Trips that join the queue without a pod.
NewTrips(trips, j) ==
    /\ trips \subseteq Trip(j) /\ IsFiniteSet(trips)
    /\ \A t \in trips : t.pod = NoPod /\ t.deferPod = NoPod /\ LegOf(t, j) # j[t.id].to
    /\ \A t, u \in trips : t # u => t.id # u.id
NamesIn(trips) == {t.id : t \in trips}

\* Riders that wait again are trips without a pod, with the IDs of the riders.
LEMMA RequeuedAre ==
  ASSUME NEW j, IsJourney(j), NEW riders \in Seq(Rider(j)), RiderList(riders, j), NEW which \in SUBSET Active(riders), NEW legs,
         GoesOn(riders, which, legs, j)
  PROVE  LET trips == Requeued(riders, which, legs)
         IN  NewTrips(trips, j) /\ NamesIn(trips) = IdsIn(riders, which)
<1> DEFINE trips == Requeued(riders, which, legs)
<1>0. \A k \in which : /\ legs[k] \in Passenger \cup {NoStation}
                        /\ (IF legs[k] = NoStation THEN j[riders[k].id].from ELSE legs[k]) # j[riders[k].id].to
  BY DEF GoesOn
<1>1. \A k \in which : riders[k].id \in DOMAIN j /\ k \in DOMAIN riders /\ k \in Active(riders)
  <2>1. \A k \in DOMAIN riders : riders[k] \in Rider(j)
    <3> DEFINE R == Rider(j)
    <3> HIDE DEF R
    <3>1. riders \in Seq(R)
      BY DEF R
    <3>2. \A k \in DOMAIN riders : riders[k] \in R
      BY <3>1
    <3> QED
      BY <3>2 DEF R
  <2> QED
    BY <2>1 DEF Rider, Active
<1>2. \A k \in which : RequeuedTrip(riders[k].id, legs[k]) \in Trip(j)
  BY <1>0, <1>1 DEF RequeuedTrip, Trip, OptPods
<1>3. IsFiniteSet(which)
  <2>1. DOMAIN riders = 1 .. Len(riders) /\ Len(riders) \in Nat
    OBVIOUS
  <2>2. IsFiniteSet(1 .. Len(riders))
    BY <2>1, FS_Interval
  <2> QED
    BY <2>1, <2>2, FS_Subset DEF Active
<1>4. IsFiniteSet(trips)
  <2> DEFINE f == [k \in which |-> RequeuedTrip(riders[k].id, legs[k])]
  <2>1. f \in [which -> trips] /\ \A t \in trips : \E k \in which : f[k] = t
    BY DEF Requeued
  <2> HIDE DEF f, trips
  <2>2. f \in Surjection(which, trips)
    BY <2>1 DEF Surjection
  <2> QED
    BY <1>3, <2>2, FS_Surjection
<1>5. \A k, l \in which : k # l => riders[k].id # riders[l].id
  BY <1>1 DEF RiderList
<1>6. \A t \in trips : \E k \in which : t = RequeuedTrip(riders[k].id, legs[k])
  BY DEF Requeued
<1>7. \A k \in which : LET t == RequeuedTrip(riders[k].id, legs[k])
                       IN  t \in trips /\ t.id = riders[k].id /\ t.pod = NoPod /\ t.deferPod = NoPod /\ t.leg = legs[k]
  BY DEF Requeued, RequeuedTrip
<1> HIDE DEF trips
<1>8. \A t, u \in trips : t # u => t.id # u.id
  BY <1>5, <1>6, <1>7
<1>9. \A t \in trips : t.pod = NoPod /\ t.deferPod = NoPod /\ LegOf(t, j) # j[t.id].to
  BY <1>0, <1>6, <1>7 DEF LegOf
<1>10. NamesIn(trips) = IdsIn(riders, which)
  BY <1>6, <1>7 DEF NamesIn, IdsIn
<1>11. trips \in SUBSET Trip(j)
  BY <1>2, <1>6
<1> QED
  BY <1>4, <1>8, <1>9, <1>10, <1>11 DEF trips, NewTrips

\* Trips without a pod join the queue.
LEMMA QueueJoined ==
  ASSUME NEW j, IsJourney(j), NEW q, NEW a, QueueGood(q, a, j), NEW trips, NewTrips(trips, j), NamesIn(trips) \cap Ids(q) = {}
  PROVE  QueueGood(QueueAll(q, trips), a, j) /\ Ids(QueueAll(q, trips)) = Ids(q) \cup NamesIn(trips)
<1> DEFINE T == Trip(j)
           w == QueueAll(q, trips)
<1>1. (\A t \in T : t.id \in Nat) /\ q \in Seq(T) /\ Ordered(q)
  BY TripTyped DEF QueueGood
<1>2. trips \in SUBSET T /\ IsFiniteSet(trips) /\ \A t, u \in trips : t # u => t.id # u.id
  BY DEF NewTrips
<1>3. \A t \in trips : \A u \in Range(q) : u.id # t.id
  <2> HIDE DEF T
  <2>1. \A u \in Range(q) : u.id \in Ids(q)
    BY <1>1, IdsOfTrips
  <2> QED
    BY <2>1 DEF NamesIn
<1> HIDE DEF T
<1>4. w \in Seq(T) /\ Ordered(w) /\ Range(w) = Range(q) \cup trips
  BY <1>1, <1>2, <1>3, TripsQueued
<1> HIDE DEF w
<1>5. Ids(w) = {t.id : t \in Range(w)} /\ Ids(q) = {t.id : t \in Range(q)}
  BY <1>1, <1>4, IdsOfTrips
<1>6. Ids(w) = Ids(q) \cup NamesIn(trips)
  BY <1>4, <1>5 DEF NamesIn
<1>7. \A t \in Range(w) : TripOK(t, a, j)
  BY <1>4 DEF QueueGood, TripOK, NewTrips
<1>8. Unshared(Range(w))
  BY <1>4 DEF QueueGood, Unshared, NewTrips
<1> QED
  BY <1>4, <1>6, <1>7, <1>8 DEF QueueGood, w, T

\* Of the party of the pod p, X goes to the queue, Y is completed and Z interrupted.
PartyEnds(s, t, p, X, Y, Z) ==
    LET party == IdsOf(s.pods[p].riders)
    IN  /\ X \subseteq party /\ Y \subseteq party /\ Z \subseteq party /\ X \cap Y = {} /\ X \cap Z = {} /\ Y \cap Z = {}
        /\ IdsOf(t.pods[p].riders) = party \ (X \cup Y \cup Z)
        /\ Ids(t.queue) = Ids(s.queue) \cup X /\ t.completed = s.completed \cup Y /\ t.interrupted = s.interrupted \cup Z

\* A party that leaves its pod keeps the invariant, and nobody gets aboard.
LEMMA PartyOff ==
  ASSUME NEW j, IsJourney(j), NEW n, NEW s, Good(s, j, n), NEW p \in Pods, NEW w, PodGood(w, j), NEW t, t \in State(j),
         NEW X, NEW Y, NEW Z, PartyEnds(s, t, p, X, Y, Z),
         Keeps(s.pods[p], w) \/ s.pods[p].occupied, w.withdrawn = s.pods[p].withdrawn,
         t.pods = [s.pods EXCEPT ![p] = w], QueueGood(t.queue, s.pods, j),
         t.faults = s.faults, t.emergencies = s.emergencies, Incident(w, s.faults[p], s.emergencies[p])
  PROVE  Good(t, j, n) /\ Shrinks(s, t)
<1>1. s \in State(j) /\ s.pods \in [Pods -> PodRecord(j)]
  BY StateTyped DEF Good
<1>2. t.pods[p] = w /\ \A q \in Pods : q # p => t.pods[q] = s.pods[q]
  BY <1>1
<1>3. \A q \in Pods : PodGood(t.pods[q], j) /\ Incident(t.pods[q], t.faults[q], t.emergencies[q])
  BY <1>2 DEF Good
<1>4. Shrinks(s, t)
  BY <1>2 DEF Shrinks, PartyEnds
<1>5. QueueGood(t.queue, t.pods, j)
  <2>1. \A q \in Pods : InService(s.pods[q]) => InService(t.pods[q])
    BY <1>2 DEF InService
  <2>2. \A q \in Pods : Keeps(s.pods[q], t.pods[q])
    BY <1>2, <2>1 DEF Keeps, PodServes
  <2> QED
    BY <2>1, <2>2, QueueKept
<1>6. Split(n, Ids(t.queue), t.completed, t.interrupted, Aboards(t.pods))
  <2> DEFINE A == Aboards(s.pods)
             B == Aboards(t.pods)
             W == Ids(s.queue)
             C == s.completed
             I == s.interrupted
  <2>1. A[p] = IdsOf(s.pods[p].riders) /\ B[p] = IdsOf(w.riders) /\ \A q \in Pods : q # p => B[q] = A[q]
    BY <1>2 DEF Aboards
  <2>2. Split(n, W, C, I, A)
    BY DEF Good
  <2> HIDE DEF A, B, W, C, I
  <2>3. Leaves(A, B, p, X, Y, Z)
    BY <1>2, <2>1 DEF Leaves, PartyEnds
  <2>4. Split(n, W \cup X, C \cup Y, I \cup Z, B)
    BY <2>2, <2>3, PartyLeft
  <2> QED
    BY <2>4 DEF B, W, C, I, PartyEnds
<1> QED
  BY <1>3, <1>4, <1>5, <1>6 DEF Good

\* Riders of a list have different IDs.
LEMMA IdsDiffer ==
  ASSUME NEW j, NEW riders, RiderList(riders, j), NEW a \in SUBSET Active(riders), NEW b \in SUBSET Active(riders), a \cap b = {}
  PROVE  IdsIn(riders, a) \cap IdsIn(riders, b) = {}
BY DEF RiderList, IdsIn

-----------------------------------------------------------------------------
(***************************************************************************)
(* The unloading of a pod.                                                 *)
(***************************************************************************)
\* The end of an operational unload: the marked riders are interrupted, the others arrive or wait again.
LEMMA UnloadFinished ==
  ASSUME IsJourney(J), NEW n, NEW s, Good(s, J, n), NEW p \in Pods, NEW r, r = SetPod(s, p, PhaseTicked(s.pods[p])),
         UnloadDone(s.pods[p], r.pods[p], J)
  PROVE  Good(FinishOperationalUnload(r, p), J, n) /\ Shrinks(s, FinishOperationalUnload(r, p))
<1> DEFINE u == s.pods[p]
           v == r.pods[p]
           marked == ActiveRiders(v) \cap InterruptMarks(v)
           arrived == {k \in ActiveRiders(v) \ marked : ToOf(v.riders[k].id) = v.at}
           others == ActiveRiders(v) \ (marked \cup arrived)
           w == SettleIdle(WithoutRiders(CompleteRiders(v, arrived), marked \cup others))
           trips == {RequeuedTrip(v.riders[k].id, v.at) : k \in others}
           t == FinishOperationalUnload(r, p)
<1>1. s \in State(J) /\ PodGood(u, J) /\ QueueGood(s.queue, s.pods, J)
  BY DEF Good
<1>2. v = PhaseTicked(u) /\ v \in PodRecord(J) /\ Kin(u, v) /\ v.at = u.at /\ v.activity = u.activity /\ v.occupied = u.occupied
  <2>1. PhaseTicked(u) \in PodRecord(J)
    BY <1>1, PhasePassed
  <2>2. v = PhaseTicked(u)
    BY <1>1, <2>1, PodSet DEF SetPod
  <2> QED
    BY <1>1, <2>2, PhasePassed
<1>3. /\ r \in State(J) /\ r.pods = [s.pods EXCEPT ![p] = v] /\ r.queue = s.queue /\ r.completed = s.completed
      /\ r.interrupted = s.interrupted /\ r.faults = s.faults /\ r.emergencies = s.emergencies
  BY <1>1, <1>2, PodSet DEF SetPod
<1> HIDE DEF u
<1>4. u.occupied /\ v.at \in Passenger /\ RiderList(v.riders, J) /\ v.riders = u.riders
  BY <1>1, <1>2 DEF PodGood, FlagsOK, RidersOK, UnloadDone, Kin
<1>5. v.riders \in Seq(Rider(J))
  BY <1>2 DEF PodRecord
<1>6. ActiveRiders(v) = Active(v.riders) /\ IdsAt(v, ActiveRiders(v)) = IdsOf(v.riders)
  BY ActiveIs, SMTT(30)
<1>7. /\ marked \in SUBSET Active(v.riders) /\ arrived \in SUBSET Active(v.riders) /\ others \in SUBSET Active(v.riders)
      /\ marked \cap arrived = {} /\ marked \cap others = {} /\ arrived \cap others = {}
      /\ Active(v.riders) = marked \cup arrived \cup others
  BY <1>6
<1>8. \A k \in others : ToOf(v.riders[k].id) # v.at
  OBVIOUS
<1>9. /\ t.pods = [s.pods EXCEPT ![p] = w] /\ t.queue = QueueAll(s.queue, trips) /\ t.completed = s.completed \cup IdsAt(v, arrived)
      /\ t.interrupted = s.interrupted \cup IdsAt(v, marked) /\ t.faults = s.faults /\ t.emergencies = s.emergencies
      /\ t = [pods |-> t.pods, queue |-> t.queue, completed |-> t.completed, interrupted |-> t.interrupted,
              faults |-> t.faults, emergencies |-> t.emergencies]
  <2>1. t = [[r EXCEPT !.queue = QueueAll(@, trips)] EXCEPT !.pods[p] = w, !.interrupted = @ \cup IdsAt(v, marked), !.completed = @ \cup IdsAt(v, arrived)]
    BY DEF FinishOperationalUnload, Transfer
  <2> HIDE DEF w, trips, v, marked, arrived, others, t
  <2>2. r = [pods |-> r.pods, queue |-> r.queue, completed |-> r.completed, interrupted |-> r.interrupted,
             faults |-> r.faults, emergencies |-> r.emergencies] /\ s.pods \in [Pods -> PodRecord(J)]
    BY <1>1, <1>3, StateTyped
  <2> QED
    BY <1>3, <2>1, <2>2
<1>10. \A k \in DOMAIN v.riders : v.riders[k] \in Rider(J) /\ v.riders[k].id \in DOMAIN J /\ v.riders[k].id \in Nat
  <2> DEFINE R == Rider(J)
  <2>1. \A k \in DOMAIN v.riders : v.riders[k] \in R
    <3> HIDE DEF R, v
    <3>1. v.riders \in Seq(R)
      BY <1>5 DEF R
    <3> QED
      BY <3>1
  <2> QED
    BY <2>1, JourneyOf DEF Rider
<1> HIDE DEF v, marked, arrived, others
<1>11. trips = Requeued(v.riders, others, [k \in others |-> v.at])
  BY DEF Requeued
<1>12. NewTrips(trips, J) /\ NamesIn(trips) = IdsAt(v, others)
  <2> DEFINE legs == [k \in others |-> v.at]
  <2>1. GoesOn(v.riders, others, legs, J)
    BY <1>4, <1>8, StationsAre DEF GoesOn, ToOf, J
  <2> HIDE DEF legs, trips
  <2>2. trips = Requeued(v.riders, others, legs)
    BY <1>11 DEF legs
  <2>3. /\ NewTrips(Requeued(v.riders, others, legs), J)
        /\ NamesIn(Requeued(v.riders, others, legs)) = IdsIn(v.riders, others)
    <3> DEFINE riders == v.riders
    <3>1. riders \in Seq(Rider(J)) /\ RiderList(riders, J) /\ others \in SUBSET Active(riders) /\ GoesOn(riders, others, legs, J)
      BY <1>4, <1>5, <1>7, <2>1
    <3> HIDE DEF riders
    <3>2. NewTrips(Requeued(riders, others, legs), J) /\ NamesIn(Requeued(riders, others, legs)) = IdsIn(riders, others)
      BY <3>1, RequeuedAre
    <3> QED
      BY <3>2 DEF riders
  <2> QED
    BY <2>2, <2>3 DEF IdsAt, IdsIn
<1> HIDE DEF trips
<1>13. IdsAt(v, marked) \cap IdsAt(v, arrived) = {} /\ IdsAt(v, marked) \cap IdsAt(v, others) = {} /\ IdsAt(v, arrived) \cap IdsAt(v, others) = {}
  <2>1. IdsIn(v.riders, marked) \cap IdsIn(v.riders, arrived) = {}
    BY <1>4, <1>7, IdsDiffer
  <2>2. IdsIn(v.riders, marked) \cap IdsIn(v.riders, others) = {}
    BY <1>4, <1>7, IdsDiffer
  <2>3. IdsIn(v.riders, arrived) \cap IdsIn(v.riders, others) = {}
    BY <1>4, <1>7, IdsDiffer
  <2> QED
    BY <2>1, <2>2, <2>3 DEF IdsAt, IdsIn
<1>14. IdsOf(u.riders) = IdsAt(v, marked) \cup IdsAt(v, arrived) \cup IdsAt(v, others)
  BY <1>4, <1>7 DEF IdsOf, IdsAt
<1>15. PodGood(w, J) /\ IdsOf(w.riders) = {} /\ w.withdrawn = u.withdrawn /\ w.op = Service
  <2>1. UnloadDone(u, v, J) /\ Active(v.riders) \ arrived \subseteq marked \cup others
    BY <1>7 DEF u, v
  <2> QED
    BY <1>7, <2>1, PodUnloaded
<1> HIDE DEF w, t
<1>16. Split(n, Ids(s.queue), s.completed, s.interrupted, Aboards(s.pods)) /\ IdsOf(u.riders) = Aboards(s.pods)[p]
  BY DEF Good, Aboards, u
<1>17. NamesIn(trips) \cap Ids(s.queue) = {}
  BY <1>12, <1>14, <1>16 DEF Split
<1>18. QueueGood(t.queue, s.pods, J) /\ Ids(t.queue) = Ids(s.queue) \cup IdsAt(v, others)
  BY <1>1, <1>9, <1>12, <1>17, QueueJoined
<1>19. IdsOf(v.riders) \in SUBSET Nat /\ IdsAt(v, marked) \in SUBSET Nat /\ IdsAt(v, arrived) \in SUBSET Nat
  BY <1>7, <1>10 DEF IdsAt, IdsOf, Active
<1>20. t \in State(J)
  <2>1. t.queue \in Seq(Trip(J)) /\ w \in PodRecord(J)
    BY <1>15, <1>18 DEF QueueGood, PodGood
  <2>2. /\ s.pods \in [Pods -> PodRecord(J)] /\ s.completed \in SUBSET Nat /\ s.interrupted \in SUBSET Nat
        /\ s.faults \in [Pods -> FaultRecord] /\ s.emergencies \in [Pods -> Nat]
    BY <1>1, StateTyped
  <2>3. t.pods \in [Pods -> PodRecord(J)]
    BY <1>9, <2>1, <2>2
  <2> QED
    BY <1>9, <1>19, <2>1, <2>2, <2>3 DEF State
<1>21. Incident(w, s.faults[p], s.emergencies[p])
  BY <1>15, IncidentKept DEF Good, u, Service
<1> QED
  <2> DEFINE X == IdsAt(v, others)
             Y == IdsAt(v, arrived)
             Z == IdsAt(v, marked)
  <2>1. t.pods[p] = w
    BY <1>1, <1>9, StateTyped
  <2>2. PartyEnds(s, t, p, X, Y, Z)
    BY <1>9, <1>13, <1>14, <1>15, <1>18, <2>1 DEF PartyEnds, u
  <2> HIDE DEF X, Y, Z
  <2>5. Good(t, J, n) /\ Shrinks(s, t)
    BY <1>4, <1>9, <1>15, <1>18, <1>20, <1>21, <2>2, PartyOff DEF u
  <2> QED
    BY <2>5 DEF t

\* The arrival of the riders without a later stop.
LEMMA RidersAlighted ==
  ASSUME IsJourney(J), NEW n, NEW s, Good(s, J, n), NEW p \in Pods, NEW r, r = SetPod(s, p, PhaseTicked(s.pods[p])),
         UnloadDone(s.pods[p], r.pods[p], J), r.pods[p].op.purpose # "unload"
  PROVE  Good(Alight(r, p), J, n) /\ Shrinks(s, Alight(r, p))
<1> DEFINE u == s.pods[p]
           v == r.pods[p]
           w == AlightedPod(r, v)
           Y == IdsAt(v, Leaving(v))
           t == Alight(r, p)
<1>1. s \in State(J) /\ PodGood(u, J) /\ QueueGood(s.queue, s.pods, J)
  BY DEF Good
<1>2. v = PhaseTicked(u) /\ v \in PodRecord(J) /\ Kin(u, v) /\ v.at = u.at /\ v.activity = u.activity /\ v.occupied = u.occupied
  <2>1. PhaseTicked(u) \in PodRecord(J)
    BY <1>1, PhasePassed
  <2>2. v = PhaseTicked(u)
    BY <1>1, <2>1, PodSet DEF SetPod
  <2> QED
    BY <1>1, <2>2, PhasePassed
<1>3. /\ r \in State(J) /\ r.pods = [s.pods EXCEPT ![p] = v] /\ r.queue = s.queue /\ r.completed = s.completed
      /\ r.interrupted = s.interrupted /\ r.faults = s.faults /\ r.emergencies = s.emergencies
  BY <1>1, <1>2, PodSet DEF SetPod
<1>4. /\ PodGood(w, J) /\ IdsOf(w.riders) = IdsOf(v.riders) \ Y
      /\ Leaving(v) \subseteq Active(v.riders) /\ w.withdrawn = u.withdrawn /\ w.op = Service
  BY PodAlighted
<1> HIDE DEF u
<1>5. t = [r EXCEPT !.completed = @ \cup Y, !.pods[p] = w]
  BY DEF Alight, AlightedPod
<1> HIDE DEF v, w, Y, t
<1>6. /\ t.pods = [s.pods EXCEPT ![p] = w] /\ t.queue = s.queue /\ t.completed = s.completed \cup Y
      /\ t.interrupted = s.interrupted /\ t.faults = s.faults /\ t.emergencies = s.emergencies
      /\ t = [pods |-> t.pods, queue |-> t.queue, completed |-> t.completed, interrupted |-> t.interrupted,
              faults |-> t.faults, emergencies |-> t.emergencies]
  <2>1. r = [pods |-> r.pods, queue |-> r.queue, completed |-> r.completed, interrupted |-> r.interrupted,
             faults |-> r.faults, emergencies |-> r.emergencies] /\ s.pods \in [Pods -> PodRecord(J)]
    BY <1>1, <1>3, StateTyped
  <2> QED
    BY <1>3, <1>5, <2>1
<1>7. u.occupied /\ v.riders = u.riders
  BY <1>1, <1>2 DEF PodGood, FlagsOK, UnloadDone, Kin, u, v
<1>8. Y \subseteq IdsOf(u.riders) /\ Y \in SUBSET Nat
  <2>1. Y \subseteq IdsOf(u.riders)
    BY <1>4, <1>7 DEF Y, IdsAt, IdsOf
  <2> DEFINE R == Rider(J)
             riders == u.riders
  <2>2. \A k \in DOMAIN riders : riders[k] \in R
    <3>1. riders \in Seq(R)
      BY <1>1 DEF PodGood, PodRecord
    <3> HIDE DEF R, riders
    <3> QED
      BY <3>1
  <2>3. \A k \in DOMAIN riders : riders[k].id \in Nat
    BY <2>2, JourneyOf DEF Rider
  <2> QED
    BY <2>1, <2>3 DEF IdsOf, Active
<1>9. s.pods \in [Pods -> PodRecord(J)] /\ s.completed \in SUBSET Nat
  BY <1>1, StateTyped
<1>10. t \in State(J)
  <2>1. w \in PodRecord(J)
    BY <1>4 DEF PodGood
  <2>2. t.pods \in [Pods -> PodRecord(J)] /\ t.completed \in SUBSET Nat
    BY <1>6, <1>8, <1>9, <2>1
  <2> QED
    BY <1>1, <1>6, <2>2 DEF State
<1>11. PartyEnds(s, t, p, {}, Y, {})
  <2>1. t.pods[p] = w
    BY <1>6, <1>9
  <2> QED
    BY <1>4, <1>6, <1>7, <1>8, <2>1 DEF PartyEnds, u
<1>12. Incident(w, s.faults[p], s.emergencies[p])
  BY <1>4, IncidentKept DEF Good, u, Service
<1>13. Good(t, J, n) /\ Shrinks(s, t)
  BY <1>1, <1>4, <1>6, <1>7, <1>10, <1>11, <1>12, PartyOff DEF u
<1> QED
  BY <1>13 DEF t

\* The unloading step of one pod.
LEMMA UnloadStep ==
  ASSUME IsJourney(J), NEW n, NEW s, Good(s, J, n), NEW p \in Pods
  PROVE  Good(UnloadPod(s, p), J, n) /\ Shrinks(s, UnloadPod(s, p))
<1> DEFINE u == s.pods[p]
           r == SetPod(s, p, PhaseTicked(u))
           v == r.pods[p]
<1>1. s \in State(J) /\ PodGood(u, J)
  BY DEF Good
<1>2. v = PhaseTicked(u)
  <2> DEFINE x == PhaseTicked(u)
  <2>1. x \in PodRecord(J)
    BY <1>1, PhasePassed
  <2>2. r = [s EXCEPT !.pods[p] = x]
    BY DEF SetPod
  <2> HIDE DEF x, r
  <2>3. r.pods[p] = x
    BY <1>1, <2>1, <2>2, PodSet
  <2> QED
    BY <2>3 DEF x
<1>3. CASE Faulted(s, p)
  BY <1>3, Chained DEF UnloadPod
<1>4. CASE ~Faulted(s, p) /\ ~(v.activity = "Unloading" /\ v.phase = 0)
  <2>1. PodGood(v, J) /\ Kin(u, v) /\ Keeps(u, v)
    BY <1>1, <1>2, <1>4, PhasePassed
  <2>2. IdsOf(v.riders) = IdsOf(u.riders) /\ (InService(u) => InService(v))
    BY <2>1 DEF Kin, InService
  <2>3. Incident(v, s.faults[p], s.emergencies[p])
    BY <2>1, IncidentKept DEF Kin, Good
  <2>4. r = [s EXCEPT !.pods[p] = v]
    BY <1>2 DEF SetPod
  <2>5. UnloadPod(s, p) = r
    BY <1>4 DEF UnloadPod
  <2>6. \A q \in Pods : q # p => r.pods[q] = s.pods[q]
    BY <1>1, <1>2, <2>1, PodSet DEF SetPod, PodGood
  <2> HIDE DEF r, v
  <2>7. Good([s EXCEPT !.pods[p] = v], J, n)
    BY <2>1, <2>2, <2>3, PodChanged
  <2> HIDE DEF u
  <2>8. Shrinks(s, r)
    BY <2>2, <2>6 DEF Shrinks, u, v
  <2> QED
    BY <2>4, <2>5, <2>7, <2>8
<1>5. CASE ~Faulted(s, p) /\ v.activity = "Unloading" /\ v.phase = 0
  <2>1. UnloadDone(u, v, J)
    BY <1>1, <1>2, <1>5 DEF UnloadDone
  <2>2. UnloadPod(s, p) = IF v.op.purpose = "unload" THEN FinishOperationalUnload(r, p) ELSE Alight(r, p)
    BY <1>5 DEF UnloadPod
  <2> HIDE DEF r
  <2>3. r = SetPod(s, p, PhaseTicked(s.pods[p]))
    BY DEF r
  <2>4. CASE v.op.purpose = "unload"
    BY <2>1, <2>2, <2>3, <2>4, UnloadFinished
  <2>5. CASE v.op.purpose # "unload"
    BY <2>1, <2>2, <2>3, <2>5, RidersAlighted
  <2> QED
    BY <2>4, <2>5
<1> QED
  BY <1>3, <1>4, <1>5

\* All pods, one after the other.
LEMMA UnloadPodsGood ==
  ASSUME IsJourney(J), NEW n, NEW s, Good(s, J, n)
  PROVE  Good(UnloadPods(s), J, n) /\ Shrinks(s, UnloadPods(s))
<1> DEFINE N == FleetSize
           Set == {t \in State(J) : Good(t, J, n) /\ Shrinks(s, t)}
           S == [p \in 0 .. N |-> Set]
           G == [p \in 1 .. N |-> [t \in Set |-> UnloadPod(t, p)]]
           Equation(f) == f = [p \in 0 .. N |-> IF p = 0 THEN s ELSE UnloadPod(f[p - 1], p)]
           f == CHOOSE f : Equation(f)
<1>1. N \in Nat /\ Pods = 1 .. N
  BY FleetAssumption DEF Pods
<1>2. s \in Set
  BY Chained DEF Good
<1>3. \A p \in 1 .. N : \A t \in Set : UnloadPod(t, p) \in Set
  <2> SUFFICES ASSUME NEW p \in 1 .. N, NEW t \in Set PROVE UnloadPod(t, p) \in Set
    OBVIOUS
  <2>1. Good(UnloadPod(t, p), J, n) /\ Shrinks(t, UnloadPod(t, p))
    BY <1>1, UnloadStep
  <2> QED
    BY <2>1, Chained DEF Good
<1> HIDE DEF Set, N
<1>4. PICK h : Looped(h, N, G, s) /\ \A p \in 0 .. N : h[p] \in S[p]
  <2>1. s \in S[0]
    BY <1>1, <1>2
  <2>2. \A p \in 1 .. N : \A t \in S[p - 1] : G[p][t] \in S[p]
    BY <1>1, <1>3
  <2> HIDE DEF S, G
  <2> QED
    BY <1>1, <2>1, <2>2, Loop
<1>5. Equation(h)
  <2>1. \A p \in 0 .. N : p # 0 => p \in 1 .. N /\ p - 1 \in 0 .. N
    BY <1>1
  <2>2. \A p \in 0 .. N : p # 0 => G[p][h[p - 1]] = UnloadPod(h[p - 1], p)
    BY <1>4, <2>1
  <2> HIDE DEF G
  <2> QED
    BY <1>4, <2>2 DEF Looped
<1>6. Equation(f)
  <2> HIDE DEF Equation
  <2> QED
    BY <1>5
<1> HIDE DEF f
<1>7. \A p \in 0 .. N : p \in {p2 \in 0 .. N : f[p2] \in Set}
  <2> DEFINE D == {p \in 0 .. N : f[p] \in Set}
  <2>1. 0 \in D
    BY <1>1, <1>2, <1>6
  <2>2. \A p \in 0 .. N : p \in D /\ p < N => p + 1 \in D
    <3> SUFFICES ASSUME NEW p \in 0 .. N, p \in D, p < N PROVE p + 1 \in D
      OBVIOUS
    <3>1. p + 1 \in 1 .. N /\ p + 1 \in 0 .. N /\ (p + 1) - 1 = p /\ p + 1 # 0
      BY <1>1
    <3>2. f[p + 1] = UnloadPod(f[p], p + 1)
      BY <1>6, <3>1
    <3> QED
      BY <1>3, <3>1, <3>2
  <2> HIDE DEF D
  <2>3. \A p \in 0 .. N : p \in D
    BY <1>1, <2>1, <2>2, UpTo
  <2> QED
    BY <2>3 DEF D
<1>8. f[N] \in Set
  BY <1>1, <1>7
<1>9. UnloadPods(s) = f[N]
  BY DEF UnloadPods, InFleetOrder, f, N
<1> QED
  BY <1>8, <1>9 DEF Set

-----------------------------------------------------------------------------
(***************************************************************************)
(* The service holds.                                                      *)
(***************************************************************************)
\* A trip that lets go of pods, and nothing else that the links depend on.
Looser(t, u) ==
    /\ u.id = t.id /\ u.leg = t.leg
    /\ u.pod # NoPod => u.pod = t.pod /\ u.excluded = t.excluded
    /\ u.deferPod # NoPod => u.deferPod = t.deferPod

\* The trips let go of pods: what they still name keeps its promise.
Loosened(q, w, a, b, j) ==
    \A i \in DOMAIN q : /\ w[i] \in Trip(j) /\ Looser(q[i], w[i])
                        /\ w[i].pod # NoPod => Keeps(a[w[i].pod], b[w[i].pod])
                        /\ w[i].deferPod # NoPod => (InService(a[w[i].deferPod]) => InService(b[w[i].deferPod]))

\* A queue whose trips let go of pods stays good, with the same IDs.
LEMMA QueueLoosened ==
  ASSUME NEW j, IsJourney(j), NEW q, NEW a, QueueGood(q, a, j), NEW w, w = [i \in DOMAIN q |-> w[i]], NEW b, Loosened(q, w, a, b, j)
  PROVE  QueueGood(w, b, j) /\ Ids(w) = Ids(q)
<1> DEFINE T == Trip(j)
<1>1. (\A t \in T : t.id \in Nat) /\ q \in Seq(T) /\ Ordered(q)
  BY TripTyped DEF QueueGood
<1>2. \A i \in DOMAIN q : w[i] \in T /\ w[i].id = q[i].id
  BY DEF Loosened, Looser
<1>3. w \in Seq(T) /\ Ordered(w) /\ Ids(w) = Ids(q) /\ DOMAIN w = DOMAIN q
  <2> HIDE DEF T
  <2> QED
    BY <1>1, <1>2, TripsChanged
<1>4. \A u \in Range(w) : \E i \in DOMAIN q : u = w[i] /\ q[i] \in Range(q) /\ q[i] \in Trip(j)
  <2> HIDE DEF T
  <2>1. \A u \in Range(w) : \E i \in DOMAIN w : u = w[i]
    BY <1>3, IdsOfTrips
  <2>2. \A i \in DOMAIN q : q[i] \in Range(q) /\ q[i] \in T
    BY <1>1, IdsOfTrips
  <2> QED
    BY <1>3, <2>1, <2>2 DEF T
<1>5. ASSUME NEW u \in Range(w) PROVE TripOK(u, b, j)
  <2>1. PICK i \in DOMAIN q : u = w[i] /\ q[i] \in Range(q) /\ q[i] \in Trip(j)
    BY <1>4
  <2>2. TripOK(q[i], a, j) /\ LegOf(u, j) = LegOf(q[i], j) /\ u.id = q[i].id
    BY <2>1 DEF QueueGood, Loosened, Looser, LegOf
  <2>3. LegOf(u, j) \in Passenger
    BY <2>1, <2>2, TripTyped
  <2>4. u.pod # NoPod => u.pod # u.excluded /\ PodServes(b[u.pod], LegOf(u, j))
    BY <2>1, <2>2, <2>3 DEF TripOK, Loosened, Looser, Keeps
  <2>5. u.deferPod # NoPod => InService(b[u.deferPod])
    BY <2>1, <2>2 DEF TripOK, Loosened, Looser
  <2> QED
    BY <2>2, <2>4, <2>5 DEF TripOK
<1>6. Unshared(Range(w))
  <2> SUFFICES ASSUME NEW t \in Range(w), NEW u \in Range(w), t.pod # NoPod, t.pod = u.pod PROVE t = u
    BY DEF Unshared
  <2>1. PICK i \in DOMAIN q : t = w[i] /\ q[i] \in Range(q)
    BY <1>4
  <2>2. PICK k \in DOMAIN q : u = w[k] /\ q[k] \in Range(q)
    BY <1>4
  <2>3. q[i] = q[k]
    BY <2>1, <2>2 DEF QueueGood, Unshared, Loosened, Looser
  <2>4. i = k
    <3> HIDE DEF T
    <3> QED
      BY <2>3, <1>1, OrderedDiffer
  <2> QED
    BY <2>1, <2>2, <2>4
<1> QED
  BY <1>3, <1>5, <1>6 DEF QueueGood

\* No trip names a pod out of service.
LEMMA WithdrawnUnnamed ==
  ASSUME NEW j, NEW n, NEW s, Good(s, j, n), NEW p \in Pods, ~InService(s.pods[p])
  PROVE  \A t \in Range(s.queue) : t.pod # p /\ t.deferPod # p
BY FleetAssumption DEF Good, QueueGood, TripOK, PodServes, Pods, NoPod

\* The parties stay.
SameParties(s, t) == \A q \in Pods : t.pods[q].riders = s.pods[q].riders

\* A released trip lets go of the pod, and of nothing else.
LEMMA ReleasedTripIs ==
  ASSUME NEW j, NEW t \in Trip(j), NEW p \in Pods
  PROVE  ReleasedTrip(t, p) \in Trip(j) /\ Looser(t, ReleasedTrip(t, p)) /\ ReleasedTrip(t, p).pod # p /\ ReleasedTrip(t, p).deferPod # p
<1> DEFINE a == [t EXCEPT !.pod = NoPod, !.deferPod = NoPod, !.excluded = IF t.boarded THEN @ ELSE p]
           b == [t EXCEPT !.deferPod = NoPod]
<1>1. NoPod # p /\ NoPod \in OptPods /\ p \in OptPods
  BY FleetAssumption DEF NoPod, OptPods, Pods
<1>2. a \in Trip(j) /\ a.id = t.id /\ a.leg = t.leg /\ a.pod = NoPod /\ a.deferPod = NoPod
  BY <1>1 DEF Trip
<1>3. b \in Trip(j) /\ b.id = t.id /\ b.leg = t.leg /\ b.pod = t.pod /\ b.excluded = t.excluded /\ b.deferPod = NoPod
  BY <1>1 DEF Trip
<1> HIDE DEF a, b
<1>4. ReleasedTrip(t, p) = IF t.pod = p \/ ActiveHold(t, p) THEN a ELSE IF t.deferPod = p THEN b ELSE t
  BY DEF ReleasedTrip, a, b
<1> QED
  BY <1>1, <1>2, <1>3, <1>4 DEF Looser

\* Withdrawing a pod in service: the trips let it go.
LEMMA PickupsReleased ==
  ASSUME NEW j, IsJourney(j), NEW n, NEW s, Good(s, j, n), NEW p \in Pods, InService(s.pods[p]), NEW w, PodGood(w, j),
         w.riders = s.pods[p].riders, w.op = s.pods[p].op, Incident(w, s.faults[p], s.emergencies[p]),
         NEW r, r = [s EXCEPT !.pods[p] = w]
  PROVE  LET t == ReleasePickups(r, p)
         IN  /\ Good(t, j, n) /\ SameParties(s, t) /\ t.faults = s.faults /\ t.emergencies = s.emergencies
             /\ t.pods[p].withdrawn = w.withdrawn /\ t.pods[p].op = w.op
             /\ \A q \in Pods : q # p => t.pods[q] = s.pods[q]
<1> DEFINE t == ReleasePickups(r, p)
           q2 == [i \in DOMAIN s.queue |-> ReleasedTrip(s.queue[i], p)]
           x == IF Bound(r, p) THEN ReleasePickup(w) ELSE w
<1>1. s \in State(j) /\ w \in PodRecord(j) /\ QueueGood(s.queue, s.pods, j) /\ s.pods \in [Pods -> PodRecord(j)]
  BY StateTyped DEF Good, PodGood
<1>2. /\ r \in State(j) /\ r.pods = [s.pods EXCEPT ![p] = w] /\ r.queue = s.queue /\ r.completed = s.completed
      /\ r.interrupted = s.interrupted /\ r.faults = s.faults /\ r.emergencies = s.emergencies /\ r.pods[p] = w
  BY <1>1, PodSet
<1>3. t = [r EXCEPT !.queue = q2, !.pods[p] = x]
  <2> DEFINE f == [i \in DOMAIN r.queue |-> ReleasedTrip(r.queue[i], p)]
             y == IF Bound(r, p) THEN ReleasePickup(r.pods[p]) ELSE r.pods[p]
  <2>1. t = [r EXCEPT !.queue = f, !.pods[p] = y]
    BY <1>2 DEF ReleasePickups, State
  <2>2. f = q2
    BY <1>2
  <2>3. y = x
    BY <1>2
  <2> HIDE DEF f, y, q2, x, t
  <2> QED
    BY <2>1, <2>2, <2>3
<1>4. PodGood(x, j) /\ x.riders = w.riders /\ x.withdrawn = w.withdrawn /\ x.op = w.op /\ x \in PodRecord(j)
  <2>1. w.op.purpose # "recovery"
    BY InServiceServes DEF Good
  <2>2. PodGood(ReleasePickup(w), j) /\ ReleasePickup(w).riders = w.riders
    BY <2>1, PickupReleased
  <2>3. ReleasePickup(w).withdrawn = w.withdrawn /\ ReleasePickup(w).op = w.op
    BY <1>1 DEF ReleasePickup, PodRecord
  <2> QED
    BY <2>2, <2>3 DEF PodGood
<1> HIDE DEF x, t
<1>5. /\ t.pods = [s.pods EXCEPT ![p] = x] /\ t.queue = q2 /\ t.completed = s.completed
      /\ t.interrupted = s.interrupted /\ t.faults = s.faults /\ t.emergencies = s.emergencies
      /\ t = [pods |-> t.pods, queue |-> t.queue, completed |-> t.completed, interrupted |-> t.interrupted,
              faults |-> t.faults, emergencies |-> t.emergencies]
  <2>1. r = [pods |-> r.pods, queue |-> r.queue, completed |-> r.completed, interrupted |-> r.interrupted,
             faults |-> r.faults, emergencies |-> r.emergencies]
    BY <1>2, StateTyped
  <2> HIDE DEF q2
  <2> QED
    BY <1>1, <1>2, <1>3, <2>1
<1>6. t.pods[p] = x /\ \A q \in Pods : q # p => t.pods[q] = s.pods[q]
  BY <1>1, <1>5
<1>7. Loosened(s.queue, q2, s.pods, t.pods, j)
  <2>1. \A i \in DOMAIN s.queue : s.queue[i] \in Trip(j)
    BY <1>1, IdsOfTrips DEF QueueGood
  <2> SUFFICES ASSUME NEW i \in DOMAIN s.queue
               PROVE  /\ q2[i] \in Trip(j) /\ Looser(s.queue[i], q2[i])
                      /\ q2[i].pod # NoPod => Keeps(s.pods[q2[i].pod], t.pods[q2[i].pod])
                      /\ q2[i].deferPod # NoPod => (InService(s.pods[q2[i].deferPod]) => InService(t.pods[q2[i].deferPod]))
    BY DEF Loosened
  <2>2. q2[i] = ReleasedTrip(s.queue[i], p)
    OBVIOUS
  <2> HIDE DEF q2
  <2>3. q2[i] \in Trip(j) /\ Looser(s.queue[i], q2[i]) /\ q2[i].pod # p /\ q2[i].deferPod # p
    BY <2>1, <2>2, ReleasedTripIs
  <2>4. (q2[i].pod # NoPod => q2[i].pod \in Pods) /\ (q2[i].deferPod # NoPod => q2[i].deferPod \in Pods)
    BY <2>3, TripTyped
  <2> QED
    BY <1>6, <2>3, <2>4 DEF Keeps
<1>8. QueueGood(t.queue, t.pods, j) /\ Ids(t.queue) = Ids(s.queue)
  <2>1. q2 = [i \in DOMAIN s.queue |-> q2[i]]
    OBVIOUS
  <2> HIDE DEF q2
  <2>2. QueueGood(q2, t.pods, j) /\ Ids(q2) = Ids(s.queue)
    BY <1>1, <1>7, <2>1, QueueLoosened
  <2> QED
    BY <1>5, <2>2
<1> HIDE DEF q2
<1>9. t \in State(j)
  <2>1. t.pods \in [Pods -> PodRecord(j)] /\ t.queue \in Seq(Trip(j))
    BY <1>1, <1>4, <1>5, <1>8 DEF QueueGood
  <2> QED
    BY <1>1, <1>5, <2>1 DEF State
<1>10. SameParties(s, t)
  BY <1>4, <1>6 DEF SameParties
<1>11. Aboards(t.pods) = Aboards(s.pods)
  BY <1>10 DEF SameParties, Aboards
<1>12. Incident(x, s.faults[p], s.emergencies[p])
  BY <1>4, IncidentKept
<1>13. \A q \in Pods : PodGood(t.pods[q], j) /\ Incident(t.pods[q], t.faults[q], t.emergencies[q])
  BY <1>4, <1>5, <1>6, <1>12 DEF Good
<1>14. Good(t, j, n)
  BY <1>5, <1>8, <1>9, <1>11, <1>13 DEF Good
<1> QED
  BY <1>4, <1>5, <1>6, <1>10, <1>14 DEF t

\* Withdrawing a pod, when its hold has a record.
LEMMA ServiceWithdrawn ==
  ASSUME NEW j, IsJourney(j), NEW n, NEW s, Good(s, j, n), NEW p \in Pods, NEW hold \in {"fault", "emergency"},
         hold = "emergency" => s.emergencies[p] # 0
  PROVE  LET t == WithdrawService(s, p, hold)
         IN  /\ Good(t, j, n) /\ SameParties(s, t) /\ t.faults = s.faults /\ t.emergencies = s.emergencies
             /\ hold \in t.pods[p].withdrawn /\ t.pods[p].op = s.pods[p].op
<1> DEFINE v == s.pods[p]
           h == v.withdrawn \cup {hold}
           w == [v EXCEPT !.withdrawn = h]
           r == [s EXCEPT !.pods[p] = w]
           t == WithdrawService(s, p, hold)
<1>1. CASE hold \in v.withdrawn
  BY <1>1 DEF WithdrawService, SameParties
<1>2. CASE hold \notin v.withdrawn
  <2>1. s \in State(j) /\ PodGood(v, j) /\ v \in PodRecord(j) /\ Incident(v, s.faults[p], s.emergencies[p])
    BY DEF Good, PodGood
  <2>2. h \in SUBSET {"fault", "emergency"} /\ (v.op.purpose # "service" => v.op.owner \in h)
    BY <2>1 DEF PodRecord, PodGood, PurposeOK, Purpose
  <2>3. PodGood(w, j) /\ w \in PodRecord(j)
    <3> HIDE DEF h
    <3>1. PodGood(w, j)
      BY <2>1, <2>2, HoldsChanged
    <3> QED
      BY <3>1 DEF PodGood
  <2>4. w.withdrawn = h /\ w.riders = v.riders /\ w.op = v.op
    BY <2>1 DEF PodRecord
  <2>5. r = [s EXCEPT !.pods[p].withdrawn = @ \cup {hold}]
    BY <2>1 DEF State
  <2> HIDE DEF w
  <2>6. Incident(w, s.faults[p], s.emergencies[p])
    BY <2>1, <2>4 DEF Incident
  <2>7. CASE InService(v)
    <3>1. t = ReleasePickups(r, p)
      BY <1>2, <2>5, <2>7 DEF WithdrawService
    <3> HIDE DEF t, r
    <3>2. /\ Good(ReleasePickups(r, p), j, n) /\ SameParties(s, ReleasePickups(r, p))
          /\ ReleasePickups(r, p).faults = s.faults /\ ReleasePickups(r, p).emergencies = s.emergencies
          /\ ReleasePickups(r, p).pods[p].withdrawn = w.withdrawn /\ ReleasePickups(r, p).pods[p].op = w.op
      BY <2>3, <2>4, <2>6, <2>7, PickupsReleased DEF r
    <3> QED
      BY <2>4, <3>1, <3>2 DEF t
  <2>8. CASE ~InService(v)
    <3>1. t = r
      BY <1>2, <2>5, <2>8 DEF WithdrawService
    <3>2. /\ r.faults = s.faults /\ r.emergencies = s.emergencies /\ r.pods[p] = w /\ \A q \in Pods : q # p => r.pods[q] = s.pods[q]
      <4>1. /\ r.pods = [s.pods EXCEPT ![p] = w] /\ r.queue = s.queue /\ r.faults = s.faults /\ r.emergencies = s.emergencies
        BY <2>1 DEF State
      <4>2. s.pods \in [Pods -> PodRecord(j)]
        BY <2>1, StateTyped
      <4> HIDE DEF r
      <4> QED
        BY <4>1, <4>2
    <3>3. \A x \in Range(s.queue) : x.pod # p
      BY <2>8, WithdrawnUnnamed
    <3>4. Good(r, j, n)
      BY <2>3, <2>4, <2>6, <2>8, <3>3, PodChanged
    <3>5. SameParties(s, r)
      BY <2>4, <3>2 DEF SameParties
    <3> HIDE DEF t, r, v
    <3> QED
      BY <2>4, <3>1, <3>2, <3>4, <3>5 DEF t, v
  <2> QED
    BY <2>7, <2>8
<1> QED
  BY <1>1, <1>2

\* Restoring a pod, when its hold has no fault record: the pod has one hold less.
Unheld(s, p, hold) == [s EXCEPT !.pods[p].withdrawn = @ \ {hold}]

\* A pod that loses a hold without a record.
LEMMA HoldDropped ==
  ASSUME NEW j, IsJourney(j), NEW n, NEW s, Good(s, j, n), NEW p \in Pods, NEW hold \in {"fault", "emergency"},
         hold = "fault" => s.faults[p] = NoFault, hold \in s.pods[p].withdrawn, s.pods[p].op.owner # hold,
         NEW t, t = Unheld(s, p, hold)
  PROVE  /\ Good(t, j, n) /\ SameParties(s, t) /\ t.faults = s.faults /\ t.emergencies = s.emergencies /\ t.queue = s.queue
         /\ t.pods[p].withdrawn = s.pods[p].withdrawn \ {hold} /\ t.pods[p].op = s.pods[p].op
<1> DEFINE v == s.pods[p]
           h == v.withdrawn \ {hold}
           w == [v EXCEPT !.withdrawn = h]
           r == [s EXCEPT !.pods[p] = w]
<1>1. s \in State(j) /\ PodGood(v, j) /\ v \in PodRecord(j) /\ Incident(v, s.faults[p], s.emergencies[p])
  BY DEF Good, PodGood
<1>2. h \in SUBSET {"fault", "emergency"} /\ (v.op.purpose # "service" => v.op.owner \in h)
  BY <1>1 DEF PodRecord, PodGood, PurposeOK, Purpose
<1>3. PodGood(w, j) /\ w \in PodRecord(j)
  <2> HIDE DEF h
  <2>1. PodGood(w, j)
    BY <1>1, <1>2, HoldsChanged
  <2> QED
    BY <2>1 DEF PodGood
<1>4. w.withdrawn = h /\ w.riders = v.riders /\ w.op = v.op
  BY <1>1 DEF PodRecord
<1>5. r = [s EXCEPT !.pods[p].withdrawn = @ \ {hold}]
  BY <1>1 DEF State
<1> HIDE DEF w
<1>6. Incident(w, s.faults[p], s.emergencies[p])
  BY <1>1, <1>4 DEF Incident
<1>7. ~InService(v)
  BY DEF InService
<1>8. \A x \in Range(s.queue) : x.pod # p
  BY <1>7, WithdrawnUnnamed
<1>9. Good(r, j, n)
  BY <1>3, <1>4, <1>6, <1>7, <1>8, PodChanged
<1>10. /\ r.faults = s.faults /\ r.emergencies = s.emergencies /\ r.queue = s.queue /\ r.pods[p] = w
       /\ \A q \in Pods : q # p => r.pods[q] = s.pods[q]
  <2>1. /\ r.pods = [s.pods EXCEPT ![p] = w] /\ r.queue = s.queue /\ r.faults = s.faults /\ r.emergencies = s.emergencies
    BY <1>1 DEF State
  <2>2. s.pods \in [Pods -> PodRecord(j)]
    BY <1>1, StateTyped
  <2> HIDE DEF r
  <2> QED
    BY <2>1, <2>2
<1>11. SameParties(s, r)
  BY <1>4, <1>10 DEF SameParties
<1> HIDE DEF r
<1> QED
  BY <1>4, <1>5, <1>9, <1>10, <1>11 DEF Unheld

\* RestoreService keeps the invariant and the parties.
LEMMA ServiceRestored ==
  ASSUME NEW j, IsJourney(j), NEW n, NEW s, Good(s, j, n), NEW p \in Pods, NEW hold \in {"fault", "emergency"},
         hold = "fault" => s.faults[p] = NoFault
  PROVE  LET t == RestoreService(s, p, hold) IN Good(t, j, n) /\ SameParties(s, t)
<1>1. CASE hold \notin s.pods[p].withdrawn \/ s.pods[p].op.owner = hold
  BY <1>1 DEF RestoreService, SameParties
<1>2. CASE ~(hold \notin s.pods[p].withdrawn \/ s.pods[p].op.owner = hold)
  <2> DEFINE t == RestoreService(s, p, hold)
  <2>1. t = Unheld(s, p, hold)
    BY <1>2 DEF RestoreService, Unheld
  <2> HIDE DEF t
  <2>2. Good(t, j, n) /\ SameParties(s, t)
    BY <1>2, <2>1, HoldDropped
  <2> QED
    BY <2>2 DEF t
<1> QED
  BY <1>1, <1>2

\* The records change, and the pods and the orders stay.
LEMMA RecordsSet ==
  ASSUME NEW j, NEW n, NEW s, Good(s, j, n), NEW t, t \in State(j), t.pods = s.pods, t.queue = s.queue, t.completed = s.completed,
         t.interrupted = s.interrupted, \A p \in Pods : Incident(s.pods[p], t.faults[p], t.emergencies[p])
  PROVE  Good(t, j, n) /\ SameParties(s, t)
BY DEF Good, SameParties

\* A fault record changes: one that starts or goes on has its hold.
LEMMA FaultSet ==
  ASSUME NEW j, IsJourney(j), NEW n, NEW s, Good(s, j, n), NEW p \in Pods, NEW f \in FaultRecord,
         f # NoFault => "fault" \in s.pods[p].withdrawn
  PROVE  LET t == [s EXCEPT !.faults[p] = f]
         IN  /\ Good(t, j, n) /\ SameParties(s, t) /\ t.faults[p] = f /\ t.pods = s.pods /\ t.emergencies = s.emergencies
<1> DEFINE t == [s EXCEPT !.faults[p] = f]
<1>1. s \in State(j)
  BY DEF Good
<1>2. /\ t \in State(j) /\ t.pods = s.pods /\ t.queue = s.queue /\ t.completed = s.completed /\ t.interrupted = s.interrupted
      /\ t.emergencies = s.emergencies /\ t.faults[p] = f /\ \A q \in Pods : q # p => t.faults[q] = s.faults[q]
  <2> HIDE DEF FaultRecord
  <2> QED
    BY <1>1 DEF State
<1> HIDE DEF t
<1>3. \A q \in Pods : Incident(s.pods[q], t.faults[q], t.emergencies[q])
  BY <1>2 DEF Good, Incident
<1>4. Good(t, j, n) /\ SameParties(s, t)
  BY <1>2, <1>3, RecordsSet
<1> QED
  BY <1>2, <1>4 DEF t

\* A pod brakes, or no longer does, and nothing else changes.
LEMMA BrakeSet ==
  ASSUME NEW j, IsJourney(j), NEW n, NEW s, Good(s, j, n), NEW p \in Pods, NEW b \in BOOLEAN
  PROVE  LET t == [s EXCEPT !.pods[p].braking = b]
         IN  /\ Good(t, j, n) /\ SameParties(s, t) /\ t.faults = s.faults /\ t.emergencies = s.emergencies
             /\ t.pods[p].withdrawn = s.pods[p].withdrawn
<1> DEFINE v == s.pods[p]
           w == [v EXCEPT !.braking = b]
           r == [s EXCEPT !.pods[p] = w]
<1>1. s \in State(j) /\ PodGood(v, j) /\ Incident(v, s.faults[p], s.emergencies[p])
  BY DEF Good
<1>2. PodGood(w, j) /\ Kin(v, w) /\ Keeps(v, w)
  BY <1>1, BrakesReleased
<1>3. r = [s EXCEPT !.pods[p].braking = b]
  BY <1>1 DEF State
<1> HIDE DEF w
<1>4. Incident(w, s.faults[p], s.emergencies[p]) /\ IdsOf(w.riders) = IdsOf(v.riders) /\ (InService(v) => InService(w))
  BY <1>1, <1>2, IncidentKept DEF Kin, InService
<1>5. Good(r, j, n)
  BY <1>2, <1>4, PodChanged
<1>6. /\ r.faults = s.faults /\ r.emergencies = s.emergencies /\ r.pods[p] = w /\ \A q \in Pods : q # p => r.pods[q] = s.pods[q]
  <2>1. /\ r.pods = [s.pods EXCEPT ![p] = w] /\ r.queue = s.queue /\ r.faults = s.faults /\ r.emergencies = s.emergencies
    BY <1>1 DEF State
  <2>2. s.pods \in [Pods -> PodRecord(j)]
    BY <1>1, StateTyped
  <2> HIDE DEF r
  <2> QED
    BY <2>1, <2>2
<1>7. SameParties(s, r)
  BY <1>2, <1>6 DEF SameParties, Kin
<1> HIDE DEF r
<1> QED
  BY <1>2, <1>3, <1>5, <1>6, <1>7 DEF Kin

-----------------------------------------------------------------------------
(***************************************************************************)
(* The faults of a tick.                                                   *)
(***************************************************************************)
\* A fold keeps to the sets of its stages.
LEMMA FoldEnds ==
  ASSUME NEW N \in Nat, NEW S, NEW f, f[0] \in S[0], \A p \in 1 .. N : f[p - 1] \in S[p - 1] => f[p] \in S[p]
  PROVE  f[N] \in S[N]
<1> DEFINE D == {p \in 0 .. N : f[p] \in S[p]}
<1>1. 0 \in D
  OBVIOUS
<1>2. \A p \in 0 .. N : p \in D /\ p < N => p + 1 \in D
  <2> SUFFICES ASSUME NEW p \in 0 .. N, p \in D, p < N PROVE p + 1 \in D
    OBVIOUS
  <2>1. p + 1 \in 1 .. N /\ p + 1 \in 0 .. N /\ (p + 1) - 1 = p
    OBVIOUS
  <2> QED
    BY <2>1
<1> HIDE DEF D
<1>3. \A p \in 0 .. N : p \in D
  BY <1>1, <1>2, UpTo
<1> QED
  BY <1>3 DEF D

\* The end of a fault.
LEMMA FaultRemoved ==
  ASSUME NEW j, IsJourney(j), NEW n, NEW s, Good(s, j, n), NEW p \in Pods
  PROVE  Good(RemoveFault(s, p), j, n) /\ SameParties(s, RemoveFault(s, p))
<1> DEFINE r == [s EXCEPT !.faults[p] = NoFault]
           x == [r EXCEPT !.pods[p].braking = FALSE]
           y == [s EXCEPT !.faults[p] = NoFault, !.pods[p].braking = FALSE]
<1>1. NoFault \in FaultRecord /\ s \in State(j)
  BY DEF NoFault, FaultRecord, Good
<1>2. Good(r, j, n) /\ SameParties(s, r) /\ r.faults[p] = NoFault
  <2> DEFINE f == NoFault
  <2>1. f \in FaultRecord /\ (f # NoFault => "fault" \in s.pods[p].withdrawn)
    BY <1>1
  <2> HIDE DEF f
  <2>2. LET t == [s EXCEPT !.faults[p] = f] IN Good(t, j, n) /\ SameParties(s, t) /\ t.faults[p] = f
    BY <2>1, FaultSet
  <2> QED
    BY <2>2 DEF f
<1>3. x = y
  BY <1>1 DEF State
<1> HIDE DEF r
<1>4. Good(x, j, n) /\ SameParties(r, x) /\ x.faults = r.faults
  <2> DEFINE b == FALSE
  <2>1. b \in BOOLEAN
    OBVIOUS
  <2> HIDE DEF b
  <2>2. LET t == [r EXCEPT !.pods[p].braking = b] IN Good(t, j, n) /\ SameParties(r, t) /\ t.faults = r.faults
    BY <1>2, <2>1, BrakeSet
  <2> QED
    BY <2>2 DEF b
<1> HIDE DEF x
<1>5. Good(RestoreService(x, p, "fault"), j, n) /\ SameParties(x, RestoreService(x, p, "fault"))
  <2> DEFINE hold == "fault"
  <2>1. hold \in {"fault", "emergency"} /\ x.faults[p] = NoFault
    BY <1>2, <1>4
  <2> HIDE DEF hold
  <2>2. LET t == RestoreService(x, p, hold) IN Good(t, j, n) /\ SameParties(x, t)
    BY <1>4, <2>1, ServiceRestored
  <2> QED
    BY <2>2 DEF hold
<1>6. RemoveFault(s, p) = RestoreService(x, p, "fault")
  BY <1>3 DEF RemoveFault
<1> QED
  BY <1>2, <1>4, <1>5, <1>6 DEF SameParties

\* The same parties are no larger.
LEMMA PartiesShrink == \A s, t : SameParties(s, t) => Shrinks(s, t)
BY DEF SameParties, Shrinks

\* The step of one pod in the first pass of the fault stage.
LEMMA FaultEnds ==
  ASSUME NEW j, IsJourney(j), NEW n, NEW s, Good(s, j, n), NEW p \in Pods
  PROVE  Good(EndFault(s, p), j, n) /\ Shrinks(s, EndFault(s, p))
<1> DEFINE f == Aged(s.faults[p])
<1>1. CASE ~Faulted(s, p)
  BY <1>1, Chained DEF EndFault
<1>2. CASE Faulted(s, p) /\ f.left = 0
  BY <1>2, FaultRemoved, PartiesShrink DEF EndFault
<1>3. CASE Faulted(s, p) /\ f.left # 0
  <2>1. s \in State(j) /\ Incident(s.pods[p], s.faults[p], s.emergencies[p])
    BY DEF Good
  <2>2. s.faults[p] \in FaultRecord
    BY <2>1, StateTyped
  <2>3. f \in FaultRecord
    <3> DEFINE record == s.faults[p]
    <3>1. FaultTicks \in Nat /\ EvacuateAfter \in Nat
      BY FleetAssumption
    <3>2. record \in FaultRecord /\ f = Aged(record)
      BY <2>2
    <3>3. record.left \in Nat /\ (record.left \in 1 .. FaultTicks => record.left - 1 \in Nat) /\ record.age + 1 \in Nat
      BY <3>1, <3>2 DEF FaultRecord
    <3> HIDE DEF record, f
    <3> QED
      BY <3>1, <3>2, <3>3 DEF Aged, FaultRecord
  <2>4. "fault" \in s.pods[p].withdrawn
    BY <1>3, <2>1 DEF Incident, Faulted
  <2>5. EndFault(s, p) = [s EXCEPT !.faults[p] = f]
    BY <1>3, <2>1 DEF EndFault, State
  <2> HIDE DEF f
  <2>6. LET t == [s EXCEPT !.faults[p] = f] IN Good(t, j, n) /\ SameParties(s, t)
    BY <2>3, <2>4, FaultSet
  <2> QED
    BY <2>5, <2>6, PartiesShrink
<1> QED
  BY <1>1, <1>2, <1>3

\* The step of one pod in the last pass of the fault stage.
LEMMA HoldReleased ==
  ASSUME NEW j, IsJourney(j), NEW n, NEW s, Good(s, j, n), NEW p \in Pods
  PROVE  Good(ReleaseFaultHold(s, p), j, n) /\ Shrinks(s, ReleaseFaultHold(s, p))
<1>1. CASE Faulted(s, p)
  BY <1>1, Chained DEF ReleaseFaultHold
<1>2. CASE ~Faulted(s, p)
  <2> DEFINE hold == "fault"
  <2>1. hold \in {"fault", "emergency"} /\ s.faults[p] = NoFault
    BY <1>2 DEF Faulted
  <2>2. ReleaseFaultHold(s, p) = RestoreService(s, p, hold)
    BY <1>2 DEF ReleaseFaultHold
  <2> HIDE DEF hold
  <2>3. LET t == RestoreService(s, p, hold) IN Good(t, j, n) /\ SameParties(s, t)
    BY <2>1, ServiceRestored
  <2> QED
    BY <2>2, <2>3, PartiesShrink
<1> QED
  BY <1>1, <1>2

\* The evacuation of a pod interrupts its party.
LEMMA PartyEvacuated ==
  ASSUME NEW j, IsJourney(j), NEW n, NEW s, Good(s, j, n), NEW p \in Pods
  PROVE  Good(EvacuatePod(s, p), j, n) /\ Shrinks(s, EvacuatePod(s, p))
<1> DEFINE v == s.pods[p]
           Z == IdsAt(v, ActiveRiders(v))
           empty == WithoutRiders(v, ActiveRiders(v))
           w == IF v.activity = "Traveling" THEN EvacuatedOnLane(empty) ELSE SettleIdle(empty)
           t == EvacuatePod(s, p)
<1>1. CASE ~EvacuationDue(s, p)
  BY <1>1, Chained DEF EvacuatePod
<1>2. CASE EvacuationDue(s, p)
  <2>1. s \in State(j) /\ PodGood(v, j) /\ Incident(v, s.faults[p], s.emergencies[p]) /\ QueueGood(s.queue, s.pods, j)
    BY DEF Good
  <2>2. "fault" \in v.withdrawn /\ Active(v.riders) # {} /\ Z = IdsOf(v.riders)
    BY <1>2, <2>1, ActiveIs DEF EvacuationDue, Incident, Faulted
  <2>3. PodGood(w, j) /\ IdsOf(w.riders) = {} /\ w.withdrawn = v.withdrawn /\ w.op.purpose # "unload"
    BY <2>1, <2>2, PodEvacuated
  <2>4. t = [s EXCEPT !.interrupted = @ \cup Z, !.pods[p] = w]
    BY <1>2 DEF EvacuatePod, Evacuate
  <2> HIDE DEF w, Z, t
  <2>5. /\ t.pods = [s.pods EXCEPT ![p] = w] /\ t.queue = s.queue /\ t.completed = s.completed
        /\ t.interrupted = s.interrupted \cup Z /\ t.faults = s.faults /\ t.emergencies = s.emergencies
        /\ t = [pods |-> t.pods, queue |-> t.queue, completed |-> t.completed, interrupted |-> t.interrupted,
                faults |-> t.faults, emergencies |-> t.emergencies]
    <3>1. s = [pods |-> s.pods, queue |-> s.queue, completed |-> s.completed, interrupted |-> s.interrupted,
               faults |-> s.faults, emergencies |-> s.emergencies] /\ s.pods \in [Pods -> PodRecord(j)]
      BY <2>1, StateTyped
    <3> HIDE DEF v
    <3> QED
      BY <2>4, <3>1
  <2>6. s.pods \in [Pods -> PodRecord(j)] /\ s.interrupted \in SUBSET Nat
    BY <2>1, StateTyped
  <2>7. Z \in SUBSET Nat
    <3> DEFINE R == Rider(j)
               riders == v.riders
    <3>1. riders \in Seq(R)
      BY <2>1 DEF PodGood, PodRecord
    <3>2. \A k \in DOMAIN riders : riders[k] \in R
      <4> HIDE DEF R, riders
      <4> QED
        BY <3>1
    <3> QED
      BY <2>2, <3>2, JourneyOf DEF Rider, IdsOf, Active
  <2>8. t \in State(j)
    <3>1. t.pods \in [Pods -> PodRecord(j)] /\ t.interrupted \in SUBSET Nat
      BY <2>3, <2>5, <2>6, <2>7 DEF PodGood
    <3> QED
      BY <2>1, <2>5, <3>1 DEF State
  <2>9. PartyEnds(s, t, p, {}, {}, Z)
    BY <2>2, <2>3, <2>5, <2>6 DEF PartyEnds
  <2>10. Incident(w, s.faults[p], s.emergencies[p]) /\ Keeps(v, w)
    BY <2>1, <2>2, <2>3, IncidentKept DEF Keeps, PodServes, InService
  <2>11. Good(t, j, n) /\ Shrinks(s, t)
    BY <2>1, <2>3, <2>5, <2>8, <2>9, <2>10, PartyOff
  <2> QED
    BY <2>11 DEF t
<1> QED
  BY <1>1, <1>2

\* The passes of the fault stage over all pods.
LEMMA FaultsEnd ==
  ASSUME NEW j, IsJourney(j), NEW n, NEW s, Good(s, j, n)
  PROVE  Good(InFleetOrder(EndFault, s), j, n) /\ Shrinks(s, InFleetOrder(EndFault, s))
<1> DEFINE N == FleetSize
           S == [p \in 0 .. N |-> {t \in State(j) : Good(t, j, n) /\ Shrinks(s, t)}]
           G == [p \in 1 .. N |-> [t \in S[p - 1] |-> EndFault(t, p)]]
           Equation(f) == f = [p \in 0 .. N |-> IF p = 0 THEN s ELSE EndFault(f[p - 1], p)]
           f == CHOOSE f : Equation(f)
<1>1. N \in Nat /\ Pods = 1 .. N
  BY FleetAssumption DEF Pods
<1>2. s \in S[0]
  BY <1>1, Chained DEF Good
<1>3. \A p \in 1 .. N : \A t \in S[p - 1] : EndFault(t, p) \in S[p]
  <2> SUFFICES ASSUME NEW p \in 1 .. N, NEW t \in S[p - 1] PROVE EndFault(t, p) \in S[p]
    OBVIOUS
  <2>1. p - 1 \in 0 .. N /\ p \in 0 .. N /\ p \in Pods
    BY <1>1
  <2>2. Good(t, j, n) /\ Shrinks(s, t)
    BY <2>1
  <2> DEFINE x == EndFault(t, p)
  <2>3. Good(x, j, n) /\ Shrinks(t, x)
    BY <2>1, <2>2, FaultEnds
  <2> HIDE DEF x
  <2>4. x \in State(j) /\ Shrinks(s, x)
    BY <2>2, <2>3, Chained DEF Good
  <2>5. x \in S[p]
    BY <2>1, <2>3, <2>4
  <2> QED
    BY <2>5 DEF x
<1> HIDE DEF S, N
<1>4. PICK h : Looped(h, N, G, s) /\ \A p \in 0 .. N : h[p] \in S[p]
  <2>1. \A p \in 1 .. N : \A t \in S[p - 1] : G[p][t] \in S[p]
    BY <1>1, <1>3
  <2> HIDE DEF G
  <2> QED
    BY <1>1, <1>2, <2>1, Loop
<1>5. Equation(h)
  <2>1. \A p \in 0 .. N : p # 0 => p \in 1 .. N /\ p - 1 \in 0 .. N
    BY <1>1
  <2>2. \A p \in 0 .. N : p # 0 => G[p][h[p - 1]] = EndFault(h[p - 1], p)
    BY <1>4, <2>1
  <2> HIDE DEF G
  <2> QED
    BY <1>4, <2>2 DEF Looped
<1>6. Equation(f)
  <2> HIDE DEF Equation
  <2> QED
    BY <1>5
<1> HIDE DEF f
<1>7. f[N] \in S[N]
  <2>1. \A p \in 1 .. N : f[p] = EndFault(f[p - 1], p)
    BY <1>1, <1>6
  <2>2. f[0] = s
    BY <1>1, <1>6
  <2>3. \A p \in 1 .. N : f[p - 1] \in S[p - 1] => f[p] \in S[p]
    BY <1>3, <2>1
  <2>4. f[0] \in S[0]
    BY <1>2, <2>2
  <2> HIDE DEF Equation, G
  <2> QED
    BY <1>1, <2>3, <2>4, FoldEnds
<1>8. InFleetOrder(EndFault, s) = f[N]
  BY DEF InFleetOrder, f, N
<1> QED
  BY <1>1, <1>7, <1>8 DEF S

\* The evacuations of all pods.
LEMMA PodsEvacuated ==
  ASSUME NEW j, IsJourney(j), NEW n, NEW s, Good(s, j, n)
  PROVE  Good(InFleetOrder(EvacuatePod, s), j, n) /\ Shrinks(s, InFleetOrder(EvacuatePod, s))
<1> DEFINE N == FleetSize
           S == [p \in 0 .. N |-> {t \in State(j) : Good(t, j, n) /\ Shrinks(s, t)}]
           G == [p \in 1 .. N |-> [t \in S[p - 1] |-> EvacuatePod(t, p)]]
           Equation(f) == f = [p \in 0 .. N |-> IF p = 0 THEN s ELSE EvacuatePod(f[p - 1], p)]
           f == CHOOSE f : Equation(f)
<1>1. N \in Nat /\ Pods = 1 .. N
  BY FleetAssumption DEF Pods
<1>2. s \in S[0]
  BY <1>1, Chained DEF Good
<1>3. \A p \in 1 .. N : \A t \in S[p - 1] : EvacuatePod(t, p) \in S[p]
  <2> SUFFICES ASSUME NEW p \in 1 .. N, NEW t \in S[p - 1] PROVE EvacuatePod(t, p) \in S[p]
    OBVIOUS
  <2>1. p - 1 \in 0 .. N /\ p \in 0 .. N /\ p \in Pods
    BY <1>1
  <2>2. Good(t, j, n) /\ Shrinks(s, t)
    BY <2>1
  <2> DEFINE x == EvacuatePod(t, p)
  <2>3. Good(x, j, n) /\ Shrinks(t, x)
    BY <2>1, <2>2, PartyEvacuated
  <2> HIDE DEF x
  <2>4. x \in State(j) /\ Shrinks(s, x)
    BY <2>2, <2>3, Chained DEF Good
  <2>5. x \in S[p]
    BY <2>1, <2>3, <2>4
  <2> QED
    BY <2>5 DEF x
<1> HIDE DEF S, N
<1>4. PICK h : Looped(h, N, G, s) /\ \A p \in 0 .. N : h[p] \in S[p]
  <2>1. \A p \in 1 .. N : \A t \in S[p - 1] : G[p][t] \in S[p]
    BY <1>1, <1>3
  <2> HIDE DEF G
  <2> QED
    BY <1>1, <1>2, <2>1, Loop
<1>5. Equation(h)
  <2>1. \A p \in 0 .. N : p # 0 => p \in 1 .. N /\ p - 1 \in 0 .. N
    BY <1>1
  <2>2. \A p \in 0 .. N : p # 0 => G[p][h[p - 1]] = EvacuatePod(h[p - 1], p)
    BY <1>4, <2>1
  <2> HIDE DEF G
  <2> QED
    BY <1>4, <2>2 DEF Looped
<1>6. Equation(f)
  <2> HIDE DEF Equation
  <2> QED
    BY <1>5
<1> HIDE DEF f
<1>7. f[N] \in S[N]
  <2>1. \A p \in 1 .. N : f[p] = EvacuatePod(f[p - 1], p)
    BY <1>1, <1>6
  <2>2. f[0] = s
    BY <1>1, <1>6
  <2>3. \A p \in 1 .. N : f[p - 1] \in S[p - 1] => f[p] \in S[p]
    BY <1>3, <2>1
  <2>4. f[0] \in S[0]
    BY <1>2, <2>2
  <2> HIDE DEF Equation, G
  <2> QED
    BY <1>1, <2>3, <2>4, FoldEnds
<1>8. InFleetOrder(EvacuatePod, s) = f[N]
  BY DEF InFleetOrder, f, N
<1> QED
  BY <1>1, <1>7, <1>8 DEF S

\* The releases of the holds of all pods.
LEMMA HoldsReleased ==
  ASSUME NEW j, IsJourney(j), NEW n, NEW s, Good(s, j, n)
  PROVE  Good(InFleetOrder(ReleaseFaultHold, s), j, n) /\ Shrinks(s, InFleetOrder(ReleaseFaultHold, s))
<1> DEFINE N == FleetSize
           S == [p \in 0 .. N |-> {t \in State(j) : Good(t, j, n) /\ Shrinks(s, t)}]
           G == [p \in 1 .. N |-> [t \in S[p - 1] |-> ReleaseFaultHold(t, p)]]
           Equation(f) == f = [p \in 0 .. N |-> IF p = 0 THEN s ELSE ReleaseFaultHold(f[p - 1], p)]
           f == CHOOSE f : Equation(f)
<1>1. N \in Nat /\ Pods = 1 .. N
  BY FleetAssumption DEF Pods
<1>2. s \in S[0]
  BY <1>1, Chained DEF Good
<1>3. \A p \in 1 .. N : \A t \in S[p - 1] : ReleaseFaultHold(t, p) \in S[p]
  <2> SUFFICES ASSUME NEW p \in 1 .. N, NEW t \in S[p - 1] PROVE ReleaseFaultHold(t, p) \in S[p]
    OBVIOUS
  <2>1. p - 1 \in 0 .. N /\ p \in 0 .. N /\ p \in Pods
    BY <1>1
  <2>2. Good(t, j, n) /\ Shrinks(s, t)
    BY <2>1
  <2> DEFINE x == ReleaseFaultHold(t, p)
  <2>3. Good(x, j, n) /\ Shrinks(t, x)
    BY <2>1, <2>2, HoldReleased
  <2> HIDE DEF x
  <2>4. x \in State(j) /\ Shrinks(s, x)
    BY <2>2, <2>3, Chained DEF Good
  <2>5. x \in S[p]
    BY <2>1, <2>3, <2>4
  <2> QED
    BY <2>5 DEF x
<1> HIDE DEF S, N
<1>4. PICK h : Looped(h, N, G, s) /\ \A p \in 0 .. N : h[p] \in S[p]
  <2>1. \A p \in 1 .. N : \A t \in S[p - 1] : G[p][t] \in S[p]
    BY <1>1, <1>3
  <2> HIDE DEF G
  <2> QED
    BY <1>1, <1>2, <2>1, Loop
<1>5. Equation(h)
  <2>1. \A p \in 0 .. N : p # 0 => p \in 1 .. N /\ p - 1 \in 0 .. N
    BY <1>1
  <2>2. \A p \in 0 .. N : p # 0 => G[p][h[p - 1]] = ReleaseFaultHold(h[p - 1], p)
    BY <1>4, <2>1
  <2> HIDE DEF G
  <2> QED
    BY <1>4, <2>2 DEF Looped
<1>6. Equation(f)
  <2> HIDE DEF Equation
  <2> QED
    BY <1>5
<1> HIDE DEF f
<1>7. f[N] \in S[N]
  <2>1. \A p \in 1 .. N : f[p] = ReleaseFaultHold(f[p - 1], p)
    BY <1>1, <1>6
  <2>2. f[0] = s
    BY <1>1, <1>6
  <2>3. \A p \in 1 .. N : f[p - 1] \in S[p - 1] => f[p] \in S[p]
    BY <1>3, <2>1
  <2>4. f[0] \in S[0]
    BY <1>2, <2>2
  <2> HIDE DEF Equation, G
  <2> QED
    BY <1>1, <2>3, <2>4, FoldEnds
<1>8. InFleetOrder(ReleaseFaultHold, s) = f[N]
  BY DEF InFleetOrder, f, N
<1> QED
  BY <1>1, <1>7, <1>8 DEF S

\* The fault stage of a tick.
LEMMA FaultStageGood ==
  ASSUME NEW j, IsJourney(j), NEW n, NEW s, Good(s, j, n)
  PROVE  Good(FaultStage(s), j, n) /\ Shrinks(s, FaultStage(s))
<1> DEFINE a == InFleetOrder(EndFault, s)
           b == InFleetOrder(EvacuatePod, a)
           c == InFleetOrder(ReleaseFaultHold, b)
<1>1. Good(a, j, n) /\ Shrinks(s, a)
  BY FaultsEnd
<1> HIDE DEF a
<1>2. Good(b, j, n) /\ Shrinks(a, b)
  BY <1>1, PodsEvacuated
<1> HIDE DEF b
<1>3. Good(c, j, n) /\ Shrinks(b, c)
  BY <1>2, HoldsReleased
<1>4. FaultStage(s) = c
  BY DEF FaultStage, a, b
<1> HIDE DEF c
<1> QED
  BY <1>1, <1>2, <1>3, <1>4, Chained

-----------------------------------------------------------------------------
(***************************************************************************)
(* The emergencies of a tick.                                              *)
(***************************************************************************)
\* The pod withdraws, and unloads or diverts when its party is aboard.
LEMMA EmergencyAdvanced ==
  ASSUME NEW j, IsJourney(j), NEW n, NEW s, Good(s, j, n), NEW p \in Pods, s.emergencies[p] # 0, NEW choice \in {NoStation} \cup Passenger
  PROVE  LET t == AdvanceEmergency(s, p, choice) IN Good(t, j, n) /\ SameParties(s, t) /\ t.emergencies = s.emergencies
<1> DEFINE held == WithdrawService(s, p, "emergency")
           v == held.pods[p]
           marks == PartyIndex(s, p)
           w == IF v.activity \in {"Boarding", "Continuing", "Unloading"} THEN StartOperationalUnload(v, marks) ELSE BindEmergency(v, marks, choice)
           x == [held EXCEPT !.pods[p] = w]
           t == AdvanceEmergency(s, p, choice)
<1>1. /\ Good(held, j, n) /\ SameParties(s, held) /\ held.faults = s.faults /\ held.emergencies = s.emergencies
      /\ "emergency" \in v.withdrawn
  <2> DEFINE hold == "emergency"
             y == WithdrawService(s, p, hold)
  <2>1. hold \in {"fault", "emergency"}
    OBVIOUS
  <2> HIDE DEF hold
  <2>2. Good(y, j, n) /\ SameParties(s, y) /\ y.faults = s.faults /\ y.emergencies = s.emergencies /\ hold \in y.pods[p].withdrawn
    BY <2>1, ServiceWithdrawn
  <2> QED
    BY <2>2 DEF hold
<1>2. CASE Faulted(s, p)
  BY <1>2 DEF AdvanceEmergency, SameParties
<1>3. CASE ~Faulted(s, p) /\ (v.op.purpose # "service" \/ marks = {})
  BY <1>1, <1>3 DEF AdvanceEmergency
<1>4. CASE ~Faulted(s, p) /\ v.op.purpose = "service" /\ marks # {}
  <2>1. t = x
    BY <1>4 DEF AdvanceEmergency, SetPod
  <2> HIDE DEF held, t
  <2>2. PodGood(v, j) /\ Incident(v, held.faults[p], held.emergencies[p]) /\ held \in State(j) /\ v \in PodRecord(j)
    BY <1>1 DEF Good, PodGood
  <2>3. marks = Party(v.riders, held.emergencies[p]) /\ marks \subseteq Active(v.riders)
    BY <1>1, ActiveIs DEF PartyIndex, Party, SameParties
  <2>4. marks \in SUBSET Nat
    <3>1. v.riders \in Seq(Rider(j))
      BY <2>2 DEF PodRecord
    <3>2. DOMAIN v.riders \subseteq Nat
      <4> HIDE DEF v
      <4> QED
        BY <3>1
    <3> QED
      BY <2>3, <3>2 DEF Active
  <2> HIDE DEF marks, v
  <2>5. Active(v.riders) # {}
    BY <1>4, <2>3
  <2>6. v.activity \in {"Boarding", "Continuing", "Unloading"} \/ v.activity = "Traveling"
    BY <2>2, <2>5 DEF PodGood, PodRecord, Activities, RidersOK, MovesEmpty
  <2>7. PodGood(w, j) /\ w.riders = v.riders /\ w.withdrawn = v.withdrawn /\ (w = v \/ w.op = Unload(marks))
    BY <1>1, <1>4, <2>2, <2>4, <2>5, <2>6, PodDiverted
  <2> HIDE DEF w
  <2>8. Incident(w, held.faults[p], held.emergencies[p])
    BY <1>4, <2>2, <2>3, <2>7 DEF Incident, Unload
  <2>9. ~InService(held.pods[p])
    BY <1>1 DEF InService, v
  <2>10. \A y \in Range(held.queue) : y.pod # p
    BY <1>1, <2>9, WithdrawnUnnamed
  <2>11. IdsOf(w.riders) = IdsOf(held.pods[p].riders)
    BY <2>7 DEF v
  <2>12. Good(x, j, n)
    BY <1>1, <2>7, <2>8, <2>9, <2>10, <2>11, PodChanged
  <2>13. x.pods = [held.pods EXCEPT ![p] = w] /\ x.emergencies = held.emergencies /\ held.pods \in [Pods -> PodRecord(j)]
    BY <2>2, StateTyped DEF State
  <2>14. SameParties(held, x)
    <3> HIDE DEF x
    <3> QED
      BY <2>7, <2>13 DEF SameParties, v
  <2> HIDE DEF x
  <2>15. Good(t, j, n) /\ SameParties(s, t) /\ t.emergencies = s.emergencies
    BY <1>1, <2>1, <2>12, <2>13, <2>14 DEF SameParties
  <2> QED
    BY <2>15 DEF t
<1> QED
  BY <1>2, <1>3, <1>4

\* The end of an emergency: its record and its hold go together.
LEMMA EmergencyEnded ==
  ASSUME NEW j, IsJourney(j), NEW n, NEW s, Good(s, j, n), NEW p \in Pods, EmergencyOver(s, p)
  PROVE  LET t == EndEmergency(s, p)
         IN  /\ Good(t, j, n) /\ SameParties(s, t) /\ \A q \in Pods : q # p => t.emergencies[q] = s.emergencies[q]
<1> DEFINE v == s.pods[p]
           r == RestoreService(s, p, "emergency")
           x == [r EXCEPT !.emergencies[p] = 0]
           t == EndEmergency(s, p)
<1>1. s \in State(j) /\ PodGood(v, j) /\ Incident(v, s.faults[p], s.emergencies[p]) /\ v \in PodRecord(j)
  BY DEF Good, PodGood
<1>2. v.op.purpose # "unload"
  <2>1. CASE v.op.purpose = "unload"
    <3>1. Party(v.riders, s.emergencies[p]) # {} /\ v.occupied
      BY <1>1, <2>1 DEF Incident, PodGood, PurposeOK
    <3>2. CarriesPassengers(v)
      BY <3>1, ActiveIs DEF CarriesPassengers, Party
    <3> QED
      BY <2>1, <3>2 DEF EmergencyOver
  <2> QED
    BY <2>1
<1>3. v.op.owner # "emergency"
  BY <1>1, <1>2 DEF PodGood, PodRecord, Purpose, PurposeOK, Service
<1>4. /\ Good(r, j, n) /\ SameParties(s, r) /\ r.faults = s.faults /\ r.emergencies = s.emergencies
      /\ "emergency" \notin r.pods[p].withdrawn /\ r.pods[p].op = v.op
  <2>1. CASE "emergency" \notin v.withdrawn
    BY <2>1 DEF RestoreService, SameParties
  <2>2. CASE "emergency" \in v.withdrawn
    <3> DEFINE hold == "emergency"
    <3>1. r = Unheld(s, p, hold)
      BY <1>3, <2>2 DEF RestoreService, Unheld
    <3>2. hold \in {"fault", "emergency"} /\ (hold = "fault" => s.faults[p] = NoFault) /\ hold \in s.pods[p].withdrawn /\ s.pods[p].op.owner # hold
      BY <1>3, <2>2
    <3> HIDE DEF r, hold, x, t, v
    <3>3. /\ Good(r, j, n) /\ SameParties(s, r) /\ r.faults = s.faults /\ r.emergencies = s.emergencies
          /\ r.pods[p].withdrawn = s.pods[p].withdrawn \ {hold} /\ r.pods[p].op = s.pods[p].op
      BY <3>1, <3>2, HoldDropped
    <3> QED
      BY <3>3 DEF hold, v
  <2> QED
    BY <2>1, <2>2
<1>5. t = x
  <2> DEFINE y == [s EXCEPT !.emergencies[p] = 0]
  <2>1. y.pods = s.pods
    BY <1>1 DEF State
  <2>2. CASE "emergency" \notin v.withdrawn
    BY <2>1, <2>2 DEF EndEmergency, RestoreService
  <2>3. CASE "emergency" \in v.withdrawn
    <3>1. t = [y EXCEPT !.pods[p].withdrawn = @ \ {"emergency"}]
      BY <1>3, <2>1, <2>3 DEF EndEmergency, RestoreService
    <3>2. r = [s EXCEPT !.pods[p].withdrawn = @ \ {"emergency"}]
      BY <1>3, <2>3 DEF RestoreService
    <3> HIDE DEF t, r
    <3>3. s = [pods |-> s.pods, queue |-> s.queue, completed |-> s.completed, interrupted |-> s.interrupted,
               faults |-> s.faults, emergencies |-> s.emergencies] /\ s.emergencies \in [Pods -> Nat] /\ s.pods \in [Pods -> PodRecord(j)]
      BY <1>1, StateTyped
    <3> QED
      BY <3>1, <3>2, <3>3
  <2> QED
    BY <2>2, <2>3
<1> HIDE DEF r, t
<1>6. /\ x \in State(j) /\ x.pods = r.pods /\ x.queue = r.queue /\ x.completed = r.completed /\ x.interrupted = r.interrupted
      /\ x.faults = r.faults /\ x.emergencies[p] = 0 /\ \A q \in Pods : q # p => x.emergencies[q] = r.emergencies[q]
  BY <1>4 DEF Good, State
<1> HIDE DEF x
<1>7. \A q \in Pods : Incident(r.pods[q], x.faults[q], x.emergencies[q])
  <2>1. \A q \in Pods : Incident(r.pods[q], r.faults[q], r.emergencies[q])
    BY <1>4 DEF Good
  <2> QED
    BY <1>2, <1>4, <1>6, <2>1 DEF Incident
<1>8. Good(x, j, n) /\ SameParties(r, x)
  BY <1>4, <1>6, <1>7, RecordsSet
<1>9. Good(t, j, n) /\ SameParties(s, t) /\ \A q \in Pods : q # p => t.emergencies[q] = s.emergencies[q]
  BY <1>4, <1>5, <1>6, <1>8 DEF SameParties
<1> QED
  BY <1>9 DEF t

\* The emergencies of all pods.
LEMMA EmergencyStageGood ==
  ASSUME NEW j, IsJourney(j), NEW n, NEW s, Good(s, j, n), NEW choice \in [Pods -> {NoStation} \cup Passenger]
  PROVE  Good(EmergencyStage(s, choice), j, n) /\ Shrinks(s, EmergencyStage(s, choice))
<1> DEFINE N == FleetSize
           Step(t, p) == IF s.emergencies[p] = 0 THEN t
                         ELSE IF EmergencyOver(t, p) THEN EndEmergency(t, p) ELSE AdvanceEmergency(t, p, choice[p])
           S == [p \in 0 .. N |-> {t \in State(j) : Good(t, j, n) /\ Shrinks(s, t) /\ \A q \in Pods : q > p => t.emergencies[q] = s.emergencies[q]}]
           G == [p \in 1 .. N |-> [t \in S[p - 1] |-> Step(t, p)]]
           Equation(f) == f = [p \in 0 .. N |-> IF p = 0 THEN s ELSE Step(f[p - 1], p)]
           f == CHOOSE f : Equation(f)
<1>1. N \in Nat /\ Pods = 1 .. N
  BY FleetAssumption DEF Pods
<1>2. s \in S[0]
  BY <1>1, Chained DEF Good
<1>3. \A p \in 1 .. N : \A t \in S[p - 1] : Step(t, p) \in S[p]
  <2> SUFFICES ASSUME NEW p \in 1 .. N, NEW t \in S[p - 1]
               PROVE  Step(t, p) \in S[p]
    OBVIOUS
  <2>1. p - 1 \in 0 .. N /\ p \in 0 .. N /\ p \in Pods /\ p > p - 1
    BY <1>1
  <2>2. Good(t, j, n) /\ Shrinks(s, t) /\ (\A q \in Pods : q > p - 1 => t.emergencies[q] = s.emergencies[q]) /\ t \in State(j)
    BY <2>1
  <2>3. \A q \in Pods : q > p => q > p - 1 /\ q # p
    BY <1>1
  <2>4. ASSUME NEW x, Good(x, j, n), SameParties(t, x), \A q \in Pods : q # p => x.emergencies[q] = t.emergencies[q] PROVE x \in S[p]
    <3>1. x \in State(j) /\ Shrinks(s, x)
      BY <2>2, <2>4, PartiesShrink, Chained DEF Good
    <3> QED
      BY <2>1, <2>2, <2>3, <2>4, <3>1
  <2>5. t \in S[p]
    BY <2>2, <2>4 DEF SameParties
  <2> HIDE DEF S
  <2>6. CASE s.emergencies[p] # 0 /\ EmergencyOver(t, p)
    <3> DEFINE x == EndEmergency(t, p)
    <3>1. Good(x, j, n) /\ SameParties(t, x) /\ \A q \in Pods : q # p => x.emergencies[q] = t.emergencies[q]
      BY <2>1, <2>2, <2>6, EmergencyEnded
    <3> HIDE DEF x
    <3>2. x \in S[p]
      BY <2>4, <3>1
    <3> QED
      BY <2>6, <3>2 DEF x
  <2>7. CASE s.emergencies[p] # 0 /\ ~EmergencyOver(t, p)
    <3> DEFINE x == AdvanceEmergency(t, p, choice[p])
               c == choice[p]
    <3>1. t.emergencies[p] # 0 /\ c \in {NoStation} \cup Passenger /\ x = AdvanceEmergency(t, p, c)
      BY <2>1, <2>2, <2>7
    <3> HIDE DEF c
    <3>2. LET y == AdvanceEmergency(t, p, c) IN Good(y, j, n) /\ SameParties(t, y) /\ y.emergencies = t.emergencies
      BY <2>1, <2>2, <3>1, EmergencyAdvanced
    <3>3. Good(x, j, n) /\ SameParties(t, x) /\ x.emergencies = t.emergencies
      BY <3>1, <3>2
    <3> HIDE DEF x
    <3>4. x \in S[p]
      BY <2>4, <3>3
    <3> QED
      BY <2>7, <3>4 DEF x
  <2> QED
    BY <2>5, <2>6, <2>7
<1> HIDE DEF S, N
<1>4. PICK h : Looped(h, N, G, s) /\ \A p \in 0 .. N : h[p] \in S[p]
  <2>1. \A p \in 1 .. N : \A t \in S[p - 1] : G[p][t] \in S[p]
    BY <1>1, <1>3
  <2> HIDE DEF G
  <2> QED
    BY <1>1, <1>2, <2>1, Loop
<1>5. Equation(h)
  <2>1. \A p \in 0 .. N : p # 0 => p \in 1 .. N /\ p - 1 \in 0 .. N
    BY <1>1
  <2>2. \A p \in 0 .. N : p # 0 => G[p][h[p - 1]] = Step(h[p - 1], p)
    BY <1>4, <2>1
  <2> HIDE DEF G
  <2> QED
    BY <1>4, <2>2 DEF Looped
<1>6. Equation(f)
  <2> HIDE DEF Equation
  <2> QED
    BY <1>5
<1> HIDE DEF f
<1>7. f[N] \in S[N]
  <2>1. \A p \in 1 .. N : f[p] = Step(f[p - 1], p)
    BY <1>1, <1>6
  <2>2. f[0] = s
    BY <1>1, <1>6
  <2>3. \A p \in 1 .. N : f[p - 1] \in S[p - 1] => f[p] \in S[p]
    BY <1>3, <2>1
  <2>4. f[0] \in S[0]
    BY <1>2, <2>2
  <2> HIDE DEF Equation, G
  <2> QED
    BY <1>1, <2>3, <2>4, FoldEnds
<1>8. EmergencyStage(s, choice) = f[N]
  BY DEF EmergencyStage, InFleetOrder, f, N
<1> QED
  BY <1>1, <1>7, <1>8 DEF S

-----------------------------------------------------------------------------
(***************************************************************************)
(* Dispatch: trips get and lose pods.                                      *)
(***************************************************************************)
\* The state t is s with other pods and other bindings of the trips: the parties, the holds and the IDs stay, and
\* what each trip names now keeps its promise.
Rebinds(s, t, j) ==
    LET q == s.queue
        w == t.queue
    IN  /\ t = [pods |-> t.pods, queue |-> t.queue, completed |-> s.completed, interrupted |-> s.interrupted,
                faults |-> s.faults, emergencies |-> s.emergencies]
        /\ t.pods \in [Pods -> PodRecord(j)] /\ w = [k \in DOMAIN q |-> w[k]]
        /\ \A p \in Pods : PodGood(t.pods[p], j) /\ Kin(s.pods[p], t.pods[p])
        /\ \A k \in DOMAIN q : /\ w[k] \in Trip(j) /\ w[k].id = q[k].id
                               /\ \/ w[k] = q[k] /\ (q[k].pod # NoPod => Keeps(s.pods[q[k].pod], t.pods[q[k].pod]))
                                  \/ TripOK(w[k], t.pods, j)
        /\ \A k, l \in DOMAIN q : k # l /\ w[k].pod # NoPod => w[k].pod # w[l].pod

\* What the invariant says of the trip at an index.
LEMMA QueueAt ==
  ASSUME NEW j, IsJourney(j), NEW n, NEW s, Good(s, j, n)
  PROVE  /\ s \in State(j) /\ s.queue \in Seq(Trip(j)) /\ Ordered(s.queue)
         /\ \A k \in DOMAIN s.queue : /\ s.queue[k] \in Trip(j) /\ s.queue[k] \in Range(s.queue) /\ TripOK(s.queue[k], s.pods, j)
                                      /\ LegOf(s.queue[k], j) \in Passenger
                                      /\ s.queue[k].pod # NoPod => s.queue[k].pod \in Pods
                                      /\ s.queue[k].deferPod # NoPod => s.queue[k].deferPod \in Pods
         /\ \A k, l \in DOMAIN s.queue : k # l /\ s.queue[k].pod # NoPod => s.queue[k].pod # s.queue[l].pod
<1> DEFINE T == Trip(j)
           q == s.queue
<1>1. s \in State(j) /\ QueueGood(q, s.pods, j)
  BY DEF Good
<1>2. q \in Seq(T) /\ Ordered(q) /\ \A t \in T : t.id \in Nat
  BY <1>1, TripTyped DEF QueueGood
<1>3. \A k \in DOMAIN q : q[k] \in T /\ q[k] \in Range(q)
  <2> HIDE DEF T, q
  <2> QED
    BY <1>2, IdsOfTrips
<1>4. \A k, l \in DOMAIN q : k # l => q[k] # q[l]
  <2> HIDE DEF T, q
  <2> QED
    BY <1>2, OrderedDiffer
<1>5. \A k, l \in DOMAIN q : k # l /\ q[k].pod # NoPod => q[k].pod # q[l].pod
  BY <1>1, <1>3, <1>4 DEF QueueGood, Unshared
<1>6. \A k \in DOMAIN q : /\ LegOf(q[k], j) \in Passenger
                          /\ q[k].pod # NoPod => q[k].pod \in Pods
                          /\ q[k].deferPod # NoPod => q[k].deferPod \in Pods
  BY <1>3, TripTyped
<1> QED
  BY <1>1, <1>2, <1>3, <1>5, <1>6 DEF QueueGood

\* Other bindings that keep their promises keep the invariant and the holds.
LEMMA ReboundGood ==
  ASSUME NEW j, IsJourney(j), NEW n, NEW s, Good(s, j, n), NEW t, Rebinds(s, t, j)
  PROVE  /\ Good(t, j, n) /\ HoldsStay(s, t) /\ DOMAIN t.queue = DOMAIN s.queue
         /\ \A k \in DOMAIN s.queue : t.queue[k].id = s.queue[k].id
<1> DEFINE q == s.queue
           w == t.queue
           T == Trip(j)
<1>1. /\ s \in State(j) /\ q \in Seq(T) /\ Ordered(q)
      /\ \A k \in DOMAIN q : /\ q[k] \in T /\ q[k] \in Range(q) /\ TripOK(q[k], s.pods, j)
                             /\ LegOf(q[k], j) \in Passenger
                             /\ q[k].pod # NoPod => q[k].pod \in Pods
                             /\ q[k].deferPod # NoPod => q[k].deferPod \in Pods
  BY QueueAt
<1>2. /\ t = [pods |-> t.pods, queue |-> t.queue, completed |-> s.completed, interrupted |-> s.interrupted,
              faults |-> s.faults, emergencies |-> s.emergencies]
      /\ t.pods \in [Pods -> PodRecord(j)] /\ w = [k \in DOMAIN q |-> w[k]]
      /\ \A p \in Pods : PodGood(t.pods[p], j) /\ Kin(s.pods[p], t.pods[p])
      /\ \A k \in DOMAIN q : /\ w[k] \in T /\ w[k].id = q[k].id
                             /\ \/ w[k] = q[k] /\ (q[k].pod # NoPod => Keeps(s.pods[q[k].pod], t.pods[q[k].pod]))
                                \/ TripOK(w[k], t.pods, j)
      /\ \A k, l \in DOMAIN q : k # l /\ w[k].pod # NoPod => w[k].pod # w[l].pod
  BY DEF Rebinds
<1>3. \A k \in DOMAIN q : TripOK(w[k], t.pods, j)
  <2> SUFFICES ASSUME NEW k \in DOMAIN q, w[k] = q[k], q[k].pod # NoPod => Keeps(s.pods[q[k].pod], t.pods[q[k].pod])
               PROVE  TripOK(w[k], t.pods, j)
    BY <1>2
  <2> DEFINE x == q[k]
  <2>1. /\ TripOK(x, s.pods, j) /\ LegOf(x, j) \in Passenger /\ (x.deferPod # NoPod => x.deferPod \in Pods)
        /\ (x.pod # NoPod => Keeps(s.pods[x.pod], t.pods[x.pod]))
    BY <1>1
  <2> HIDE DEF x
  <2>2. x.pod # NoPod => PodServes(t.pods[x.pod], LegOf(x, j))
    BY <2>1 DEF TripOK, Keeps
  <2>3. x.deferPod # NoPod => InService(t.pods[x.deferPod])
    BY <1>2, <2>1 DEF TripOK, InService, Kin
  <2>4. TripOK(x, t.pods, j)
    BY <2>1, <2>2, <2>3 DEF TripOK
  <2> QED
    BY <2>4 DEF x
<1>4. w \in Seq(T) /\ Ordered(w) /\ Ids(w) = Ids(q) /\ DOMAIN w = DOMAIN q
  <2>1. (\A x \in T : x.id \in Nat) /\ \A k \in DOMAIN q : w[k] \in T /\ w[k].id = q[k].id
    BY <1>2, TripTyped
  <2> HIDE DEF T, q, w
  <2>2. w = [k \in DOMAIN q |-> w[k]] /\ q \in Seq(T) /\ Ordered(q)
    BY <1>1, <1>2
  <2> QED
    BY <2>1, <2>2, TripsChanged
<1>5. \A x \in Range(w) : \E k \in DOMAIN q : x = w[k]
  <2> HIDE DEF T, q, w
  <2> QED
    BY <1>4, IdsOfTrips
<1> HIDE DEF T
<1>6. QueueGood(w, t.pods, j)
  <2>1. Unshared(Range(w))
    BY <1>2, <1>5 DEF Unshared
  <2>2. \A x \in Range(w) : TripOK(x, t.pods, j)
    BY <1>3, <1>5
  <2> QED
    BY <1>4, <2>1, <2>2 DEF QueueGood, T
<1>7. t.completed = s.completed /\ t.interrupted = s.interrupted /\ t.faults = s.faults /\ t.emergencies = s.emergencies
  BY <1>2
<1>8. \A p \in Pods : t.pods[p].riders = s.pods[p].riders /\ t.pods[p].withdrawn = s.pods[p].withdrawn /\ t.pods[p].op = s.pods[p].op
  BY <1>2 DEF Kin
<1>9. Aboards(t.pods) = Aboards(s.pods)
  BY <1>8 DEF Aboards
<1>10. t \in State(j)
  <2>1. t.queue \in Seq(Trip(j)) /\ t.pods \in [Pods -> PodRecord(j)]
    BY <1>2, <1>4 DEF T
  <2>2. /\ s.completed \in SUBSET Nat /\ s.interrupted \in SUBSET Nat
        /\ s.faults \in [Pods -> FaultRecord] /\ s.emergencies \in [Pods -> Nat]
    BY <1>1, StateTyped
  <2> QED
    BY <1>2, <2>1, <2>2 DEF State
<1>11. \A p \in Pods : PodGood(t.pods[p], j) /\ Incident(t.pods[p], t.faults[p], t.emergencies[p])
  <2> SUFFICES ASSUME NEW p \in Pods PROVE Incident(t.pods[p], t.faults[p], t.emergencies[p])
    BY <1>2
  <2>1. Incident(s.pods[p], s.faults[p], s.emergencies[p])
    BY DEF Good
  <2> QED
    BY <1>7, <1>8, <2>1 DEF Incident
<1>12. Split(n, Ids(t.queue), t.completed, t.interrupted, Aboards(t.pods))
  BY <1>4, <1>7, <1>9 DEF Good
<1>13. HoldsStay(s, t)
  BY <1>8 DEF HoldsStay
<1> QED
  BY <1>2, <1>4, <1>6, <1>10, <1>11, <1>12, <1>13 DEF Good

\* The state s with the pods a and the trips w.
Edit(s, a, w) == [pods |-> a, queue |-> w, completed |-> s.completed, interrupted |-> s.interrupted,
                  faults |-> s.faults, emergencies |-> s.emergencies]

\* The pods and the trips that an operation changes, at the pods P and the indexes I.
Edits(s, a, w, P, I, j) ==
    /\ a \in [Pods -> PodRecord(j)] /\ w = [k \in DOMAIN s.queue |-> w[k]]
    /\ \A p \in Pods : /\ p \in P => PodGood(a[p], j) /\ Kin(s.pods[p], a[p])
                       /\ p \notin P => a[p] = s.pods[p]
    /\ \A k \in DOMAIN s.queue : /\ k \in I => w[k] \in Trip(j) /\ w[k].id = s.queue[k].id /\ TripOK(w[k], a, j)
                                 /\ k \notin I => w[k] = s.queue[k] /\ s.queue[k].pod \notin P
    /\ \A k \in I : \A l \in DOMAIN s.queue : k # l /\ w[k].pod # NoPod => w[k].pod # w[l].pod

\* The result of an operation on a state that keeps the invariant and the holds.
Dispatches(s, t, j, n) ==
    /\ Good(t, j, n) /\ HoldsStay(s, t) /\ DOMAIN t.queue = DOMAIN s.queue
    /\ \A k \in DOMAIN s.queue : t.queue[k].id = s.queue[k].id

\* An operation that changes some pods and the trips that name them keeps the invariant.
LEMMA EditedGood ==
  ASSUME NEW j, IsJourney(j), NEW n, NEW s, Good(s, j, n), NEW a, NEW w, NEW P, NEW I, I \subseteq DOMAIN s.queue, Edits(s, a, w, P, I, j)
  PROVE  Dispatches(s, Edit(s, a, w), j, n)
<1> DEFINE t == Edit(s, a, w)
           q == s.queue
<1>1. /\ s \in State(j)
      /\ \A k \in DOMAIN q : q[k] \in Trip(j) /\ (q[k].pod # NoPod => q[k].pod \in Pods)
      /\ \A k, l \in DOMAIN q : k # l /\ q[k].pod # NoPod => q[k].pod # q[l].pod
  BY QueueAt
<1>2. /\ t.pods = a /\ t.queue = w
      /\ t = [pods |-> t.pods, queue |-> t.queue, completed |-> s.completed, interrupted |-> s.interrupted,
              faults |-> s.faults, emergencies |-> s.emergencies]
  BY DEF Edit
<1> HIDE DEF t
<1>3. \A p \in Pods : PodGood(a[p], j) /\ Kin(s.pods[p], a[p])
  BY DEF Edits, Good, Kin
<1>4. ASSUME NEW k \in DOMAIN q
      PROVE  /\ w[k] \in Trip(j) /\ w[k].id = q[k].id
             /\ \/ w[k] = q[k] /\ (q[k].pod # NoPod => Keeps(s.pods[q[k].pod], a[q[k].pod]))
                \/ TripOK(w[k], a, j)
  <2>1. CASE k \in I
    BY <2>1 DEF Edits
  <2>2. CASE k \notin I
    <3>1. w[k] = q[k] /\ q[k].pod \notin P
      BY <2>2 DEF Edits
    <3>2. q[k].pod # NoPod => a[q[k].pod] = s.pods[q[k].pod]
      BY <1>1, <3>1 DEF Edits
    <3> QED
      BY <1>1, <3>1, <3>2 DEF Keeps
  <2> QED
    BY <2>1, <2>2
<1>5. ASSUME NEW k \in DOMAIN q, NEW l \in DOMAIN q, k # l, w[k].pod # NoPod PROVE w[k].pod # w[l].pod
  <2>1. CASE k \in I
    BY <1>5, <2>1 DEF Edits
  <2>2. CASE l \in I
    BY <1>5, <2>2 DEF Edits
  <2>3. CASE k \notin I /\ l \notin I
    BY <1>1, <1>5, <2>3, ZenonT(60) DEF Edits
  <2> QED
    BY <2>1, <2>2, <2>3
<1>6. a \in [Pods -> PodRecord(j)] /\ w = [k \in DOMAIN q |-> w[k]]
  BY DEF Edits
<1>7. Rebinds(s, t, j)
  BY <1>2, <1>3, <1>4, <1>5, <1>6 DEF Rebinds
<1> QED
  BY <1>7, ReboundGood DEF Dispatches, t

\* A pod in service lets go of its pickup.
LEMMA PickupDropped ==
  ASSUME NEW j, NEW v, PodGood(v, j), InService(v)
  PROVE  PodGood(ReleasePickup(v), j) /\ Kin(v, ReleasePickup(v)) /\ ReleasePickup(v) \in PodRecord(j)
<1>1. v.op.purpose # "recovery"
  BY InServiceServes
<1>2. PodGood(ReleasePickup(v), j)
  BY <1>1, PickupReleased
<1>3. Kin(v, ReleasePickup(v))
  BY DEF PodGood, PodRecord, Kin, ReleasePickup
<1> QED
  BY <1>2, <1>3 DEF PodGood

\* KeepTripPod: a trip lets go of the pod that cannot reach it.
LEMMA TripPodKept ==
  ASSUME NEW n, IsJourney(J), NEW s, Good(s, J, n), NEW i \in DOMAIN s.queue
  PROVE  Dispatches(s, KeepTripPod(s, i), J, n)
<1> DEFINE q == s.queue
           p == q[i].pod
           v == ReleasePickup(s.pods[p])
           x == [q[i] EXCEPT !.pod = NoPod]
           a == [s.pods EXCEPT ![p] = v]
           w == [q EXCEPT ![i] = x]
           t == KeepTripPod(s, i)
<1>1. CASE t = s
  BY <1>1, Chained DEF Dispatches
<1>2. CASE t # s
  <2>1. p # NoPod /\ t = [s EXCEPT !.pods[p] = ReleasePickup(@), !.queue[i].pod = NoPod]
    BY <1>2 DEF KeepTripPod
  <2>2. /\ s \in State(J) /\ q \in Seq(Trip(J)) /\ q[i] \in Trip(J) /\ p \in Pods /\ TripOK(q[i], s.pods, J)
        /\ (q[i].deferPod # NoPod => q[i].deferPod \in Pods)
        /\ \A k, l \in DOMAIN q : k # l /\ q[k].pod # NoPod => q[k].pod # q[l].pod
    BY <2>1, QueueAt, SMTT(30)
  <2>3. PodGood(s.pods[p], J) /\ InService(s.pods[p])
    BY <2>1, <2>2 DEF Good, TripOK, PodServes
  <2>4. PodGood(v, J) /\ Kin(s.pods[p], v) /\ v \in PodRecord(J)
    BY <2>3, PickupDropped
  <2>5. x \in Trip(J) /\ x.id = q[i].id /\ x.pod = NoPod /\ x.deferPod = q[i].deferPod /\ LegOf(x, J) = LegOf(q[i], J)
    BY <2>2 DEF Trip, LegOf, OptPods
  <2>6. t = Edit(s, a, w)
    BY <2>1, <2>2 DEF State, Edit
  <2>7. s.pods \in [Pods -> PodRecord(J)]
    BY <2>2, StateTyped
  <2> HIDE DEF v, x, t
  <2>8. a[p] = v /\ (\A o \in Pods : o # p => a[o] = s.pods[o]) /\ a \in [Pods -> PodRecord(J)]
    BY <2>2, <2>4, <2>7
  <2>9. w[i] = x /\ (\A k \in DOMAIN q : k # i => w[k] = q[k]) /\ w = [k \in DOMAIN q |-> w[k]]
    OBVIOUS
  <2> HIDE DEF a, w, p
  <2>10. TripOK(x, a, J)
    <3>1. \A o \in Pods : InService(s.pods[o]) => InService(a[o])
      BY <2>4, <2>8 DEF Kin, InService
    <3> QED
      BY <2>2, <2>5, <3>1 DEF TripOK
  <2>11. \A k \in DOMAIN q : k # i => q[k].pod # p
    BY <2>1, <2>2 DEF p
  <2>12. Edits(s, a, w, {p}, {i}, J)
    BY <2>4, <2>5, <2>8, <2>9, <2>10, <2>11 DEF Edits
  <2>13. Dispatches(s, Edit(s, a, w), J, n)
    BY <2>12, EditedGood
  <2> QED
    BY <2>6, <2>13 DEF t
<1> QED
  BY <1>1, <1>2

\* PromoteReadyPickup: the trip takes the ready pod of a later one, which gets the pod of the trip.
LEMMA PickupPromoted ==
  ASSUME NEW n, IsJourney(J), NEW s, Good(s, J, n), NEW i \in DOMAIN s.queue
  PROVE  Dispatches(s, PromoteReadyPickup(s, i), J, n)
<1> DEFINE q == s.queue
           current == q[i].pod
           k == Min(Promotable(s, i))
           ready == q[k].pod
           x == [q[i] EXCEPT !.pod = ready]
           y == [q[k] EXCEPT !.pod = current]
           w == [q EXCEPT ![i] = x, ![k] = y]
           t == PromoteReadyPickup(s, i)
<1>1. CASE t = s
  BY <1>1, Chained DEF Dispatches
<1>2. CASE t # s
  <2>1. Promotable(s, i) # {} /\ t = [s EXCEPT !.queue[i].pod = ready, !.queue[k].pod = current]
    BY <1>2 DEF PromoteReadyPickup
  <2>2. /\ s \in State(J) /\ q \in Seq(Trip(J))
        /\ \A l \in DOMAIN q : /\ q[l] \in Trip(J) /\ TripOK(q[l], s.pods, J) /\ (q[l].pod # NoPod => q[l].pod \in Pods)
        /\ \A l, m \in DOMAIN q : l # m /\ q[l].pod # NoPod => q[l].pod # q[m].pod
    BY QueueAt
  <2>3. Promotable(s, i) \in SUBSET Nat
    BY <2>2 DEF Promotable
  <2>4. k \in Promotable(s, i)
    BY <2>1, <2>3, LeastMember
  <2>5. /\ k \in DOMAIN q /\ k # i /\ LegOrigin(q[k]) = LegOrigin(q[i]) /\ ready # NoPod /\ ready # q[i].excluded
        /\ (current # NoPod => q[k].excluded # current)
    <3>0. k \in i + 1 .. Len(q)
      <4> HIDE DEF k
      <4> QED
        BY <2>4 DEF Promotable
    <3>1. k \in i + 1 .. Len(q) /\ Len(q) \in Nat /\ DOMAIN q = 1 .. Len(q) /\ i \in 1 .. Len(q)
      <4> HIDE DEF k
      <4> QED
        BY <2>2, <3>0
    <3> HIDE DEF k
    <3>2. k \in DOMAIN q /\ k # i
      BY <3>1
    <3>3. /\ LegOrigin(q[k]) = LegOrigin(q[i]) /\ ready # NoPod /\ ready # q[i].excluded
          /\ (current # NoPod => q[k].excluded # current)
      BY <2>4 DEF Promotable
    <3> QED
      BY <3>2, <3>3
  <2>6. LegOf(q[k], J) = LegOf(q[i], J)
    BY <2>5, NamesOfTrips
  <2> HIDE DEF k
  <2>7. ready \in OptPods /\ current \in OptPods
    BY <2>2, <2>5 DEF OptPods
  <2>9. /\ x \in Trip(J) /\ x.id = q[i].id /\ x.pod = ready /\ x.excluded = q[i].excluded /\ x.deferPod = q[i].deferPod
        /\ LegOf(x, J) = LegOf(q[i], J)
    BY <2>2, <2>7 DEF Trip, LegOf
  <2>10. /\ y \in Trip(J) /\ y.id = q[k].id /\ y.pod = current /\ y.excluded = q[k].excluded /\ y.deferPod = q[k].deferPod
         /\ LegOf(y, J) = LegOf(q[k], J)
    BY <2>2, <2>5, <2>7 DEF Trip, LegOf
  <2>11. t = Edit(s, s.pods, w)
    BY <2>1, <2>2, <2>5 DEF State, Edit
  <2>12. s.pods \in [Pods -> PodRecord(J)]
    BY <2>2, StateTyped
  <2> HIDE DEF x, y, t
  <2>13. w[i] = x /\ w[k] = y /\ (\A l \in DOMAIN q : l \notin {i, k} => w[l] = q[l]) /\ w = [l \in DOMAIN q |-> w[l]]
    BY <2>5
  <2> HIDE DEF w
  <2>14. TripOK(x, s.pods, J)
    BY <2>2, <2>5, <2>6, <2>9 DEF TripOK
  <2>15. TripOK(y, s.pods, J)
    BY <2>2, <2>5, <2>6, <2>10 DEF TripOK
  <2>16. \A l \in {i, k} : \A m \in DOMAIN q : l # m /\ w[l].pod # NoPod => w[l].pod # w[m].pod
    <3>1. ASSUME NEW l \in {i, k}, NEW m \in DOMAIN q, l # m, w[l].pod # NoPod PROVE w[l].pod # w[m].pod
      <4>1. /\ (w[l].pod = ready /\ l = i) \/ (w[l].pod = current /\ l = k)
            /\ m = k => w[m].pod = current
            /\ m = i => w[m].pod = ready
            /\ m \notin {i, k} => w[m].pod = q[m].pod
        BY <2>5, <2>9, <2>10, <2>13
      <4>2. /\ current # NoPod => current # ready
            /\ m # k => q[m].pod # ready
            /\ m # i /\ current # NoPod => q[m].pod # current
        BY <2>2, <2>5
      <4> QED
        BY <3>1, <4>1, <4>2, <2>5
    <3> QED
      BY <3>1
  <2>17. Edits(s, s.pods, w, {}, {i, k}, J)
    BY <2>9, <2>10, <2>12, <2>13, <2>14, <2>15, <2>16 DEF Edits
  <2>18. Dispatches(s, Edit(s, s.pods, w), J, n)
    BY <2>5, <2>17, EditedGood
  <2> QED
    BY <2>11, <2>18 DEF t
<1> QED
  BY <1>1, <1>2

\* An idle pod has nobody aboard.
LEMMA IdleServes ==
  ASSUME NEW j, NEW v, PodGood(v, j), InService(v), NEW station, IdleAt(v, station)
  PROVE  PodServes(v, station)
BY DEF PodGood, RidersOK, FlagsOK, IdleAt, PodServes

\* No trip has a pod that is not bound.
LEMMA UnboundPods ==
  ASSUME NEW s, NEW p, ~Bound(s, p)
  PROVE  \A k \in DOMAIN s.queue : s.queue[k].pod # p
BY DEF Bound

\* takeLocalPickup: the trip changes to the idle pod at its station.
LEMMA LocalPickupTaken ==
  ASSUME NEW n, IsJourney(J), NEW s, Good(s, J, n), NEW i \in DOMAIN s.queue
  PROVE  Dispatches(s, TakeLocalPickup(s, i), J, n)
<1> DEFINE q == s.queue
           p == q[i].pod
           o == Min(LocalPickups(s, q[i]))
           v == ReleasePickup(s.pods[p])
           x == [q[i] EXCEPT !.pod = o]
           a == [s.pods EXCEPT ![p] = v]
           w == [q EXCEPT ![i] = x]
           t == TakeLocalPickup(s, i)
<1>1. CASE t = s
  BY <1>1, Chained DEF Dispatches
<1>2. CASE t # s
  <2>1. p # NoPod /\ LocalPickups(s, q[i]) # {} /\ t = [s EXCEPT !.pods[p] = v, !.queue[i].pod = o]
    BY <1>2 DEF TakeLocalPickup
  <2>2. /\ s \in State(J) /\ q \in Seq(Trip(J)) /\ q[i] \in Trip(J) /\ p \in Pods /\ TripOK(q[i], s.pods, J)
        /\ (q[i].deferPod # NoPod => q[i].deferPod \in Pods)
        /\ \A k, l \in DOMAIN q : k # l /\ q[k].pod # NoPod => q[k].pod # q[l].pod
    BY <2>1, QueueAt, SMTT(30)
  <2>3. PodGood(s.pods[p], J) /\ InService(s.pods[p])
    BY <2>1, <2>2 DEF Good, TripOK, PodServes
  <2>4. PodGood(v, J) /\ Kin(s.pods[p], v) /\ v \in PodRecord(J)
    BY <2>3, PickupDropped
  <2>5. LocalPickups(s, q[i]) \in SUBSET Nat
    BY FleetAssumption DEF LocalPickups, Pods
  <2>6. o \in LocalPickups(s, q[i])
    BY <2>1, <2>5, LeastMember
  <2> HIDE DEF o
  <2>7. o \in Pods /\ IdleAt(s.pods[o], LegOrigin(q[i])) /\ InService(s.pods[o]) /\ o # q[i].excluded /\ ~Bound(s, o)
    BY <2>6 DEF LocalPickups
  <2>8. x \in Trip(J) /\ x.id = q[i].id /\ x.pod = o /\ x.excluded = q[i].excluded /\ x.deferPod = q[i].deferPod /\ LegOf(x, J) = LegOf(q[i], J)
    BY <2>2, <2>7 DEF Trip, LegOf, OptPods
  <2>9. t = Edit(s, a, w)
    BY <2>1, <2>2 DEF State, Edit
  <2>10. s.pods \in [Pods -> PodRecord(J)]
    BY <2>2, StateTyped
  <2>11. PodServes(s.pods[o], LegOf(x, J))
    <3>1. PodGood(s.pods[o], J)
      BY <2>7 DEF Good
    <3>2. LegOf(x, J) = LegOrigin(q[i])
      BY <2>8, NamesOfTrips
    <3> QED
      BY <2>7, <3>1, <3>2, IdleServes
  <2>12. \A k \in DOMAIN q : q[k].pod # o
    BY <2>7, UnboundPods
  <2> HIDE DEF v, x, t
  <2>13. a[p] = v /\ (\A r \in Pods : r # p => a[r] = s.pods[r]) /\ a \in [Pods -> PodRecord(J)]
    BY <2>2, <2>4, <2>10
  <2>14. w[i] = x /\ (\A k \in DOMAIN q : k # i => w[k] = q[k]) /\ w = [k \in DOMAIN q |-> w[k]]
    OBVIOUS
  <2> HIDE DEF a, w
  <2>15. TripOK(x, a, J)
    <3>1. \A r \in Pods : InService(s.pods[r]) => InService(a[r])
      BY <2>4, <2>13 DEF Kin, InService
    <3>2. PodServes(a[o], LegOf(x, J))
      BY <2>7, <2>11, <2>12, <2>13
    <3> QED
      BY <2>2, <2>7, <2>8, <3>1, <3>2 DEF TripOK
  <2>16. \A k \in DOMAIN q : k # i => q[k].pod # p
    BY <2>1, <2>2
  <2> HIDE DEF p
  <2>17. Edits(s, a, w, {p}, {i}, J)
    BY <2>4, <2>8, <2>12, <2>13, <2>14, <2>15, <2>16 DEF Edits
  <2>18. Dispatches(s, Edit(s, a, w), J, n)
    BY <2>17, EditedGood
  <2> QED
    BY <2>9, <2>18 DEF t
<1> QED
  BY <1>1, <1>2

\* waitForFinishingPod: the trip waits for a busy pod.
LEMMA TripDeferred ==
  ASSUME NEW n, IsJourney(J), NEW s, Good(s, J, n), NEW i \in DOMAIN s.queue, NEW idle, NEW t \in Deferred(s, i, idle)
  PROVE  Dispatches(s, t, J, n)
<1> DEFINE q == s.queue
<1>1. PICK o \in Pods : t = [s EXCEPT !.queue[i].deferPod = o, !.queue[i].deferral = "open"] /\ InService(s.pods[o])
  BY DEF Deferred
<1> DEFINE x == [q[i] EXCEPT !.deferPod = o, !.deferral = "open"]
           w == [q EXCEPT ![i] = x]
<1>2. /\ s \in State(J) /\ q \in Seq(Trip(J)) /\ q[i] \in Trip(J) /\ TripOK(q[i], s.pods, J)
      /\ \A k, l \in DOMAIN q : k # l /\ q[k].pod # NoPod => q[k].pod # q[l].pod
  BY QueueAt
<1>3. x \in Trip(J) /\ x.id = q[i].id /\ x.pod = q[i].pod /\ x.excluded = q[i].excluded /\ x.deferPod = o /\ LegOf(x, J) = LegOf(q[i], J)
  BY <1>2 DEF Trip, LegOf, OptPods
<1>4. t = Edit(s, s.pods, w)
  BY <1>1, <1>2 DEF State, Edit
<1>5. s.pods \in [Pods -> PodRecord(J)]
  BY <1>2, StateTyped
<1> HIDE DEF x
<1>6. w[i] = x /\ (\A k \in DOMAIN q : k # i => w[k] = q[k]) /\ w = [k \in DOMAIN q |-> w[k]]
  OBVIOUS
<1> HIDE DEF w
<1>7. TripOK(x, s.pods, J)
  BY <1>1, <1>2, <1>3 DEF TripOK
<1>8. Edits(s, s.pods, w, {}, {i}, J)
  BY <1>2, <1>3, <1>5, <1>6, <1>7, ZenonT(60) DEF Edits
<1> QED
  BY <1>4, <1>8, EditedGood

\* A candidate can be sent, and no trip has it.
LEMMA CandidateSent ==
  ASSUME NEW n, IsJourney(J), NEW s, Good(s, J, n), NEW p \in Pods, PickupCandidate(s, p), NEW station \in Passenger,
         NEW v \in SentToPickup(s.pods[p], station)
  PROVE  /\ PodGood(v, J) /\ Kin(s.pods[p], v) /\ PodServes(v, station) /\ v \in PodRecord(J)
         /\ \A k \in DOMAIN s.queue : s.queue[k].pod # p
<1>1. /\ InService(s.pods[p]) /\ ~s.pods[p].occupied /\ ~Bound(s, p)
      /\ s.pods[p].activity = "Idle" \/ s.pods[p].relocatingTo # NoStation
  BY DEF PickupCandidate
<1>2. PodGood(s.pods[p], J) /\ station \in Stations
  BY StationsAre DEF Good
<1>3. PodGood(v, J) /\ Kin(s.pods[p], v) /\ PodServes(v, station)
  BY <1>1, <1>2, PodSent
<1> QED
  BY <1>1, <1>3, UnboundPods DEF PodGood

\* assignPickupPod: the pod that the trip gets.
Assigned(s, i, p) == {[s EXCEPT !.pods[p] = v, !.queue[i].pod = p] : v \in SentToPickup(s.pods[p], LegOrigin(s.queue[i]))}

\* A trip without a pod gets a candidate.
LEMMA PickupAssigned ==
  ASSUME NEW n, IsJourney(J), NEW s, Good(s, J, n), NEW i \in DOMAIN s.queue, NEW p \in Pods, PickupCandidate(s, p),
         p # s.queue[i].excluded, NEW t \in Assigned(s, i, p), s.queue[i].pod = NoPod
  PROVE  Dispatches(s, t, J, n)
<1> DEFINE q == s.queue
           station == LegOrigin(q[i])
<1>1. PICK v \in SentToPickup(s.pods[p], station) : t = [s EXCEPT !.pods[p] = v, !.queue[i].pod = p]
  BY DEF Assigned
<1> DEFINE x == [q[i] EXCEPT !.pod = p]
           a == [s.pods EXCEPT ![p] = v]
           w == [q EXCEPT ![i] = x]
<1>2. /\ s \in State(J) /\ q \in Seq(Trip(J)) /\ q[i] \in Trip(J) /\ TripOK(q[i], s.pods, J) /\ LegOf(q[i], J) \in Passenger
      /\ (q[i].deferPod # NoPod => q[i].deferPod \in Pods)
  BY QueueAt
<1>3. station = LegOf(q[i], J) /\ station \in Passenger
  BY <1>2, NamesOfTrips
<1> HIDE DEF station
<1>4. PodGood(v, J) /\ Kin(s.pods[p], v) /\ PodServes(v, station) /\ v \in PodRecord(J) /\ \A k \in DOMAIN q : q[k].pod # p
  BY <1>3, CandidateSent
<1>5. x \in Trip(J) /\ x.id = q[i].id /\ x.pod = p /\ x.excluded = q[i].excluded /\ x.deferPod = q[i].deferPod /\ LegOf(x, J) = LegOf(q[i], J)
  BY <1>2 DEF Trip, LegOf, OptPods
<1>6. t = Edit(s, a, w)
  BY <1>1, <1>2 DEF State, Edit
<1>7. s.pods \in [Pods -> PodRecord(J)]
  BY <1>2, StateTyped
<1> HIDE DEF x
<1>8. a[p] = v /\ (\A r \in Pods : r # p => a[r] = s.pods[r]) /\ a \in [Pods -> PodRecord(J)]
  BY <1>4, <1>7
<1>9. w[i] = x /\ (\A k \in DOMAIN q : k # i => w[k] = q[k]) /\ w = [k \in DOMAIN q |-> w[k]]
  OBVIOUS
<1> HIDE DEF a, w
<1>10. TripOK(x, a, J)
  <2>1. \A r \in Pods : InService(s.pods[r]) => InService(a[r])
    BY <1>4, <1>8 DEF Kin, InService
  <2> QED
    BY <1>2, <1>3, <1>4, <1>5, <1>8, <2>1 DEF TripOK
<1>11. Edits(s, a, w, {p}, {i}, J)
  BY <1>4, <1>5, <1>8, <1>9, <1>10 DEF Edits
<1> QED
  BY <1>6, <1>11, EditedGood

\* A pod of a trip that may be exchanged.
LEMMA ExchangeablePod ==
  ASSUME NEW n, IsJourney(J), NEW s, Good(s, J, n), NEW i \in DOMAIN s.queue, SwapEligible(s, i)
  PROVE  LET v == s.pods[s.queue[i].pod]
         IN  /\ s.queue[i].pod \in Pods /\ s.queue[i].pod # NoPod /\ PodGood(v, J) /\ v.op.purpose = "service"
             /\ InService(v) /\ v.relocatingTo # NoStation /\ ~v.released
<1> DEFINE p == s.queue[i].pod
<1>1. p # NoPod /\ InService(s.pods[p]) /\ Releasable(s.pods[p]) /\ ~s.pods[p].released
  BY DEF SwapEligible
<1>2. p \in Pods
  BY <1>1, QueueAt
<1>3. PodGood(s.pods[p], J)
  BY <1>2 DEF Good
<1> QED
  BY <1>1, <1>2, <1>3, InServiceServes DEF Releasable

\* An exchanged pod serves its new station.
LEMMA ExchangedServes ==
  ASSUME NEW j, NEW v, PodGood(v, j), v.op.purpose = "service", InService(v), v.relocatingTo # NoStation, ~v.released,
         NEW station \in Passenger, NEW w \in Redirected(v, station)
  PROVE  PodGood(w, j) /\ Kin(v, w) /\ PodServes(w, station) /\ w \in PodRecord(j)
<1>1. station \in Stations
  BY StationsAre
<1>2. PodGood(w, j) /\ Kin(v, w) /\ ~w.occupied /\ Active(w.riders) = {} /\ (IdleAt(w, station) \/ (w.relocatingTo = station /\ ~w.rebalancing))
  BY <1>1, PodRedirected
<1>3. ~w.released
  BY DEF Redirected, PodGood, PodRecord
<1> QED
  BY <1>2, <1>3 DEF PodServes, Kin, InService, PodGood

\* swapPickups: two trips exchange their pods.
LEMMA PickupsSwapped ==
  ASSUME NEW n, IsJourney(J), NEW s, Good(s, J, n), NEW i \in DOMAIN s.queue, NEW k \in DOMAIN s.queue, NEW t \in SwapStates(s, i, k)
  PROVE  Dispatches(s, t, J, n)
<1> DEFINE q == s.queue
           a == q[i].pod
           b == q[k].pod
           here == LegOrigin(q[i])
           there == LegOrigin(q[k])
           pa == s.pods[a]
           pb == s.pods[b]
<1> DEFINE out == \/ i = k \/ ~SwapEligible(s, i) \/ ~SwapEligible(s, k) \/ LegOrigin(q[i]) = LegOrigin(q[k])
                  \/ q[i].excluded = b \/ q[k].excluded = a
                  \/ ~PickupAccess(s, a, q[k]) \/ ~PickupAccess(s, b, q[i])
           results == {Exchange(s, i, k, v, w) : v \in Redirected(pa, there), w \in Redirected(pb, here)}
<1>0. ~out /\ t \in results
  <2>1. SwapStates(s, i, k) = IF out THEN {} ELSE results
    BY DEF SwapStates
  <2> HIDE DEF out, results
  <2> QED
    BY <2>1
<1>1. i # k /\ SwapEligible(s, i) /\ SwapEligible(s, k) /\ q[i].excluded # b /\ q[k].excluded # a
  <2> HIDE DEF results
  <2> QED
    BY <1>0, SMTT(30)
<1>2. PICK v \in Redirected(pa, there), w \in Redirected(pb, here) :
         t = [s EXCEPT !.pods[a] = v, !.pods[b] = w, !.queue[i] = Rebound(q[i], b), !.queue[k] = Rebound(q[k], a)]
  <2>1. PICK v \in Redirected(pa, there), w \in Redirected(pb, here) : t = Exchange(s, i, k, v, w)
    BY <1>0
  <2>2. s \in State(J)
    BY DEF Good
  <2>3. Exchange(s, i, k, v, w) = [s EXCEPT !.pods[a] = v, !.pods[b] = w, !.queue[i] = Rebound(q[i], b), !.queue[k] = Rebound(q[k], a)]
    BY <1>1, <2>2 DEF State, Exchange
  <2> QED
    BY <2>1, <2>3
<1>3. /\ s \in State(J) /\ q \in Seq(Trip(J))
      /\ \A l \in DOMAIN q : /\ q[l] \in Trip(J) /\ TripOK(q[l], s.pods, J) /\ LegOf(q[l], J) \in Passenger
                             /\ LegOrigin(q[l]) = LegOf(q[l], J)
      /\ \A l, m \in DOMAIN q : l # m /\ q[l].pod # NoPod => q[l].pod # q[m].pod
  BY QueueAt, NamesOfTrips, SMTT(30)
<1>4. /\ a \in Pods /\ a # NoPod /\ PodGood(pa, J) /\ pa.op.purpose = "service" /\ InService(pa) /\ pa.relocatingTo # NoStation /\ ~pa.released
      /\ b \in Pods /\ b # NoPod /\ PodGood(pb, J) /\ pb.op.purpose = "service" /\ InService(pb) /\ pb.relocatingTo # NoStation /\ ~pb.released
  BY <1>1, ExchangeablePod, SMTT(30)
<1>5. a # b
  BY <1>1, <1>3, <1>4
<1>6. here \in Passenger /\ there \in Passenger /\ here = LegOf(q[i], J) /\ there = LegOf(q[k], J)
  BY <1>3, SMTT(30)
<1> DEFINE x == Rebound(q[i], b)
           y == Rebound(q[k], a)
           c == [s.pods EXCEPT ![a] = v, ![b] = w]
           z == [q EXCEPT ![i] = x, ![k] = y]
<1>7. /\ x \in Trip(J) /\ x.id = q[i].id /\ x.pod = b /\ x.excluded = q[i].excluded /\ x.deferPod = NoPod /\ LegOf(x, J) = here
      /\ y \in Trip(J) /\ y.id = q[k].id /\ y.pod = a /\ y.excluded = q[k].excluded /\ y.deferPod = NoPod /\ LegOf(y, J) = there
  BY <1>3, <1>4, ZenonT(60) DEF Trip, LegOf, OptPods, Rebound
<1>8. t = Edit(s, c, z)
  BY <1>1, <1>2, <1>3, <1>5 DEF State, Edit
<1>9. s.pods \in [Pods -> PodRecord(J)]
  BY <1>3, StateTyped
<1> HIDE DEF a, b, x, y, here, there, pa, pb
<1>10. /\ PodGood(v, J) /\ Kin(pa, v) /\ PodServes(v, there) /\ v \in PodRecord(J)
       /\ PodGood(w, J) /\ Kin(pb, w) /\ PodServes(w, here) /\ w \in PodRecord(J)
  BY <1>2, <1>4, <1>6, ExchangedServes
<1>11. c[a] = v /\ c[b] = w /\ (\A r \in Pods : r \notin {a, b} => c[r] = s.pods[r]) /\ c \in [Pods -> PodRecord(J)]
  BY <1>4, <1>5, <1>9, <1>10
<1>12. z[i] = x /\ z[k] = y /\ (\A l \in DOMAIN q : l \notin {i, k} => z[l] = q[l]) /\ z = [l \in DOMAIN q |-> z[l]]
  BY <1>1
<1> HIDE DEF c, z
<1>13. a = q[i].pod /\ b = q[k].pod /\ here = LegOrigin(q[i]) /\ there = LegOrigin(q[k]) /\ pa = s.pods[a] /\ pb = s.pods[b]
  BY DEF a, b, here, there, pa, pb
<1>14. LegOf(q[i], J) # J[q[i].id].to /\ LegOf(q[k], J) # J[q[k].id].to
  BY <1>3 DEF TripOK
<1>15. TripOK(x, c, J)
  BY <1>1, <1>6, <1>7, <1>10, <1>11, <1>13, <1>14 DEF TripOK
<1>16. TripOK(y, c, J)
  BY <1>1, <1>6, <1>7, <1>10, <1>11, <1>13, <1>14, SMTT(30) DEF TripOK
<1>17. \A l \in DOMAIN q : l \notin {i, k} => q[l].pod \notin {a, b}
  BY <1>3, <1>4, <1>13
<1>18. \A l \in {i, k} : \A m \in DOMAIN q : l # m /\ z[l].pod # NoPod => z[l].pod # z[m].pod
  BY <1>5, <1>7, <1>12, <1>17, SMTT(30)
<1>19. Edits(s, c, z, {a, b}, {i, k}, J)
  BY <1>7, <1>10, <1>11, <1>12, <1>13, <1>15, <1>16, <1>17, <1>18 DEF Edits
<1> QED
  BY <1>8, <1>19, EditedGood

\* A trip changes its pod for a free one.
Transferred(s, i, p) ==
    {[s EXCEPT !.pods[p] = v, !.pods[s.queue[i].pod] = ReleasePickup(@), !.queue[i] = Rebound(@, p)] :
        v \in SentToPickup(s.pods[p], LegOrigin(s.queue[i]))}

\* A trip that changes its pod for a free one can count on it.
LEMMA PickupTransferred ==
  ASSUME NEW n, IsJourney(J), NEW s, Good(s, J, n), NEW i \in DOMAIN s.queue, SwapEligible(s, i), NEW p \in Pods, PickupCandidate(s, p),
         p # s.queue[i].excluded, NEW t \in Transferred(s, i, p)
  PROVE  Dispatches(s, t, J, n)
<1> DEFINE q == s.queue
           o == q[i].pod
           station == LegOrigin(q[i])
           u == ReleasePickup(s.pods[o])
<1>1. PICK v \in SentToPickup(s.pods[p], station) : t = [s EXCEPT !.pods[p] = v, !.pods[o] = ReleasePickup(@), !.queue[i] = Rebound(@, p)]
  BY DEF Transferred
<1> DEFINE x == Rebound(q[i], p)
           a == [s.pods EXCEPT ![p] = v, ![o] = u]
           w == [q EXCEPT ![i] = x]
<1>2. /\ s \in State(J) /\ q \in Seq(Trip(J)) /\ q[i] \in Trip(J) /\ TripOK(q[i], s.pods, J) /\ LegOf(q[i], J) \in Passenger
      /\ \A k, l \in DOMAIN q : k # l /\ q[k].pod # NoPod => q[k].pod # q[l].pod
  BY QueueAt
<1>3. station = LegOf(q[i], J) /\ station \in Passenger
  BY <1>2, NamesOfTrips
<1>4. o \in Pods /\ o # NoPod /\ PodGood(s.pods[o], J) /\ InService(s.pods[o])
  BY ExchangeablePod
<1>5. PodGood(u, J) /\ Kin(s.pods[o], u) /\ u \in PodRecord(J)
  BY <1>4, PickupDropped
<1> HIDE DEF station, u
<1>6. PodGood(v, J) /\ Kin(s.pods[p], v) /\ PodServes(v, station) /\ v \in PodRecord(J) /\ \A k \in DOMAIN q : q[k].pod # p
  BY <1>1, <1>3, CandidateSent
<1>7. x \in Trip(J) /\ x.id = q[i].id /\ x.pod = p /\ x.excluded = q[i].excluded /\ x.deferPod = NoPod /\ LegOf(x, J) = LegOf(q[i], J)
  BY <1>2 DEF Trip, LegOf, OptPods, Rebound
<1>8. p # o
  BY <1>6
<1>9. t = Edit(s, a, w)
  BY <1>1, <1>2, <1>8 DEF State, Edit, u
<1>10. s.pods \in [Pods -> PodRecord(J)]
  BY <1>2, StateTyped
<1> HIDE DEF x, o
<1>11. a[p] = v /\ a[o] = u /\ (\A r \in Pods : r \notin {p, o} => a[r] = s.pods[r]) /\ a \in [Pods -> PodRecord(J)]
  BY <1>4, <1>5, <1>6, <1>8, <1>10
<1>12. w[i] = x /\ (\A k \in DOMAIN q : k # i => w[k] = q[k]) /\ w = [k \in DOMAIN q |-> w[k]]
  OBVIOUS
<1> HIDE DEF a, w
<1>13. TripOK(x, a, J)
  BY <1>2, <1>3, <1>6, <1>7, <1>11 DEF TripOK
<1>14. \A k \in DOMAIN q : k # i => q[k].pod \notin {p, o}
  BY <1>2, <1>4, <1>6 DEF o
<1>15. Edits(s, a, w, {p, o}, {i}, J)
  BY <1>5, <1>6, <1>7, <1>11, <1>12, <1>13, <1>14 DEF Edits
<1> QED
  BY <1>9, <1>15, EditedGood

\* checkPickupPair
LEMMA PairChecked ==
  ASSUME NEW n, IsJourney(J), NEW s, Good(s, J, n), NEW i \in DOMAIN s.queue, NEW t \in PairStates(s, i)
  PROVE  Dispatches(s, t, J, n)
<1>1. CASE t \in TransferStates(s, i)
  <2>1. SwapEligible(s, i)
    BY <1>1 DEF TransferStates
  <2>2. PICK p \in Pods : PickupCandidate(s, p) /\ p # s.queue[i].excluded /\ t \in Transferred(s, i, p)
    BY <1>1, <2>1 DEF TransferStates, Transferred
  <2> QED
    BY <2>1, <2>2, PickupTransferred
<1>2. CASE \E k \in DOMAIN s.queue : t \in SwapStates(s, i, k)
  BY <1>2, PickupsSwapped
<1> QED
  BY <1>1, <1>2 DEF PairStates

\* The pods that a trip may get are candidates.
LEMMA ChoicesAre ==
  ASSUME NEW s, NEW trip, NEW p \in PickupChoices(s, trip)
  PROVE  p \in Pods /\ PickupCandidate(s, p) /\ p # trip.excluded
<1> DEFINE able == {r \in Pods : PickupCandidate(s, r) /\ r # trip.excluded /\ PickupAccess(s, r, trip)}
           there == {r \in able : IdleAt(s.pods[r], LegOrigin(trip))}
<1>1. PickupChoices(s, trip) = IF there # {} THEN {Min(there)} ELSE able
  BY DEF PickupChoices
<1>2. there \in SUBSET Nat
  BY FleetAssumption DEF Pods
<1>3. there # {} => Min(there) \in there
  <2> HIDE DEF there
  <2> QED
    BY <1>2, LeastMember
<1>4. p \in able
  <2>1. there \subseteq able
    OBVIOUS
  <2> HIDE DEF there, able
  <2> QED
    BY <1>1, <1>3, <2>1
<1> QED
  BY <1>4

\* What follows an operation that keeps the invariant.
LEMMA DispatchedOn ==
  ASSUME NEW j, NEW n, NEW s, NEW t, NEW u, Dispatches(s, t, j, n), Dispatches(t, u, j, n)
  PROVE  Dispatches(s, u, j, n)
BY Chained DEF Dispatches

\* assignPickupPod
LEMMA TripAssigned ==
  ASSUME NEW n, IsJourney(J), NEW s, Good(s, J, n), NEW i \in DOMAIN s.queue, s.queue[i].pod = NoPod, NEW t \in AssignStates(s, i)
  PROVE  Dispatches(s, t, J, n)
<1> DEFINE assigned == UNION {Assigned(s, i, p) : p \in PickupChoices(s, s.queue[i])}
<1>1. \A u \in assigned : Dispatches(s, u, J, n)
  <2> SUFFICES ASSUME NEW p \in PickupChoices(s, s.queue[i]), NEW u \in Assigned(s, i, p) PROVE Dispatches(s, u, J, n)
    OBVIOUS
  <2>1. p \in Pods /\ PickupCandidate(s, p) /\ p # s.queue[i].excluded
    BY ChoicesAre
  <2> QED
    BY <2>1, PickupAssigned
<1>2. AssignStates(s, i) = assigned \cup (IF options.swaps THEN UNION {PairStates(u, i) : u \in assigned} ELSE {})
  BY DEF AssignStates, Assigned
<1> HIDE DEF assigned
<1>3. CASE t \in assigned
  BY <1>1, <1>3
<1>4. CASE \E u \in assigned : t \in PairStates(u, i)
  <2>1. PICK u \in assigned : t \in PairStates(u, i)
    BY <1>4
  <2>2. Dispatches(s, u, J, n) /\ Good(u, J, n) /\ i \in DOMAIN u.queue
    BY <1>1 DEF Dispatches
  <2>3. Dispatches(u, t, J, n)
    BY <2>1, <2>2, PairChecked
  <2> QED
    BY <2>2, <2>3, DispatchedOn
<1> QED
  BY <1>2, <1>3, <1>4

\* The trip goes on waiting.
LEMMA TripWaits ==
  ASSUME NEW n, IsJourney(J), NEW s, Good(s, J, n), NEW i \in DOMAIN s.queue, NEW t \in WaitStates(s, i) \cup {s}
  PROVE  Dispatches(s, t, J, n)
<1>1. t = s \/ \E p : t \in Deferred(s, i, p)
  <2> SUFFICES ASSUME t \in WaitStates(s, i) PROVE t = s \/ \E p : t \in Deferred(s, i, p)
    OBVIOUS
  <2>1. t = s \/ \E p \in PickupChoices(s, s.queue[i]) : t \in Deferred(s, i, p)
    BY DEF WaitStates
  <2> QED
    BY <2>1
<1>2. Dispatches(s, s, J, n)
  BY Chained DEF Dispatches
<1> QED
  BY <1>1, <1>2, TripDeferred

\* parkUnclaimedReleased
LEMMA ReleasedParked ==
  ASSUME NEW n, IsJourney(J), NEW s, Good(s, J, n), NEW t \in ParkUnclaimedReleased(s)
  PROVE  Dispatches(s, t, J, n)
<1>1. PICK f : /\ f \in [Pods -> UNION {ParkedStates(s.pods[p]) : p \in Pods}] /\ (\A p \in Pods : f[p] \in ParkedStates(s.pods[p]))
               /\ t = [s EXCEPT !.pods = f]
  BY DEF ParkUnclaimedReleased
<1>2. s \in State(J) /\ \A k \in DOMAIN s.queue : s.queue[k] \in Trip(J) /\ (s.queue[k].pod # NoPod => s.queue[k].pod \in Pods)
  BY QueueAt
<1>3. \A p \in Pods : PodGood(f[p], J) /\ Kin(s.pods[p], f[p]) /\ Keeps(s.pods[p], f[p]) /\ f[p] \in PodRecord(J)
  <2> SUFFICES ASSUME NEW p \in Pods PROVE PodGood(f[p], J) /\ Kin(s.pods[p], f[p]) /\ Keeps(s.pods[p], f[p])
    BY DEF PodGood
  <2>1. PodGood(s.pods[p], J) /\ f[p] \in ParkedStates(s.pods[p])
    BY <1>1 DEF Good
  <2> QED
    BY <2>1, PodParked
<1>4. f \in [Pods -> PodRecord(J)]
  BY <1>1, <1>3
<1>5. /\ t.pods = f /\ t.queue = s.queue
      /\ t = [pods |-> t.pods, queue |-> t.queue, completed |-> s.completed, interrupted |-> s.interrupted,
              faults |-> s.faults, emergencies |-> s.emergencies]
  BY <1>1, <1>2 DEF State
<1>6. s.queue = [k \in DOMAIN s.queue |-> s.queue[k]]
  <2>1. s.queue \in Seq(Trip(J))
    BY <1>2, StateTyped
  <2> QED
    BY <2>1
<1>7. \A k, l \in DOMAIN s.queue : k # l /\ s.queue[k].pod # NoPod => s.queue[k].pod # s.queue[l].pod
  BY QueueAt
<1>8. Rebinds(s, t, J)
  BY <1>2, <1>3, <1>4, <1>5, <1>6, <1>7 DEF Rebinds
<1> QED
  BY <1>8, ReboundGood DEF Dispatches

-----------------------------------------------------------------------------
(***************************************************************************)
(* Trips that leave the queue for a pod.                                   *)
(***************************************************************************)
\* The trip i gets aboard the pod p, and the other pods keep what they promise to the other trips.
TripBoards(s, a, i, p, j) ==
    LET q == s.queue
    IN  /\ a \in [Pods -> PodRecord(j)] /\ (\A r \in Pods : PodGood(a[r], j))
        /\ IdsOf(a[p].riders) = IdsOf(s.pods[p].riders) \cup {q[i].id}
        /\ a[p].withdrawn = s.pods[p].withdrawn /\ a[p].op = Service /\ InService(s.pods[p])
        /\ \A r \in Pods : r # p => Kin(s.pods[r], a[r]) /\ (Keeps(s.pods[r], a[r]) \/ \A k \in DOMAIN q : k # i => q[k].pod # r)
        /\ \A k \in DOMAIN q : k # i => q[k].pod # p

\* The queue without the trip i.
LEMMA TripGone ==
  ASSUME NEW n, NEW j, IsJourney(j), NEW s, Good(s, j, n), NEW i \in DOMAIN s.queue
  PROVE  /\ RemoveAt(s.queue, i) \in Seq(Trip(j)) /\ Ordered(RemoveAt(s.queue, i))
         /\ \A x \in Range(RemoveAt(s.queue, i)) : \E k \in DOMAIN s.queue : k # i /\ x = s.queue[k]
         /\ Ids(RemoveAt(s.queue, i)) = Ids(s.queue) \ {s.queue[i].id}
         /\ s.queue[i].id \in Ids(s.queue) /\ Unshared(Range(RemoveAt(s.queue, i)))
<1> DEFINE q == s.queue
           T == Trip(j)
           w == RemoveAt(q, i)
<1>1. /\ q \in Seq(T) /\ Ordered(q) /\ \A t \in T : t.id \in Nat
      /\ \A k, l \in DOMAIN q : k # l /\ q[k].pod # NoPod => q[k].pod # q[l].pod
  BY QueueAt, TripTyped
<1> HIDE DEF T
<1>2. w \in Seq(T) /\ Ordered(w) /\ Range(w) = Range(q) \ {q[i]}
  <2> HIDE DEF q
  <2>1. q \in Seq(T) /\ Ordered(q) /\ (\A t \in T : t.id \in Nat) /\ i \in DOMAIN q
    BY <1>1 DEF q
  <2> QED
    BY <2>1, TripRemoved
<1>3. /\ Ids(q) = {t.id : t \in Range(q)} /\ (\A k \in DOMAIN q : q[k] \in Range(q)) /\ \A t \in Range(q) : \E k \in DOMAIN q : t = q[k]
  <2> HIDE DEF q
  <2> QED
    BY <1>1, IdsOfTrips
<1>4. Ids(w) = {t.id : t \in Range(w)}
  <2> HIDE DEF w
  <2> QED
    BY <1>2, IdsOfTrips
<1>5. \A k, l \in DOMAIN q : k # l => q[k].id # q[l].id /\ q[k] # q[l]
  <2> HIDE DEF q
  <2> QED
    BY <1>1, OrderedDiffer
<1>6. \A x \in Range(w) : \E k \in DOMAIN q : k # i /\ x = q[k]
  BY <1>2, <1>3
<1>7. \A k \in DOMAIN q : k # i => q[k] \in Range(w)
  BY <1>2, <1>3, <1>5
<1> HIDE DEF w
<1>8. Ids(w) \subseteq Ids(q) \ {q[i].id}
  <2> SUFFICES ASSUME NEW x \in Range(w) PROVE x.id \in Ids(q) \ {q[i].id}
    BY <1>4
  <2>1. PICK k \in DOMAIN q : k # i /\ x = q[k]
    BY <1>6
  <2> QED
    BY <1>5, <2>1 DEF Ids
<1>9. Ids(q) \ {q[i].id} \subseteq Ids(w)
  <2> SUFFICES ASSUME NEW k \in DOMAIN q, q[k].id # q[i].id PROVE q[k].id \in Ids(w)
    BY DEF Ids
  <2>1. q[k] \in Range(w)
    BY <1>7
  <2> QED
    BY <1>4, <2>1
<1>10. Unshared(Range(w))
  BY <1>1, <1>6 DEF Unshared
<1>11. q[i].id \in Ids(q)
  BY DEF Ids
<1> QED
  BY <1>2, <1>6, <1>8, <1>9, <1>10, <1>11 DEF w, T

\* A trip that gets aboard leaves the queue, and the invariant stays.
LEMMA TripBoarded ==
  ASSUME NEW n, NEW j, IsJourney(j), NEW s, Good(s, j, n), NEW i \in DOMAIN s.queue, NEW p \in Pods, NEW a, TripBoards(s, a, i, p, j)
  PROVE  LET t == Edit(s, a, RemoveAt(s.queue, i)) IN Good(t, j, n) /\ HoldsStay(s, t)
<1> DEFINE q == s.queue
           w == RemoveAt(q, i)
           t == Edit(s, a, w)
           x == q[i].id
<1>1. /\ s \in State(j)
      /\ \A k \in DOMAIN q : /\ q[k] \in Trip(j) /\ TripOK(q[k], s.pods, j) /\ LegOf(q[k], j) \in Passenger
                             /\ (q[k].pod # NoPod => q[k].pod \in Pods) /\ (q[k].deferPod # NoPod => q[k].deferPod \in Pods)
  BY QueueAt
<1>2. /\ w \in Seq(Trip(j)) /\ Ordered(w) /\ (\A u \in Range(w) : \E k \in DOMAIN q : k # i /\ u = q[k])
      /\ Ids(w) = Ids(q) \ {x} /\ x \in Ids(q) /\ Unshared(Range(w))
  <2>1. /\ RemoveAt(s.queue, i) \in Seq(Trip(j)) /\ Ordered(RemoveAt(s.queue, i))
        /\ \A u \in Range(RemoveAt(s.queue, i)) : \E k \in DOMAIN s.queue : k # i /\ u = s.queue[k]
        /\ Ids(RemoveAt(s.queue, i)) = Ids(s.queue) \ {s.queue[i].id}
        /\ s.queue[i].id \in Ids(s.queue) /\ Unshared(Range(RemoveAt(s.queue, i)))
    BY TripGone
  <2> QED
    BY <2>1
<1>3. /\ t.pods = a /\ t.queue = w /\ t.completed = s.completed /\ t.interrupted = s.interrupted /\ t.faults = s.faults
      /\ t.emergencies = s.emergencies
  BY DEF Edit
<1>4. /\ a \in [Pods -> PodRecord(j)] /\ (\A r \in Pods : PodGood(a[r], j))
      /\ IdsOf(a[p].riders) = IdsOf(s.pods[p].riders) \cup {x}
      /\ a[p].withdrawn = s.pods[p].withdrawn /\ a[p].op = Service /\ InService(s.pods[p])
      /\ \A r \in Pods : r # p => Kin(s.pods[r], a[r]) /\ (Keeps(s.pods[r], a[r]) \/ \A k \in DOMAIN q : k # i => q[k].pod # r)
      /\ \A k \in DOMAIN q : k # i => q[k].pod # p
  BY DEF TripBoards
<1>5. t \in State(j)
  <2>1. /\ s.completed \in SUBSET Nat /\ s.interrupted \in SUBSET Nat
        /\ s.faults \in [Pods -> FaultRecord] /\ s.emergencies \in [Pods -> Nat]
    BY <1>1, StateTyped
  <2> QED
    BY <1>2, <1>4, <2>1 DEF State, Edit
<1> HIDE DEF t, w, x
<1>6. \A r \in Pods : a[r].withdrawn = s.pods[r].withdrawn
  BY <1>4 DEF Kin
<1>7. \A r \in Pods : Incident(a[r], s.faults[r], s.emergencies[r])
  <2> SUFFICES ASSUME NEW r \in Pods PROVE Incident(a[r], s.faults[r], s.emergencies[r])
    OBVIOUS
  <2>1. Incident(s.pods[r], s.faults[r], s.emergencies[r])
    BY DEF Good
  <2>2. r = p => a[r].op.purpose # "unload"
    BY <1>4 DEF Service
  <2>3. a[r].withdrawn = s.pods[r].withdrawn /\ (a[r].op.purpose # "unload" \/ (a[r].op = s.pods[r].op /\ a[r].riders = s.pods[r].riders))
    BY <1>4, <1>6, <2>2 DEF Kin
  <2> QED
    BY <2>1, <2>3, IncidentKept
<1>8. \A u \in Range(w) : TripOK(u, a, j)
  <2> SUFFICES ASSUME NEW k \in DOMAIN q, k # i PROVE TripOK(q[k], a, j)
    BY <1>2
  <2> DEFINE u == q[k]
  <2>1. /\ TripOK(u, s.pods, j) /\ LegOf(u, j) \in Passenger
        /\ (u.pod # NoPod => u.pod \in Pods) /\ (u.deferPod # NoPod => u.deferPod \in Pods)
    BY <1>1
  <2>2. u.pod # NoPod => Keeps(s.pods[u.pod], a[u.pod])
    BY <1>4, <2>1
  <2> HIDE DEF u
  <2>3. u.pod # NoPod => PodServes(a[u.pod], LegOf(u, j))
    BY <2>1, <2>2 DEF TripOK, Keeps
  <2>4. u.deferPod # NoPod => InService(a[u.deferPod])
    BY <1>6, <2>1 DEF TripOK, InService
  <2>5. TripOK(u, a, j)
    BY <2>1, <2>3, <2>4 DEF TripOK
  <2> QED
    BY <2>5 DEF u
<1>9. QueueGood(w, a, j)
  BY <1>2, <1>8 DEF QueueGood
<1>10. Split(n, Ids(w), s.completed, s.interrupted, Aboards(a))
  <2> DEFINE A == Aboards(s.pods)
             B == Aboards(a)
             W == Ids(q)
  <2>1. B[p] = A[p] \cup {x} /\ \A r \in Pods : r # p => B[r] = A[r]
    BY <1>4 DEF Aboards, Kin
  <2>2. Split(n, W, s.completed, s.interrupted, A)
    BY DEF Good
  <2>3. x \in W /\ Ids(w) = W \ {x}
    BY <1>2
  <2> HIDE DEF A, B, W
  <2>4. Split(n, W \ {x}, s.completed, s.interrupted, B)
    BY <2>1, <2>2, <2>3, PartyBoarded
  <2> QED
    BY <2>3, <2>4 DEF B
<1>11. Good(t, j, n)
  BY <1>3, <1>4, <1>5, <1>7, <1>9, <1>10 DEF Good
<1>12. HoldsStay(s, t)
  BY <1>3, <1>4, <1>6 DEF HoldsStay, Kin
<1> QED
  BY <1>11, <1>12 DEF t, w

\* board: the trip gets aboard its pod at the pickup.
LEMMA TripBoardsItsPod ==
  ASSUME NEW n, IsJourney(J), NEW s, Good(s, J, n), NEW i \in DOMAIN s.queue, ReadyToBoard(s, i)
  PROVE  Good(Board(s, i), J, n) /\ HoldsStay(s, Board(s, i))
<1> DEFINE q == s.queue
           trip == q[i]
           p == trip.pod
           v == s.pods[p]
           w == Boards(v, trip)
           a == [s.pods EXCEPT ![p] = w]
           station == LegOf(trip, J)
<1>1. p # NoPod /\ IdleAt(v, LegOrigin(trip))
  BY DEF ReadyToBoard
<1>2. /\ s \in State(J) /\ trip \in Trip(J) /\ TripOK(trip, s.pods, J) /\ p \in Pods
      /\ \A k, l \in DOMAIN q : k # l /\ q[k].pod # NoPod => q[k].pod # q[l].pod
  BY <1>1, QueueAt, SMTT(30)
<1>3. PodGood(v, J) /\ InService(v) /\ Active(v.riders) = {}
  BY <1>1, <1>2 DEF Good, TripOK, PodServes
<1>4. trip.id \in DOMAIN J /\ trip.leg \in Passenger \cup {NoStation} /\ LegOrigin(trip) # ToOf(trip.id)
  BY <1>2, NamesOfTrips, TripTyped DEF TripOK
<1>5. s.pods \in [Pods -> PodRecord(J)]
  BY <1>2, StateTyped
<1>6. Board(s, i) = Edit(s, a, RemoveAt(s.queue, i))
  <2> DEFINE r == [s EXCEPT !.pods[p] = Boards(@, trip)]
  <2>1. Board(s, i) = [r EXCEPT !.queue = RemoveAt(@, i)]
    BY DEF Board, RemoveTrip
  <2>2. r = Edit(s, a, s.queue)
    <3>1. r = [s EXCEPT !.pods[p] = w]
      OBVIOUS
    <3>2. s = [pods |-> s.pods, queue |-> s.queue, completed |-> s.completed, interrupted |-> s.interrupted,
               faults |-> s.faults, emergencies |-> s.emergencies]
      BY <1>2, StateTyped
    <3> HIDE DEF p, trip, w, r
    <3> QED
      BY <3>1, <3>2 DEF Edit
  <2> HIDE DEF r, a
  <2> QED
    BY <2>1, <2>2 DEF Edit
<1> HIDE DEF v, p, trip
<1>7. PodGood(w, J) /\ IdsOf(w.riders) = {trip.id} /\ w.op = Service /\ w.withdrawn = v.withdrawn
  BY <1>1, <1>3, <1>4, PodBoarded
<1> HIDE DEF w
<1>8. a[p] = w /\ (\A r \in Pods : r # p => a[r] = s.pods[r]) /\ a \in [Pods -> PodRecord(J)]
  BY <1>2, <1>5, <1>7 DEF PodGood
<1> HIDE DEF a
<1>9. IdsOf(v.riders) = {}
  BY <1>3 DEF IdsOf
<1>10. trip = q[i] /\ p = q[i].pod /\ v = s.pods[p]
  BY DEF trip, p, v
<1>11. \A r \in Pods : PodGood(a[r], J)
  BY <1>7, <1>8 DEF Good
<1>12. \A r \in Pods : r # p => Kin(s.pods[r], a[r]) /\ Keeps(s.pods[r], a[r])
  BY <1>8 DEF Kin, Keeps
<1>13. \A k \in DOMAIN q : k # i => q[k].pod # p
  BY <1>1, <1>2, <1>10, SMTT(30)
<1>14. TripBoards(s, a, i, p, J)
  BY <1>3, <1>7, <1>8, <1>9, <1>10, <1>11, <1>12, <1>13 DEF TripBoards
<1> QED
  BY <1>2, <1>6, <1>14, TripBoarded

\* The pod that takes the trip i along, with the stops.
Takes(s, i, p, stops, w) ==
    LET trip == s.queue[i]
    IN  /\ p \in Pods /\ stops \in JoinStops(s.pods[p], trip)
        /\ \/ p \in SharedRidePods(s, trip) /\ w = JoinedPod(s.pods[p], trip, stops)
           \/ p \in OnboardPods(s, trip) /\ w = AboardPod(s.pods[p], trip, stops)

\* What that leaves of the pod p.
TookAlong(s, i, p, w) ==
    /\ PodGood(w, J) /\ IdsOf(w.riders) = IdsOf(s.pods[p].riders) \cup {s.queue[i].id} /\ w.op = Service
    /\ w.withdrawn = s.pods[p].withdrawn /\ InService(s.pods[p]) /\ p \in Pods
    /\ \A k \in DOMAIN s.queue : s.queue[k].pod # p

\* The pod with the party of the trip.
LEMMA PodTakes ==
  ASSUME NEW n, IsJourney(J), NEW s, Good(s, J, n), NEW i \in DOMAIN s.queue, NEW p, NEW stops, NEW w, Takes(s, i, p, stops, w)
  PROVE  TookAlong(s, i, p, w)
<1> DEFINE q == s.queue
           trip == q[i]
           v == s.pods[p]
<1>1. p \in Pods /\ stops \in JoinStops(v, trip) /\ InService(v) /\ v.at = LegOrigin(trip)
      /\ \/ v.activity = "Boarding" /\ ~v.occupied /\ w = JoinedPod(v, trip, stops)
         \/ (v.activity = "Continuing" \/ (v.activity = "Boarding" /\ v.occupied)) /\ w = AboardPod(v, trip, stops)
  BY DEF Takes, SharedRidePods, OnboardPods
<1>2. PodGood(v, J)
  BY <1>1 DEF Good
<1>3. v.op = Service
  BY <1>1, <1>2, InServiceServes
<1>4. /\ \A k \in DOMAIN q : q[k] \in Trip(J) /\ TripOK(q[k], s.pods, J)
      /\ trip.id \in DOMAIN J /\ trip.leg \in Passenger \cup {NoStation} /\ LegOrigin(trip) # ToOf(trip.id)
  <2>1. \A k \in DOMAIN q : q[k] \in Trip(J) /\ TripOK(q[k], s.pods, J)
    BY QueueAt
  <2>2. trip \in Trip(J) /\ LegOf(trip, J) # J[trip.id].to
    BY <2>1 DEF TripOK
  <2> QED
    BY <2>1, <2>2, NamesOfTrips, TripTyped
<1>5. trip.id \notin IdsOf(v.riders)
  <2>1. trip.id \in Ids(q)
    BY DEF Ids
  <2>2. IdsOf(v.riders) = Aboards(s.pods)[p]
    BY <1>1 DEF Aboards
  <2>3. Split(n, Ids(q), s.completed, s.interrupted, Aboards(s.pods))
    BY DEF Good
  <2> QED
    BY <1>1, <2>1, <2>2, <2>3 DEF Split
<1>6. Active(v.riders) # {}
  BY <1>1, <1>2 DEF PodGood, RidersOK, MovesEmpty
<1>7. ASSUME NEW k \in DOMAIN q, q[k].pod = p PROVE FALSE
  <2>1. p # NoPod
    BY <1>1 DEF Pods, NoPod
  <2> QED
    BY <1>4, <1>6, <1>7, <2>1 DEF TripOK, PodServes
<1> HIDE DEF trip, v
<1>8. PodGood(w, J) /\ w.op = v.op /\ w.withdrawn = v.withdrawn /\ IdsOf(w.riders) = IdsOf(v.riders) \cup {trip.id}
  BY <1>1, <1>2, <1>4, <1>5, PodJoined
<1> QED
  BY <1>1, <1>3, <1>7, <1>8 DEF trip, v, TookAlong

\* The pods after the trip i has joined p and let go of its own.
JoinedPods(s, i, p, w) ==
    LET o == s.queue[i].pod
        a == [s.pods EXCEPT ![p] = w]
    IN  IF o = NoPod THEN a ELSE [a EXCEPT ![o] = ReleasePickup(a[o])]

\* The states of Joined: one pod takes the trip, which leaves the queue and lets go of its own pod.
LEMMA JoinedAre ==
  ASSUME NEW n, IsJourney(J), NEW s, Good(s, J, n), NEW i \in DOMAIN s.queue, NEW t \in Joined(s, i)
  PROVE  \E p, stops, w : Takes(s, i, p, stops, w) /\ t = Edit(s, JoinedPods(s, i, p, w), RemoveAt(s.queue, i))
<1> DEFINE trip == s.queue[i]
           shares == {p \in SharedRidePods(s, trip) : \A q \in SureShares(s, trip) : p <= q}
           aboard == UNION {{JoinAboard(s, i, p, stops) : stops \in JoinStops(s.pods[p], trip)} : p \in OnboardPods(s, trip)}
           boarding == UNION {{Join(s, i, p, stops) : stops \in JoinStops(s.pods[p], trip)} : p \in shares}
           released(u) == IF trip.pod = NoPod THEN u ELSE [u EXCEPT !.pods[trip.pod] = ReleasePickup(@)]
           all == {RemoveTrip(released(u), i) : u \in aboard \cup boarding}
<1>1. Joined(s, i) = IF PartyLimit > 1 /\ MayJoin(s, trip) THEN all ELSE {}
  BY DEF Joined
<1>2. t \in all
  <2> HIDE DEF all
  <2> QED
    BY <1>1
<1> HIDE DEF aboard, boarding
<1>3. PICK u \in aboard \cup boarding : t = RemoveTrip(released(u), i)
  BY <1>2
<1>4. PICK p, stops : /\ stops \in JoinStops(s.pods[p], trip)
                      /\ \/ p \in OnboardPods(s, trip) /\ u = JoinAboard(s, i, p, stops)
                         \/ p \in SharedRidePods(s, trip) /\ u = Join(s, i, p, stops)
  BY <1>3 DEF aboard, boarding
<1>5. p \in Pods
  BY <1>4 DEF OnboardPods, SharedRidePods
<1> DEFINE v == s.pods[p]
           w == IF p \in OnboardPods(s, trip) /\ u = JoinAboard(s, i, p, stops) THEN AboardPod(v, trip, stops) ELSE JoinedPod(v, trip, stops)
           a == [s.pods EXCEPT ![p] = w]
<1>6. s \in State(J) /\ s.pods \in [Pods -> PodRecord(J)]
  BY StateTyped DEF Good
<1>7. s = [pods |-> s.pods, queue |-> s.queue, completed |-> s.completed, interrupted |-> s.interrupted,
           faults |-> s.faults, emergencies |-> s.emergencies]
  BY <1>6, StateTyped
<1>8. Takes(s, i, p, stops, w)
  BY <1>4, <1>5 DEF Takes
<1>9. \A y : [s EXCEPT !.pods[p] = y] = Edit(s, [s.pods EXCEPT ![p] = y], s.queue)
  BY <1>7 DEF Edit
<1>10. Join(s, i, p, stops) = Edit(s, [s.pods EXCEPT ![p] = JoinedPod(v, trip, stops)], s.queue)
  BY <1>9 DEF Join, SetPod
<1>11. JoinAboard(s, i, p, stops) = Edit(s, [s.pods EXCEPT ![p] = AboardPod(v, trip, stops)], s.queue)
  BY <1>9 DEF JoinAboard, SetPod
<1>12. u = Edit(s, a, s.queue)
  BY <1>4, <1>10, <1>11
<1>13. released(u) = Edit(s, JoinedPods(s, i, p, w), s.queue)
  <2> HIDE DEF w, a, trip
  <2>1. u.pods = a
    BY <1>12 DEF Edit
  <2>2. CASE trip.pod = NoPod
    BY <1>12, <2>2 DEF JoinedPods, a, trip
  <2>3. CASE trip.pod # NoPod
    <3> DEFINE o == trip.pod
    <3>1. released(u) = [u EXCEPT !.pods[o] = ReleasePickup(u.pods[o])]
      BY <2>3
    <3>2. JoinedPods(s, i, p, w) = [a EXCEPT ![o] = ReleasePickup(a[o])]
      BY <2>3 DEF JoinedPods, a, trip
    <3> HIDE DEF o, released
    <3> QED
      BY <1>12, <2>1, <3>1, <3>2 DEF Edit
  <2> QED
    BY <2>2, <2>3
<1>14. t = Edit(s, JoinedPods(s, i, p, w), RemoveAt(s.queue, i))
  <2> DEFINE b == JoinedPods(s, i, p, w)
             r == released(u)
  <2>1. r = Edit(s, b, s.queue) /\ t = RemoveTrip(r, i)
    BY <1>3, <1>13
  <2> HIDE DEF b, r
  <2> QED
    BY <2>1 DEF RemoveTrip, Edit, b
<1> HIDE DEF w
<1> QED
  BY <1>8, <1>14

\* The trip joins a pod.
LEMMA TripJoined ==
  ASSUME NEW n, IsJourney(J), NEW s, Good(s, J, n), NEW i \in DOMAIN s.queue, NEW t \in Joined(s, i)
  PROVE  Good(t, J, n) /\ HoldsStay(s, t)
<1>1. PICK p, stops, w : Takes(s, i, p, stops, w) /\ t = Edit(s, JoinedPods(s, i, p, w), RemoveAt(s.queue, i))
  BY JoinedAre
<1> DEFINE q == s.queue
           o == q[i].pod
           a == JoinedPods(s, i, p, w)
           u == ReleasePickup(s.pods[o])
<1>2. /\ PodGood(w, J) /\ IdsOf(w.riders) = IdsOf(s.pods[p].riders) \cup {q[i].id} /\ w.op = Service
      /\ w.withdrawn = s.pods[p].withdrawn /\ InService(s.pods[p]) /\ p \in Pods
      /\ \A k \in DOMAIN q : q[k].pod # p
  <2>1. TookAlong(s, i, p, w)
    BY <1>1, PodTakes
  <2> QED
    BY <2>1 DEF TookAlong
<1>3. /\ s \in State(J) /\ s.pods \in [Pods -> PodRecord(J)] /\ (o # NoPod => o \in Pods) /\ TripOK(q[i], s.pods, J)
      /\ \A k, l \in DOMAIN q : k # l /\ q[k].pod # NoPod => q[k].pod # q[l].pod
  BY QueueAt, StateTyped
<1>4. o # NoPod => PodGood(u, J) /\ Kin(s.pods[o], u) /\ u \in PodRecord(J)
  <2>1. o # NoPod => PodGood(s.pods[o], J) /\ InService(s.pods[o])
    BY <1>3 DEF Good, TripOK, PodServes
  <2> QED
    BY <2>1, PickupDropped
<1>5. p # o
  BY <1>2
<1>6. w \in PodRecord(J)
  BY <1>2 DEF PodGood
<1>7. /\ a[p] = w /\ a \in [Pods -> PodRecord(J)] /\ (o # NoPod => a[o] = u)
      /\ \A r \in Pods : r # p /\ (o = NoPod \/ r # o) => a[r] = s.pods[r]
  <2> DEFINE c == [s.pods EXCEPT ![p] = w]
  <2>1. c[p] = w /\ (\A r \in Pods : r # p => c[r] = s.pods[r]) /\ c \in [Pods -> PodRecord(J)]
    BY <1>2, <1>3, <1>6
  <2> HIDE DEF c
  <2>2. CASE o = NoPod
    <3>1. a = c
      BY <2>2 DEF JoinedPods, c
    <3> HIDE DEF a
    <3> QED
      BY <2>1, <2>2, <3>1
  <2>3. CASE o # NoPod
    <3>1. a = [c EXCEPT ![o] = ReleasePickup(c[o])]
      BY <2>3 DEF JoinedPods, c
    <3>2. c[o] = s.pods[o]
      BY <1>3, <1>5, <2>1, <2>3
    <3>3. a = [c EXCEPT ![o] = u]
      BY <3>1, <3>2
    <3> HIDE DEF a, u, o
    <3> QED
      BY <1>2, <1>3, <1>4, <1>5, <2>1, <2>3, <3>3
  <2> QED
    BY <2>2, <2>3
<1> HIDE DEF a, u, o
<1>8. \A r \in Pods : PodGood(a[r], J)
  BY <1>2, <1>4, <1>7 DEF Good
<1>9. \A r \in Pods : r # p => Kin(s.pods[r], a[r]) /\ (Keeps(s.pods[r], a[r]) \/ \A k \in DOMAIN q : k # i => q[k].pod # r)
  <2> SUFFICES ASSUME NEW r \in Pods, r # p PROVE Kin(s.pods[r], a[r]) /\ (Keeps(s.pods[r], a[r]) \/ \A k \in DOMAIN q : k # i => q[k].pod # r)
    OBVIOUS
  <2>1. CASE r = o /\ o # NoPod
    <3>1. \A k \in DOMAIN q : k # i => q[k].pod # r
      BY <1>3, <2>1 DEF o
    <3> QED
      BY <1>4, <1>7, <2>1, <3>1
  <2>2. CASE ~(r = o /\ o # NoPod)
    <3>1. a[r] = s.pods[r]
      BY <1>7, <2>2
    <3> QED
      BY <3>1 DEF Kin, Keeps
  <2> QED
    BY <2>1, <2>2
<1>10. TripBoards(s, a, i, p, J)
  BY <1>2, <1>7, <1>8, <1>9 DEF TripBoards
<1>11. LET r == Edit(s, a, RemoveAt(s.queue, i)) IN Good(r, J, n) /\ HoldsStay(s, r)
  BY <1>2, <1>10, TripBoarded
<1> QED
  BY <1>1, <1>11 DEF a

\* The rest of the dispatch of a trip.
LEMMA TripDispatched ==
  ASSUME NEW n, IsJourney(J), NEW s, Good(s, J, n), NEW i \in DOMAIN s.queue, NEW r \in Dispatched(s, i)
  PROVE  Good(r.state, J, n) /\ HoldsStay(s, r.state)
<1> DEFINE keep == IF MayKeepHold(s, i) THEN {s} ELSE {}
           bound == IF s.queue[i].pod # NoPod THEN {s} ELSE AssignStates(s, i)
           waiting == IF s.queue[i].pod # NoPod THEN {} ELSE keep \cup WaitStates(s, i)
           first == {[state |-> IF ReadyToBoard(t, i) THEN Board(t, i) ELSE t, boarded |-> ReadyToBoard(t, i)] : t \in bound}
           second == {[state |-> t, boarded |-> FALSE] : t \in waiting}
<1>1. Dispatched(s, i) = first \cup second
  BY DEF Dispatched
<1>2. \A t \in bound : Dispatches(s, t, J, n)
  <2>1. Dispatches(s, s, J, n)
    BY Chained DEF Dispatches
  <2> QED
    BY <2>1, TripAssigned
<1>3. \A t \in waiting : Dispatches(s, t, J, n)
  <2>1. waiting \subseteq WaitStates(s, i) \cup {s}
    OBVIOUS
  <2> HIDE DEF waiting
  <2> QED
    BY <2>1, TripWaits
<1> HIDE DEF bound, waiting
<1>4. CASE r \in first
  <2>1. PICK t \in bound : r.state = IF ReadyToBoard(t, i) THEN Board(t, i) ELSE t
    BY <1>4
  <2>2. Good(t, J, n) /\ HoldsStay(s, t) /\ i \in DOMAIN t.queue
    BY <1>2 DEF Dispatches
  <2>3. ReadyToBoard(t, i) => Good(Board(t, i), J, n) /\ HoldsStay(t, Board(t, i))
    BY <2>2, TripBoardsItsPod
  <2> QED
    BY <2>1, <2>2, <2>3, Chained
<1>5. CASE r \in second
  <2>1. PICK t \in waiting : r.state = t
    BY <1>5
  <2> QED
    BY <1>3, <2>1 DEF Dispatches
<1> HIDE DEF first, second
<1> QED
  BY <1>1, <1>4, <1>5

-----------------------------------------------------------------------------
(***************************************************************************)
(* Positioning, motion, deadlines and orders.                              *)
(***************************************************************************)
\* The bound pods by index and by trip.
LEMMA BoundIs ==
  ASSUME NEW j, IsJourney(j), NEW n, NEW s, Good(s, j, n), NEW p, ~Bound(s, p)
  PROVE  \A t \in Range(s.queue) : t.pod # p
<1>1. s.queue \in Seq(Trip(j))
  BY QueueAt
<1>2. \A t \in Range(s.queue) : \E k \in DOMAIN s.queue : t = s.queue[k]
  BY <1>1, IdsOfTrips
<1> QED
  BY <1>2 DEF Bound

\* positionGuarded, yieldRelocationClaims and clearBlockedBerths move pods that no trip counts on.
LEMMA PodRepositioned ==
  ASSUME NEW j, IsJourney(j), NEW n, NEW s, Good(s, j, n), NEW p \in Pods, NEW w \in Positioned(s, p)
  PROVE  Good([s EXCEPT !.pods[p] = w], j, n) /\ Kin(s.pods[p], w)
<1> DEFINE v == s.pods[p]
<1>1. PodGood(v, j) /\ Incident(v, s.faults[p], s.emergencies[p])
  BY DEF Good
<1>2. /\ PodGood(w, j) /\ Kin(v, w) /\ InService(v)
      /\ (\A station \in Passenger : ~PodServes(v, station)) \/ ~Bound(s, p)
  BY <1>1, PodPositioned
<1>3. InService(w) /\ IdsOf(w.riders) = IdsOf(v.riders) /\ Incident(w, s.faults[p], s.emergencies[p])
  BY <1>1, <1>2, IncidentKept DEF Kin, InService
<1>4. Keeps(v, w) \/ \A t \in Range(s.queue) : t.pod # p
  BY <1>2, <1>3, BoundIs DEF Keeps
<1> QED
  BY <1>2, <1>3, <1>4, PodChanged

\* The motion of all pods.
LEMMA PodsMoved ==
  ASSUME NEW j, IsJourney(j), NEW n, NEW s, Good(s, j, n), NEW a \in [Pods -> PodRecord(j)],
         \A p \in Pods : /\ PodGood(a[p], j) /\ a[p].riders = s.pods[p].riders /\ a[p].withdrawn = s.pods[p].withdrawn
                         /\ a[p].op = s.pods[p].op \/ a[p].op = Service
                         /\ Keeps(s.pods[p], a[p])
  PROVE  Good(Edit(s, a, s.queue), j, n)
<1> DEFINE t == Edit(s, a, s.queue)
<1>1. s \in State(j) /\ QueueGood(s.queue, s.pods, j)
  BY DEF Good
<1>2. /\ t.pods = a /\ t.queue = s.queue /\ t.completed = s.completed /\ t.interrupted = s.interrupted /\ t.faults = s.faults
      /\ t.emergencies = s.emergencies
  BY DEF Edit
<1>3. t \in State(j)
  BY <1>1, StateTyped DEF State, Edit
<1> HIDE DEF t
<1>4. \A p \in Pods : Incident(a[p], s.faults[p], s.emergencies[p])
  <2> SUFFICES ASSUME NEW p \in Pods PROVE Incident(a[p], s.faults[p], s.emergencies[p])
    OBVIOUS
  <2>1. Incident(s.pods[p], s.faults[p], s.emergencies[p])
    BY DEF Good
  <2>2. a[p].op.purpose # "unload" \/ (a[p].op = s.pods[p].op /\ a[p].riders = s.pods[p].riders)
    BY DEF Service
  <2>3. a[p].withdrawn = s.pods[p].withdrawn
    OBVIOUS
  <2> QED
    BY <2>1, <2>2, <2>3, IncidentKept
<1>5. QueueGood(s.queue, a, j)
  <2>1. \A p \in Pods : InService(s.pods[p]) => InService(a[p])
    BY DEF InService
  <2> QED
    BY <1>1, <2>1, QueueKept
<1>6. Aboards(a) = Aboards(s.pods)
  BY DEF Aboards
<1>7. Good(t, j, n)
  BY <1>2, <1>3, <1>4, <1>5, <1>6 DEF Good
<1> QED
  BY <1>7 DEF t

\* The deadlines of deferrals pass.
LEMMA DeadlinesPassed ==
  ASSUME NEW j, IsJourney(j), NEW n, NEW s, Good(s, j, n), NEW over
  PROVE  Good(Expired(s, over), j, n) /\ Shrinks(s, Expired(s, over))
<1> DEFINE q == s.queue
           w == [i \in DOMAIN q |-> IF i \in over THEN [q[i] EXCEPT !.deferral = "over"] ELSE q[i]]
           t == Expired(s, over)
<1>1. s \in State(j) /\ QueueGood(q, s.pods, j) /\ q \in Seq(Trip(j)) /\ \A i \in DOMAIN q : q[i] \in Trip(j)
  BY QueueAt DEF Good
<1>2. t = Edit(s, s.pods, w)
  <2>1. s = [pods |-> s.pods, queue |-> s.queue, completed |-> s.completed, interrupted |-> s.interrupted,
             faults |-> s.faults, emergencies |-> s.emergencies]
    BY <1>1, StateTyped
  <2>2. t = [s EXCEPT !.queue = w]
    BY DEF Expired
  <2> HIDE DEF w, t
  <2> QED
    BY <2>1, <2>2 DEF Edit
<1>3. \A i \in DOMAIN q : w[i] \in Trip(j) /\ Looser(q[i], w[i])
  BY <1>1 DEF Trip, Looser
<1>4. w = [i \in DOMAIN q |-> w[i]]
  OBVIOUS
<1> HIDE DEF w, t
<1>5. Loosened(q, w, s.pods, s.pods, j)
  BY <1>3 DEF Loosened, Keeps
<1>6. QueueGood(w, s.pods, j) /\ Ids(w) = Ids(q)
  BY <1>1, <1>4, <1>5, QueueLoosened
<1>7. /\ t.pods = s.pods /\ t.queue = w /\ t.completed = s.completed /\ t.interrupted = s.interrupted /\ t.faults = s.faults
      /\ t.emergencies = s.emergencies
  BY <1>2 DEF Edit
<1>8. t \in State(j)
  BY <1>1, <1>2, <1>6, StateTyped DEF State, Edit, QueueGood
<1>9. Good(t, j, n)
  BY <1>6, <1>7, <1>8 DEF Good
<1>10. Shrinks(s, t)
  BY <1>7 DEF Shrinks
<1> QED
  BY <1>9, <1>10 DEF t

\* The trip of a new order.
NewTrip(n) == [RequeuedTrip(n + 1, NoStation) EXCEPT !.boarded = FALSE]

\* A list with one entry more.
LEMMA AppendEntries ==
  ASSUME NEW T, NEW q \in Seq(T), NEW x \in T
  PROVE  LET w == Append(q, x)
         IN  /\ w \in Seq(T) /\ DOMAIN w = DOMAIN q \cup {Len(q) + 1} /\ w[Len(q) + 1] = x /\ Len(q) \in Nat
             /\ \A k \in DOMAIN q : w[k] = q[k] /\ k \in Nat /\ k <= Len(q)
<1> DEFINE w == Append(q, x)
<1>1. Len(q) \in Nat /\ DOMAIN q = 1 .. Len(q) /\ DOMAIN w = 1 .. Len(q) + 1
  OBVIOUS
<1>2. w \in Seq(T) /\ w[Len(q) + 1] = x
  OBVIOUS
<1>3. \A k \in 1 .. Len(q) : w[k] = q[k]
  OBVIOUS
<1> HIDE DEF w
<1>4. DOMAIN w = DOMAIN q \cup {Len(q) + 1}
  BY <1>1
<1> QED
  BY <1>1, <1>2, <1>3, <1>4 DEF w

\* SubmitTripOptions: a new order joins the end of the queue.
LEMMA OrderSubmitted ==
  ASSUME NEW j, IsJourney(j), NEW n \in Nat, n + 1 \in DOMAIN j, NEW s, Good(s, j, n)
  PROVE  Good(Edit(s, s.pods, Append(s.queue, NewTrip(n))), j, n + 1)
<1> DEFINE q == s.queue
           x == NewTrip(n)
           w == Append(q, x)
           t == Edit(s, s.pods, w)
           T == Trip(j)
<1>1. /\ s \in State(j) /\ q \in Seq(T) /\ Ordered(q) /\ QueueGood(q, s.pods, j)
      /\ Split(n, Ids(q), s.completed, s.interrupted, Aboards(s.pods))
  BY QueueAt DEF Good
<1>2. /\ x \in T /\ x.id = n + 1 /\ x.pod = NoPod /\ x.deferPod = NoPod /\ LegOf(x, j) = j[n + 1].from
  BY DEF NewTrip, RequeuedTrip, Trip, LegOf, OptPods
<1>3. j[n + 1].from # j[n + 1].to
  BY JourneyOf
<1> HIDE DEF T, x
<1>4. /\ w \in Seq(T) /\ DOMAIN w = DOMAIN q \cup {Len(q) + 1} /\ w[Len(q) + 1] = x /\ Len(q) \in Nat
      /\ \A k \in DOMAIN q : w[k] = q[k] /\ k \in Nat /\ k <= Len(q)
  <2> HIDE DEF q
  <2> QED
    BY <1>1, <1>2, AppendEntries
<1> HIDE DEF w
<1>5. \A k \in DOMAIN q : q[k].id \in 1 .. n
  BY <1>1 DEF Split, Ids
<1>6. Ordered(w)
  <2> SUFFICES ASSUME NEW k \in DOMAIN w, NEW l \in DOMAIN w, k < l PROVE w[k].id < w[l].id
    BY DEF Ordered
  <2>1. k \in DOMAIN q
    BY <1>4
  <2>2. CASE l \in DOMAIN q
    BY <1>1, <1>4, <2>1, <2>2 DEF Ordered
  <2>3. CASE l = Len(q) + 1
    BY <1>2, <1>4, <1>5, <2>1, <2>3
  <2> QED
    BY <1>4, <2>2, <2>3
<1>7. Ids(w) = Ids(q) \cup {n + 1}
  BY <1>2, <1>4 DEF Ids
<1>8. \A u \in Range(w) : u \in Range(q) \/ u = x
  <2>1. \A u \in Range(w) : \E k \in DOMAIN w : u = w[k]
    BY <1>4, IdsOfTrips
  <2>2. \A k \in DOMAIN q : q[k] \in Range(q)
    BY <1>1, IdsOfTrips
  <2> QED
    BY <1>4, <2>1, <2>2
<1>9. QueueGood(w, s.pods, j)
  <2>1. TripOK(x, s.pods, j)
    BY <1>2, <1>3 DEF TripOK
  <2>2. Unshared(Range(w))
    BY <1>1, <1>2, <1>8 DEF Unshared, QueueGood
  <2> QED
    BY <1>1, <1>4, <1>6, <1>8, <2>1, <2>2 DEF QueueGood, T
<1>10. Split(n + 1, Ids(w), s.completed, s.interrupted, Aboards(s.pods))
  <2> DEFINE A == Aboards(s.pods)
             W == Ids(q)
  <2>1. Split(n, W, s.completed, s.interrupted, A)
    BY <1>1
  <2> HIDE DEF A, W
  <2>2. Split(n + 1, W \cup {n + 1}, s.completed, s.interrupted, A)
    BY <2>1, PartySubmitted
  <2> QED
    BY <1>7, <2>2 DEF A, W
<1>11. /\ t.pods = s.pods /\ t.queue = w /\ t.completed = s.completed /\ t.interrupted = s.interrupted /\ t.faults = s.faults
       /\ t.emergencies = s.emergencies
  BY DEF Edit
<1>12. t \in State(j)
  BY <1>1, <1>4, StateTyped DEF State, Edit, T
<1> HIDE DEF t
<1>13. Good(t, j, n + 1)
  BY <1>9, <1>10, <1>11, <1>12 DEF Good
<1> QED
  BY <1>13 DEF t, w, x

\* RequestJourneyOptions: a new order gets aboard the free pod at its station.
LEMMA JourneyRequested ==
  ASSUME IsJourney(J), NEW n \in Nat, n + 1 \in DOMAIN J, NEW s, Good(s, J, n), NEW p \in Pods,
         IdleAt(s.pods[p], J[n + 1].from), InService(s.pods[p]), ~Bound(s, p)
  PROVE  Good(Edit(s, [s.pods EXCEPT ![p] = Boards(@, RequeuedTrip(n + 1, NoStation))], s.queue), J, n + 1)
<1> DEFINE trip == RequeuedTrip(n + 1, NoStation)
           v == s.pods[p]
           w == Boards(v, trip)
           a == [s.pods EXCEPT ![p] = w]
           t == Edit(s, a, s.queue)
<1>1. /\ s \in State(J) /\ PodGood(v, J) /\ Incident(v, s.faults[p], s.emergencies[p]) /\ QueueGood(s.queue, s.pods, J)
      /\ Split(n, Ids(s.queue), s.completed, s.interrupted, Aboards(s.pods)) /\ s.pods \in [Pods -> PodRecord(J)]
  BY StateTyped DEF Good
<1>2. trip.id = n + 1 /\ trip.leg = NoStation
  BY DEF RequeuedTrip
<1>3. LegOrigin(trip) = J[n + 1].from /\ ToOf(trip.id) = J[n + 1].to
  BY <1>2, NamesOfTrips DEF LegOf
<1>4. LegOrigin(trip) # ToOf(trip.id)
  BY <1>3, JourneyOf
<1>5. IdleAt(v, LegOrigin(trip)) /\ InService(v)
  BY <1>3
<1> HIDE DEF trip, v
<1>6. PodGood(w, J) /\ IdsOf(w.riders) = {trip.id} /\ w.op = Service /\ w.withdrawn = v.withdrawn
  BY <1>1, <1>2, <1>4, <1>5, PodBoarded
<1>7. IdsOf(v.riders) = {}
  BY <1>1, <1>5 DEF PodGood, RidersOK, IdleAt, IdsOf
<1> HIDE DEF w
<1>8. a[p] = w /\ (\A r \in Pods : r # p => a[r] = s.pods[r]) /\ a \in [Pods -> PodRecord(J)]
  BY <1>1, <1>6 DEF PodGood
<1>9. /\ t.pods = a /\ t.queue = s.queue /\ t.completed = s.completed /\ t.interrupted = s.interrupted /\ t.faults = s.faults
      /\ t.emergencies = s.emergencies
  BY DEF Edit
<1>10. t \in State(J)
  BY <1>1, <1>8, StateTyped DEF State, Edit
<1> HIDE DEF a, t
<1>11. \A r \in Pods : PodGood(a[r], J) /\ Incident(a[r], s.faults[r], s.emergencies[r])
  <2>1. w.op.purpose # "unload"
    BY <1>6 DEF Service
  <2>2. Incident(w, s.faults[p], s.emergencies[p])
    BY <1>1, <1>6, <2>1, IncidentKept
  <2> QED
    BY <1>6, <1>8, <2>2 DEF Good
<1>12. QueueGood(s.queue, a, J)
  <2>1. \A r \in Pods : InService(s.pods[r]) => InService(a[r])
    BY <1>6, <1>8 DEF InService, v
  <2>2. \A r \in Pods : Keeps(s.pods[r], a[r]) \/ \A u \in Range(s.queue) : u.pod # r
    BY <1>8, BoundIs DEF Keeps
  <2> QED
    BY <1>1, <2>1, <2>2, QueueKept
<1>13. Split(n + 1, Ids(s.queue), s.completed, s.interrupted, Aboards(a))
  <2> DEFINE A == Aboards(s.pods)
             B == Aboards(a)
             W == Ids(s.queue)
  <2>1. B[p] = A[p] \cup {n + 1} /\ \A r \in Pods : r # p => B[r] = A[r]
    BY <1>2, <1>6, <1>7, <1>8 DEF Aboards, v
  <2>2. Split(n, W, s.completed, s.interrupted, A)
    BY <1>1
  <2> HIDE DEF A, B, W
  <2>3. Split(n + 1, W, s.completed, s.interrupted, B)
    BY <2>1, <2>2, PartySubmitted
  <2> QED
    BY <2>3 DEF B, W
<1>14. Good(t, J, n + 1)
  BY <1>9, <1>10, <1>11, <1>12, <1>13 DEF Good
<1> QED
  BY <1>14 DEF t, a, w, v, trip

-----------------------------------------------------------------------------
(***************************************************************************)
(* Faults, emergencies and restores as commands.                           *)
(***************************************************************************)
\* startPodFault
LEMMA FaultStarted ==
  ASSUME NEW j, IsJourney(j), NEW n, NEW s, Good(s, j, n), NEW p \in Pods, NEW f \in FaultRecord, NEW b \in BOOLEAN
  PROVE  LET held == WithdrawService(s, p, "fault")
             t == [held EXCEPT !.faults[p] = f, !.pods[p].braking = b]
         IN  Good(t, j, n) /\ SameParties(s, t)
<1> DEFINE hold == "fault"
           held == WithdrawService(s, p, hold)
           r == [held EXCEPT !.faults[p] = f]
           t == [r EXCEPT !.pods[p].braking = b]
<1>1. Good(held, j, n) /\ SameParties(s, held) /\ "fault" \in held.pods[p].withdrawn
  <2>1. hold \in {"fault", "emergency"} /\ (hold = "emergency" => s.emergencies[p] # 0) /\ hold = "fault"
    OBVIOUS
  <2> HIDE DEF hold
  <2> QED
    BY <2>1, ServiceWithdrawn
<1> HIDE DEF held
<1>2. Good(r, j, n) /\ SameParties(held, r)
  BY <1>1, FaultSet
<1>3. t = [held EXCEPT !.faults[p] = f, !.pods[p].braking = b]
  <2>1. held = [pods |-> held.pods, queue |-> held.queue, completed |-> held.completed, interrupted |-> held.interrupted,
                faults |-> held.faults, emergencies |-> held.emergencies]
    BY <1>1, StateTyped DEF Good
  <2> QED
    BY <2>1
<1> HIDE DEF r
<1>4. Good(t, j, n) /\ SameParties(r, t)
  BY <1>2, BrakeSet
<1> HIDE DEF t
<1>5. SameParties(s, t)
  BY <1>1, <1>2, <1>4 DEF SameParties
<1> QED
  BY <1>3, <1>4, <1>5 DEF held, hold

\* An emergency starts: its record, its hold and the first choice of its station.
LEMMA EmergencyStarted ==
  ASSUME NEW j, IsJourney(j), NEW n, NEW s, Good(s, j, n), NEW p \in Pods, s.emergencies[p] = 0, NEW e \in Nat \ {0},
         NEW choice \in {NoStation} \cup Passenger
  PROVE  LET r == [s EXCEPT !.emergencies[p] = e]
             t == AdvanceEmergency(r, p, choice)
         IN  Good(t, j, n) /\ SameParties(s, t)
<1> DEFINE r == [s EXCEPT !.emergencies[p] = e]
           t == AdvanceEmergency(r, p, choice)
<1>1. s \in State(j) /\ s.emergencies \in [Pods -> Nat]
  BY StateTyped DEF Good
<1>2. /\ r.pods = s.pods /\ r.queue = s.queue /\ r.completed = s.completed /\ r.interrupted = s.interrupted /\ r.faults = s.faults
      /\ r.emergencies = [s.emergencies EXCEPT ![p] = e]
      /\ r = [pods |-> s.pods, queue |-> s.queue, completed |-> s.completed, interrupted |-> s.interrupted,
              faults |-> s.faults, emergencies |-> [s.emergencies EXCEPT ![p] = e]]
  <2>1. s = [pods |-> s.pods, queue |-> s.queue, completed |-> s.completed, interrupted |-> s.interrupted,
             faults |-> s.faults, emergencies |-> s.emergencies]
    BY StateTyped DEF Good
  <2>2. r = [pods |-> s.pods, queue |-> s.queue, completed |-> s.completed, interrupted |-> s.interrupted,
             faults |-> s.faults, emergencies |-> [s.emergencies EXCEPT ![p] = e]]
    BY <2>1
  <2> HIDE DEF r
  <2> QED
    BY <2>2
<1>3. r \in State(j)
  BY <1>1, <1>2, StateTyped DEF State
<1> HIDE DEF r
<1>4. r.emergencies[p] = e /\ \A q \in Pods : q # p => r.emergencies[q] = s.emergencies[q]
  BY <1>1, <1>2
<1>5. Incident(s.pods[p], s.faults[p], e)
  <2>1. Incident(s.pods[p], s.faults[p], s.emergencies[p]) /\ PodGood(s.pods[p], j)
    BY DEF Good
  <2>2. s.pods[p].op.purpose # "unload"
    BY <2>1 DEF PodGood, PurposeOK, Incident
  <2> QED
    BY <2>1, <2>2 DEF Incident
<1>6. \A q \in Pods : Incident(s.pods[q], r.faults[q], r.emergencies[q])
  BY <1>2, <1>4, <1>5 DEF Good
<1>7. Good(r, j, n) /\ SameParties(s, r)
  BY <1>2, <1>3, <1>6, RecordsSet
<1>8. Good(t, j, n) /\ SameParties(r, t)
  BY <1>4, <1>7, EmergencyAdvanced
<1> HIDE DEF t
<1>9. SameParties(s, t)
  BY <1>7, <1>8 DEF SameParties
<1> QED
  BY <1>8, <1>9 DEF t, r

\* What the pods hold together.
Together(F) == UNION {F[p] : p \in Pods}
Apart(A) == \A p, q \in Pods : p # q => A[p] \cap A[q] = {}
PartyTrips(F, A, j) == \A p \in Pods : NewTrips(F[p], j) /\ NamesIn(F[p]) \subseteq A[p]
SplitsOff(A, X, Y, Z, B) ==
    \A p \in Pods : /\ X[p] \subseteq A[p] /\ Y[p] \subseteq A[p] /\ Z[p] \subseteq A[p]
                    /\ X[p] \cap Y[p] = {} /\ X[p] \cap Z[p] = {} /\ Y[p] \cap Z[p] = {}
                    /\ B[p] = A[p] \ (X[p] \cup Y[p] \cup Z[p])

\* PartiesLeft with these names.
LEMMA OrdersTogether ==
  ASSUME NEW n, NEW W, NEW C, NEW I, NEW A, Split(n, W, C, I, A), NEW X, NEW Y, NEW Z, NEW B, SplitsOff(A, X, Y, Z, B)
  PROVE  Split(n, W \cup Together(X), C \cup Together(Y), I \cup Together(Z), B)
  BY PartiesLeft DEF SplitsOff, Together

\* The trips of the parties of all pods.
LEMMA PartiesQueue ==
  ASSUME NEW j, NEW A, Apart(A), NEW F, PartyTrips(F, A, j)
  PROVE  NewTrips(Together(F), j) /\ NamesIn(Together(F)) = UNION {NamesIn(F[p]) : p \in Pods}
<1>0. (\A p, q \in Pods : p # q => A[p] \cap A[q] = {}) /\ \A p \in Pods : NewTrips(F[p], j) /\ NamesIn(F[p]) \subseteq A[p]
  BY DEF Apart, PartyTrips
<1> DEFINE all == UNION {F[p] : p \in Pods}
<1>1. \A t \in all : \E p \in Pods : t \in F[p] /\ t.id \in A[p]
  BY <1>0 DEF NamesIn
<1>2. IsFiniteSet(all)
  <2> DEFINE fam == {F[p] : p \in Pods}
             f == [p \in Pods |-> F[p]]
  <2>1. IsFiniteSet(Pods)
    BY FleetAssumption, FS_Interval DEF Pods
  <2>2. f \in Surjection(Pods, fam)
    BY DEF Surjection
  <2> HIDE DEF f
  <2>3. IsFiniteSet(fam)
    BY <2>1, <2>2, FS_Surjection
  <2>4. \A S \in fam : IsFiniteSet(S)
    BY <1>0 DEF NewTrips
  <2> HIDE DEF fam
  <2>5. IsFiniteSet(UNION fam)
    BY <2>3, <2>4, FS_UNION
  <2> QED
    BY <2>5 DEF fam
<1>3. ASSUME NEW t \in all, NEW u \in all, t # u PROVE t.id # u.id
  <2>1. PICK p \in Pods : t \in F[p] /\ t.id \in A[p]
    BY <1>1
  <2>2. PICK q \in Pods : u \in F[q] /\ u.id \in A[q]
    BY <1>1
  <2>3. CASE p = q
    BY <1>0, <1>3, <2>1, <2>2, <2>3 DEF NewTrips
  <2>4. CASE p # q
    BY <1>0, <2>1, <2>2, <2>4
  <2> QED
    BY <2>3, <2>4
<1>4. \A t \in all : t \in Trip(j) /\ t.pod = NoPod /\ t.deferPod = NoPod /\ LegOf(t, j) # j[t.id].to
  BY <1>0, <1>1 DEF NewTrips
<1>5. NamesIn(all) = UNION {NamesIn(F[p]) : p \in Pods}
  BY DEF NamesIn
<1> HIDE DEF all
<1>6. NewTrips(all, j)
  BY <1>2, <1>3, <1>4 DEF NewTrips
<1> QED
  BY <1>5, <1>6 DEF all, Together

\* A restore: the trips w let go of pods, and of each pod p the trips F[p] wait again, the orders Y[p] are completed
\* and the orders Z[p] interrupted.
Restores(s, t, w, F, Y, Z, j) ==
    /\ t \in [pods : [Pods -> PodRecord(j)], queue : {QueueAll(w, UNION {F[p] : p \in Pods})}, completed : SUBSET Nat,
              interrupted : SUBSET Nat, faults : [Pods -> FaultRecord], emergencies : [Pods -> Nat]]
    /\ w = [i \in DOMAIN s.queue |-> w[i]] /\ Loosened(s.queue, w, s.pods, t.pods, j)
    /\ \A p \in Pods : /\ PodGood(t.pods[p], j) /\ Incident(t.pods[p], t.faults[p], t.emergencies[p])
                       /\ NewTrips(F[p], j)
                       /\ LET party == IdsOf(s.pods[p].riders)
                              X == NamesIn(F[p])
                          IN  /\ X \subseteq party /\ Y[p] \subseteq party /\ Z[p] \subseteq party
                              /\ X \cap Y[p] = {} /\ X \cap Z[p] = {} /\ Y[p] \cap Z[p] = {}
                              /\ IdsOf(t.pods[p].riders) = party \ (X \cup Y[p] \cup Z[p])
    /\ t.completed = s.completed \cup UNION {Y[p] : p \in Pods}
    /\ t.interrupted = s.interrupted \cup UNION {Z[p] : p \in Pods}

\* A restore keeps the invariant.
LEMMA RestoredGood ==
  ASSUME NEW j, IsJourney(j), NEW n, NEW s, Good(s, j, n), NEW t, NEW w, NEW F, NEW Y, NEW Z, Restores(s, t, w, F, Y, Z, j)
  PROVE  Good(t, j, n)
<1> DEFINE q == s.queue
           A == Aboards(s.pods)
           B == Aboards(t.pods)
           X == [p \in Pods |-> NamesIn(F[p])]
           all == UNION {F[p] : p \in Pods}
<1>1. /\ t.pods \in [Pods -> PodRecord(j)] /\ t.queue = QueueAll(w, all) /\ t.completed \in SUBSET Nat /\ t.interrupted \in SUBSET Nat
      /\ t.faults \in [Pods -> FaultRecord] /\ t.emergencies \in [Pods -> Nat]
      /\ t = [pods |-> t.pods, queue |-> t.queue, completed |-> t.completed, interrupted |-> t.interrupted,
              faults |-> t.faults, emergencies |-> t.emergencies]
  BY DEF Restores
<1>2. w = [i \in DOMAIN q |-> w[i]] /\ Loosened(q, w, s.pods, t.pods, j)
  BY DEF Restores
<1>3. QueueGood(q, s.pods, j) /\ Split(n, Ids(q), s.completed, s.interrupted, A)
  BY DEF Good
<1>4. QueueGood(w, t.pods, j) /\ Ids(w) = Ids(q)
  BY <1>2, <1>3, QueueLoosened
<1>5. \A p \in Pods : /\ NewTrips(F[p], j) /\ NamesIn(F[p]) \subseteq A[p]
                      /\ X[p] \subseteq A[p] /\ Y[p] \subseteq A[p] /\ Z[p] \subseteq A[p]
                      /\ X[p] \cap Y[p] = {} /\ X[p] \cap Z[p] = {} /\ Y[p] \cap Z[p] = {}
                      /\ B[p] = A[p] \ (X[p] \cup Y[p] \cup Z[p])
  BY DEF Restores, Aboards
<1>6. \A p, r \in Pods : p # r => A[p] \cap A[r] = {}
  BY <1>3 DEF Split
<1>7. \A p \in Pods : X[p] = NamesIn(F[p])
  OBVIOUS
<1> HIDE DEF A, B, X
<1>8. NewTrips(all, j) /\ NamesIn(all) = UNION {NamesIn(F[p]) : p \in Pods}
  <2>1. Apart(A) /\ PartyTrips(F, A, j)
    BY <1>5, <1>6 DEF Apart, PartyTrips
  <2>2. NewTrips(Together(F), j) /\ NamesIn(Together(F)) = UNION {NamesIn(F[p]) : p \in Pods}
    BY <2>1, PartiesQueue
  <2> QED
    BY <2>2 DEF Together
<1>9. NamesIn(all) = UNION {X[p] : p \in Pods}
  BY <1>7, <1>8
<1> HIDE DEF all
<1>10. NamesIn(all) \cap Ids(w) = {}
  BY <1>3, <1>4, <1>5, <1>9 DEF Split
<1>11. QueueGood(QueueAll(w, all), t.pods, j) /\ Ids(QueueAll(w, all)) = Ids(w) \cup NamesIn(all)
  BY <1>4, <1>8, <1>10, QueueJoined
<1>12. QueueGood(t.queue, t.pods, j) /\ Ids(t.queue) = Ids(q) \cup UNION {X[p] : p \in Pods}
  BY <1>1, <1>4, <1>9, <1>11
<1>13. t.completed = s.completed \cup UNION {Y[p] : p \in Pods} /\ t.interrupted = s.interrupted \cup UNION {Z[p] : p \in Pods}
  BY DEF Restores
<1>14. Split(n, Ids(t.queue), t.completed, t.interrupted, B)
  <2> DEFINE W == Ids(q)
             C == s.completed
             I == s.interrupted
  <2>1. Split(n, W, C, I, A)
    BY <1>3
  <2> HIDE DEF W, C, I
  <2>2. SplitsOff(A, X, Y, Z, B)
    BY <1>5 DEF SplitsOff
  <2>3. Split(n, W \cup Together(X), C \cup Together(Y), I \cup Together(Z), B)
    BY <2>1, <2>2, OrdersTogether
  <2>4. Ids(t.queue) = W \cup Together(X)
    BY <1>12 DEF W, Together
  <2>5. t.completed = C \cup Together(Y) /\ t.interrupted = I \cup Together(Z)
    BY <1>13 DEF C, I, Together
  <2> QED
    BY <2>3, <2>4, <2>5
<1>15. t \in State(j)
  <2>1. t.queue \in Seq(Trip(j))
    BY <1>12 DEF QueueGood
  <2> QED
    BY <1>1, <2>1 DEF State
<1>16. \A p \in Pods : PodGood(t.pods[p], j) /\ Incident(t.pods[p], t.faults[p], t.emergencies[p])
  BY DEF Restores
<1> QED
  BY <1>12, <1>14, <1>15, <1>16 DEF Good, B

-----------------------------------------------------------------------------
(***************************************************************************)
(* The two restores.                                                       *)
(***************************************************************************)
\* The riders of a pod wait again where they boarded.
LEMMA PartyWaits ==
  ASSUME IsJourney(J), NEW v, PodGood(v, J), NEW which \in SUBSET ActiveRiders(v)
  PROVE  NewTrips(RequeuedRiders(v, which), J) /\ NamesIn(RequeuedRiders(v, which)) = IdsAt(v, which)
<1> DEFINE riders == v.riders
           legs == [k \in which |-> v.riders[k].leg]
           trips == RequeuedRiders(v, which)
<1>1. riders \in Seq(Rider(J)) /\ RiderList(riders, J)
  BY DEF PodGood, PodRecord, RidersOK
<1>2. which \in SUBSET Active(riders)
  BY ActiveIs
<1>3. \A k \in which : riders[k] \in Rider(J)
  BY <1>1, <1>2 DEF Active
<1>4. GoesOn(riders, which, legs, J)
  BY <1>1, <1>2, <1>3 DEF GoesOn, RiderList, LegOf, Rider, Active
<1>5. trips = Requeued(riders, which, legs)
  BY DEF RequeuedRiders, Requeued
<1>6. IdsAt(v, which) = IdsIn(riders, which)
  BY DEF IdsAt, IdsIn
<1> HIDE DEF legs, riders, trips
<1>7. NewTrips(Requeued(riders, which, legs), J) /\ NamesIn(Requeued(riders, which, legs)) = IdsIn(riders, which)
  BY <1>1, <1>2, <1>4, RequeuedAre
<1>8. NewTrips(trips, J) /\ NamesIn(trips) = IdsAt(v, which)
  BY <1>5, <1>6, <1>7
<1> QED
  BY <1>8 DEF trips

\* The party of a pod in a logical restore: some are interrupted, some have arrived and the others wait.
RestoredWaiting(v) == ActiveRiders(v) \ (RestoredInterrupted(v) \cup RestoredCompleted(v))

\* The three parts make up the party, and no order is in two of them.
LEMMA PartyParts ==
  ASSUME IsJourney(J), NEW v, PodGood(v, J)
  PROVE  LET X == IdsAt(v, RestoredWaiting(v))
             Y == IdsAt(v, RestoredCompleted(v))
             Z == IdsAt(v, RestoredInterrupted(v))
         IN  /\ RestoredWaiting(v) \subseteq ActiveRiders(v) /\ X \cap Y = {} /\ X \cap Z = {} /\ Y \cap Z = {}
             /\ IdsOf(v.riders) = X \cup Y \cup Z
<1> DEFINE riders == v.riders
           a == RestoredWaiting(v)
           b == RestoredCompleted(v)
           c == RestoredInterrupted(v)
<1>1. RiderList(riders, J)
  BY DEF PodGood, RidersOK
<1>2. c \subseteq ActiveRiders(v) /\ b \subseteq ActiveRiders(v) \ c /\ a = ActiveRiders(v) \ (c \cup b)
  BY DEF RestoredWaiting, RestoredCompleted, RestoredInterrupted
<1> HIDE DEF a, b, c
<1>3. a \in SUBSET Active(riders) /\ b \in SUBSET Active(riders) /\ c \in SUBSET Active(riders)
      /\ a \cap b = {} /\ a \cap c = {} /\ b \cap c = {} /\ a \cup b \cup c = Active(riders)
  BY <1>2, ActiveIs
<1> HIDE DEF riders
<1>4. IdsIn(riders, a) \cap IdsIn(riders, b) = {} /\ IdsIn(riders, a) \cap IdsIn(riders, c) = {} /\ IdsIn(riders, b) \cap IdsIn(riders, c) = {}
  BY <1>1, <1>3, IdsDiffer
<1>5. IdsOf(riders) = IdsIn(riders, a) \cup IdsIn(riders, b) \cup IdsIn(riders, c)
  BY <1>3 DEF IdsOf, IdsIn
<1>6. \A which : IdsAt(v, which) = IdsIn(riders, which)
  BY DEF IdsAt, IdsIn, riders
<1>7. IdsOf(v.riders) = IdsOf(riders)
  BY DEF riders
<1> QED
  BY <1>2, <1>4, <1>5, <1>6, <1>7 DEF a, b, c

\* The logical restore: every pod at its first berth, and everyone who was on the way waits.
LEMMA LogicallyRestored ==
  ASSUME IsJourney(J), NEW n, NEW s, Good(s, J, n)
  PROVE  Good(RestoredLogical(s), J, n) /\ \A p \in Pods : IdsOf(RestoredLogical(s).pods[p].riders) = {}
<1> DEFINE w == [i \in DOMAIN s.queue |-> UnboundTrip(s.queue[i])]
           F == [p \in Pods |-> RequeuedRiders(s.pods[p], RestoredWaiting(s.pods[p]))]
           Y == [p \in Pods |-> IdsAt(s.pods[p], RestoredCompleted(s.pods[p]))]
           Z == [p \in Pods |-> IdsAt(s.pods[p], RestoredInterrupted(s.pods[p]))]
           t == RestoredLogical(s)
<1>1. \A p \in Pods : PodGood(s.pods[p], J)
  BY DEF Good
<1>2. /\ t.pods = [p \in Pods |-> ParkedPod(Home[p])] /\ t.queue = QueueAll(w, Together(F))
      /\ t.completed = s.completed \cup Together(Y) /\ t.interrupted = s.interrupted \cup Together(Z)
      /\ t.faults = [p \in Pods |-> NoFault] /\ t.emergencies = [p \in Pods |-> 0]
      /\ t = [pods |-> t.pods, queue |-> t.queue, completed |-> t.completed, interrupted |-> t.interrupted,
              faults |-> t.faults, emergencies |-> t.emergencies]
  <2>1. Together(F) = UNION {RequeuedRiders(s.pods[p], RestoredWaiting(s.pods[p])) : p \in Pods}
    BY DEF Together
  <2>2. Together(Y) = UNION {IdsAt(s.pods[p], RestoredCompleted(s.pods[p])) : p \in Pods}
    BY DEF Together
  <2>3. Together(Z) = UNION {IdsAt(s.pods[p], RestoredInterrupted(s.pods[p])) : p \in Pods}
    BY DEF Together
  <2> HIDE DEF F, Y, Z
  <2>4. t = [pods |-> [p \in Pods |-> ParkedPod(Home[p])], queue |-> QueueAll(w, Together(F)), completed |-> s.completed \cup Together(Y),
             interrupted |-> s.interrupted \cup Together(Z), faults |-> [p \in Pods |-> NoFault], emergencies |-> [p \in Pods |-> 0]]
    BY <2>1, <2>2, <2>3 DEF RestoredLogical, RestoredWaiting
  <2> HIDE DEF t, w
  <2> QED
    BY <2>4
<1> HIDE DEF t
<1>3. \A p \in Pods : /\ PodGood(t.pods[p], J) /\ t.pods[p].op = Service /\ t.pods[p].withdrawn = {} /\ IdsOf(t.pods[p].riders) = {}
                      /\ t.pods[p] \in PodRecord(J)
  <2> SUFFICES ASSUME NEW p \in Pods
               PROVE  /\ PodGood(t.pods[p], J) /\ t.pods[p].op = Service /\ t.pods[p].withdrawn = {} /\ IdsOf(t.pods[p].riders) = {}
                      /\ t.pods[p] \in PodRecord(J)
    OBVIOUS
  <2> DEFINE home == Home[p]
             x == ParkedPod(home)
  <2>1. home \in Stations /\ t.pods[p] = x
    BY <1>2, FleetAssumption
  <2> HIDE DEF home
  <2>2. PodGood(x, J) /\ IdsOf(x.riders) = {} /\ x.withdrawn = {} /\ x.op = Service
    BY <2>1, PodAtHome
  <2> HIDE DEF x
  <2> QED
    BY <2>1, <2>2 DEF PodGood
<1>4. \A p \in Pods : Incident(t.pods[p], t.faults[p], t.emergencies[p])
  <2> SUFFICES ASSUME NEW p \in Pods PROVE Incident(t.pods[p], t.faults[p], t.emergencies[p])
    OBVIOUS
  <2> DEFINE v == t.pods[p]
  <2>1. t.faults[p] = NoFault /\ t.emergencies[p] = 0
    BY <1>2
  <2>2. v.withdrawn = {} /\ v.op.purpose # "unload"
    BY <1>3 DEF Service
  <2> HIDE DEF v
  <2>3. Incident(v, NoFault, 0)
    BY <2>2 DEF Incident
  <2> QED
    BY <2>1, <2>3 DEF v
<1>5. \A p \in Pods : /\ NewTrips(F[p], J) /\ NamesIn(F[p]) = IdsAt(s.pods[p], RestoredWaiting(s.pods[p]))
                      /\ LET X == NamesIn(F[p])
                         IN  X \cap Y[p] = {} /\ X \cap Z[p] = {} /\ Y[p] \cap Z[p] = {} /\ IdsOf(s.pods[p].riders) = X \cup Y[p] \cup Z[p]
  <2> SUFFICES ASSUME NEW p \in Pods
               PROVE  /\ NewTrips(F[p], J) /\ NamesIn(F[p]) = IdsAt(s.pods[p], RestoredWaiting(s.pods[p]))
                      /\ LET X == NamesIn(F[p])
                         IN  X \cap Y[p] = {} /\ X \cap Z[p] = {} /\ Y[p] \cap Z[p] = {} /\ IdsOf(s.pods[p].riders) = X \cup Y[p] \cup Z[p]
    OBVIOUS
  <2> DEFINE v == s.pods[p]
             which == RestoredWaiting(v)
  <2>1. F[p] = RequeuedRiders(v, which) /\ Y[p] = IdsAt(v, RestoredCompleted(v)) /\ Z[p] = IdsAt(v, RestoredInterrupted(v)) /\ PodGood(v, J)
    BY <1>1
  <2> HIDE DEF v, F, Y, Z
  <2>2. /\ RestoredWaiting(v) \subseteq ActiveRiders(v)
        /\ IdsAt(v, RestoredWaiting(v)) \cap IdsAt(v, RestoredCompleted(v)) = {}
        /\ IdsAt(v, RestoredWaiting(v)) \cap IdsAt(v, RestoredInterrupted(v)) = {}
        /\ IdsAt(v, RestoredCompleted(v)) \cap IdsAt(v, RestoredInterrupted(v)) = {}
        /\ IdsOf(v.riders) = IdsAt(v, RestoredWaiting(v)) \cup IdsAt(v, RestoredCompleted(v)) \cup IdsAt(v, RestoredInterrupted(v))
    BY <2>1, PartyParts
  <2>3. which \in SUBSET ActiveRiders(v)
    BY <2>2
  <2> HIDE DEF which
  <2>4. NewTrips(RequeuedRiders(v, which), J) /\ NamesIn(RequeuedRiders(v, which)) = IdsAt(v, which)
    BY <2>1, <2>3, PartyWaits
  <2> QED
    BY <2>1, <2>2, <2>4 DEF v, which
<1> HIDE DEF F, Y, Z
<1>6. /\ w = [i \in DOMAIN s.queue |-> w[i]] /\ Loosened(s.queue, w, s.pods, t.pods, J)
  <2>1. \A i \in DOMAIN s.queue : s.queue[i] \in Trip(J) /\ w[i] = UnboundTrip(s.queue[i])
    BY DEF Good, QueueGood
  <2>2. \A i \in DOMAIN s.queue : /\ w[i] \in Trip(J) /\ w[i].pod = NoPod /\ w[i].deferPod = NoPod
                                  /\ w[i].id = s.queue[i].id /\ w[i].leg = s.queue[i].leg
    <3> SUFFICES ASSUME NEW trip \in Trip(J)
                 PROVE  LET x == UnboundTrip(trip) IN x \in Trip(J) /\ x.pod = NoPod /\ x.deferPod = NoPod /\ x.id = trip.id /\ x.leg = trip.leg
      BY <2>1
    <3> QED
      BY DEF UnboundTrip, Trip, OptPods
  <2>3. w = [i \in DOMAIN s.queue |-> w[i]]
    OBVIOUS
  <2> HIDE DEF w
  <2> QED
    BY <2>2, <2>3 DEF Loosened, Looser
<1> HIDE DEF w
<1>7. Restores(s, t, w, F, Y, Z, J)
  <2>1. /\ t.pods \in [Pods -> PodRecord(J)] /\ t.faults \in [Pods -> FaultRecord] /\ t.emergencies \in [Pods -> Nat]
    BY <1>2, <1>3 DEF FaultRecord, NoFault
  <2>2. t.completed \in SUBSET Nat /\ t.interrupted \in SUBSET Nat
    <3>1. \A p \in Pods : IdsOf(s.pods[p].riders) \subseteq Nat
      <4> SUFFICES ASSUME NEW p \in Pods, NEW k \in Active(s.pods[p].riders) PROVE s.pods[p].riders[k].id \in Nat
        BY DEF IdsOf
      <4>1. s.pods[p].riders \in Seq(Rider(J))
        BY <1>1 DEF PodGood, PodRecord
      <4>2. s.pods[p].riders[k] \in Rider(J)
        BY <4>1 DEF Active
      <4> QED
        BY <4>2, JourneyOf DEF Rider
    <3>2. s.completed \in SUBSET Nat /\ s.interrupted \in SUBSET Nat
      BY StateTyped DEF Good
    <3>3. \A p \in Pods : Y[p] \subseteq Nat /\ Z[p] \subseteq Nat
      BY <1>5, <3>1
    <3> QED
      BY <1>2, <3>2, <3>3 DEF Together
  <2>3. t \in [pods : [Pods -> PodRecord(J)], queue : {QueueAll(w, UNION {F[p] : p \in Pods})}, completed : SUBSET Nat,
               interrupted : SUBSET Nat, faults : [Pods -> FaultRecord], emergencies : [Pods -> Nat]]
    BY <1>2, <2>1, <2>2 DEF Together
  <2>4. t.completed = s.completed \cup UNION {Y[p] : p \in Pods} /\ t.interrupted = s.interrupted \cup UNION {Z[p] : p \in Pods}
    BY <1>2 DEF Together
  <2>5. \A p \in Pods :
            LET party == IdsOf(s.pods[p].riders)
                X == NamesIn(F[p])
            IN  /\ X \subseteq party /\ Y[p] \subseteq party /\ Z[p] \subseteq party
                /\ X \cap Y[p] = {} /\ X \cap Z[p] = {} /\ Y[p] \cap Z[p] = {}
                /\ IdsOf(t.pods[p].riders) = party \ (X \cup Y[p] \cup Z[p])
    BY <1>3, <1>5
  <2> QED
    BY <1>3, <1>4, <1>5, <1>6, <2>3, <2>4, <2>5 DEF Restores
<1>8. Good(t, J, n)
  BY <1>7, RestoredGood
<1> QED
  BY <1>3, <1>8 DEF t

\* No trips at all.
LEMMA NoTrips == \A j : NewTrips({}, j) /\ NamesIn({}) = {}
  BY FS_EmptySet DEF NewTrips, NamesIn

\* A pod that a physical restore moves to a station has no operation under way.
LEMMA DemotedPod ==
  ASSUME IsJourney(J), NEW n, NEW s, Good(s, J, n), NEW p \in Demotable(s), NEW x \in Placements(s, s.pods[p])
  PROVE  /\ PodGood(x.pod, J) /\ Incident(x.pod, s.faults[p], s.emergencies[p]) /\ x.pod.withdrawn = s.pods[p].withdrawn
         /\ NewTrips(x.requeued, J) /\ NamesIn(x.requeued) \subseteq IdsOf(s.pods[p].riders)
         /\ IdsOf(x.pod.riders) = IdsOf(s.pods[p].riders) \ NamesIn(x.requeued)
<1> DEFINE v == s.pods[p]
           f == s.faults[p]
           e == s.emergencies[p]
           y == x.pod
           z == x.requeued
<1>1. PodGood(v, J) /\ Incident(v, f, e) /\ e = 0 /\ v.activity \in {"Boarding", "DepartingEmpty", "Continuing", "Traveling"}
  BY DEF Good, Demotable
<1>2. x \in Placements(s, v)
  OBVIOUS
<1> HIDE DEF v, f, e
<1>3. v.op.purpose # "unload"
  BY <1>1 DEF PodGood, PurposeOK, Incident
<1>4. /\ PodGood(y, J) /\ y.withdrawn = v.withdrawn /\ y.op = Service
      /\ \/ IdsOf(y.riders) = {} /\ z = RequeuedRiders(v, ActiveRiders(v))
         \/ IdsOf(y.riders) = IdsOf(v.riders) /\ z = {}
  <2>1. /\ PodGood(x.pod, J) /\ x.pod.withdrawn = v.withdrawn /\ x.pod.op = Service
        /\ \/ IdsOf(x.pod.riders) = {} /\ x.requeued = RequeuedRiders(v, ActiveRiders(v))
           \/ IdsOf(x.pod.riders) = IdsOf(v.riders) /\ x.requeued = {}
    BY <1>1, <1>2, <1>3, PodPlaced
  <2> QED
    BY <2>1
<1> HIDE DEF y, z
<1>5. Incident(y, f, e)
  <2>1. y.op.purpose # "unload"
    BY <1>4 DEF Service
  <2> QED
    BY <1>1, <1>4, <2>1, IncidentKept
<1>6. NewTrips(z, J) /\ NamesIn(z) \subseteq IdsOf(v.riders) /\ IdsOf(y.riders) = IdsOf(v.riders) \ NamesIn(z)
  <2>1. CASE IdsOf(y.riders) = {} /\ z = RequeuedRiders(v, ActiveRiders(v))
    <3> DEFINE which == ActiveRiders(v)
    <3>1. which \in SUBSET ActiveRiders(v) /\ IdsAt(v, which) = IdsOf(v.riders)
      BY ActiveIs
    <3> HIDE DEF which
    <3>2. NewTrips(RequeuedRiders(v, which), J) /\ NamesIn(RequeuedRiders(v, which)) = IdsAt(v, which)
      BY <1>1, <3>1, PartyWaits
    <3>3. NewTrips(z, J) /\ NamesIn(z) = IdsOf(v.riders)
      BY <2>1, <3>1, <3>2 DEF which
    <3> QED
      BY <2>1, <3>3
  <2>2. CASE IdsOf(y.riders) = IdsOf(v.riders) /\ z = {}
    BY <2>2, NoTrips
  <2> QED
    BY <1>4, <2>1, <2>2
<1> QED
  BY <1>4, <1>5, <1>6 DEF v, f, e, y, z

\* A pod that a physical restore keeps, with or without the release of its pickup.
LEMMA KeptAfter ==
  ASSUME NEW j, NEW v, PodGood(v, j), NEW f, NEW e, Incident(v, f, e), NEW w, w = KeptPod(v) \/ (w = ReleasePickup(KeptPod(v)) /\ InService(v))
  PROVE  /\ PodGood(w, j) /\ Incident(w, f, e) /\ w.withdrawn = v.withdrawn /\ w.riders = v.riders
         /\ w = KeptPod(v) => Keeps(v, w)
<1> DEFINE u == KeptPod(v)
<1>1. PodGood(u, j) /\ Kin(v, u) /\ Keeps(v, u)
  BY PodKept
<1>2. w = u \/ (w = ReleasePickup(u) /\ InService(v))
  OBVIOUS
<1> HIDE DEF u
<1>3. PodGood(w, j) /\ w.riders = u.riders /\ w.withdrawn = u.withdrawn /\ w.op = u.op
  <2>1. CASE w = u
    BY <1>1, <2>1
  <2>2. CASE w = ReleasePickup(u) /\ InService(v)
    <3>1. InService(u)
      BY <1>1, <2>2 DEF Kin, InService
    <3>2. u.op.purpose # "recovery"
      BY <1>1, <3>1, InServiceServes
    <3>3. PodGood(ReleasePickup(u), j) /\ ReleasePickup(u).riders = u.riders
      BY <1>1, <3>2, PickupReleased
    <3>4. u \in PodRecord(j)
      BY <1>1 DEF PodGood
    <3>5. ReleasePickup(u).withdrawn = u.withdrawn /\ ReleasePickup(u).op = u.op
      BY <3>4 DEF ReleasePickup, PodRecord
    <3> QED
      BY <2>2, <3>3, <3>5
  <2> QED
    BY <1>2, <2>1, <2>2
<1>4. w.riders = v.riders /\ w.withdrawn = v.withdrawn /\ w.op = v.op
  BY <1>1, <1>3 DEF Kin
<1>5. Incident(w, f, e)
  BY <1>4, IncidentKept
<1> QED
  BY <1>1, <1>3, <1>4, <1>5 DEF u

\* The trips after a physical restore: those that name a demoted pod let it go.
LEMMA RestoredTripIs ==
  ASSUME NEW j, NEW trip \in Trip(j), NEW demoted
  PROVE  LET u == RestoredTrip(trip, demoted)
         IN  /\ u \in Trip(j) /\ Looser(trip, u)
             /\ u.pod # NoPod => u.pod = trip.pod /\ u.pod \notin demoted
             /\ u.deferPod # NoPod => u.deferPod = trip.deferPod /\ u.deferPod \notin demoted
<1>1. CASE {trip.pod, trip.deferPod} \cap demoted = {}
  BY <1>1 DEF RestoredTrip, Looser
<1>2. CASE {trip.pod, trip.deferPod} \cap demoted # {}
  <2>1. RestoredTrip(trip, demoted) = UnboundTrip(trip)
    BY <1>2 DEF RestoredTrip
  <2>2. LET u == UnboundTrip(trip) IN u \in Trip(j) /\ u.pod = NoPod /\ u.deferPod = NoPod /\ u.id = trip.id /\ u.leg = trip.leg
    BY DEF UnboundTrip, Trip, OptPods
  <2> QED
    BY <2>1, <2>2 DEF Looser
<1> QED
  BY <1>1, <1>2

\* A physical restore: the demoted pods are placed anew, the others stay, and their pickups are released where
\* a trip let them go.
RestoredQueue(q, demoted) == [i \in DOMAIN q |-> RestoredTrip(q[i], demoted)]
RestoredOrphans(q, w) == {q[i].pod : i \in {i \in DOMAIN w : w[i].pod # q[i].pod}} \ {w[i].pod : i \in DOMAIN w}
RestoredPods(s, demoted, placed, orphans) ==
    [p \in Pods |-> IF p \in demoted THEN placed[p].pod
                    ELSE IF p \in orphans THEN ReleasePickup(KeptPod(s.pods[p])) ELSE KeptPod(s.pods[p])]

\* RestoredPhysical by its parts.
LEMMA PhysicalIs ==
  ASSUME NEW j, NEW s, s \in State(j), NEW demoted \in SUBSET Pods, NEW placed
  PROVE  LET w == RestoredQueue(s.queue, demoted)
             F == [p \in Pods |-> IF p \in demoted THEN placed[p].requeued ELSE {}]
             t == RestoredPhysical(s, demoted, placed)
         IN  /\ t.pods = RestoredPods(s, demoted, placed, RestoredOrphans(s.queue, w)) /\ t.queue = QueueAll(w, Together(F))
             /\ t.completed = s.completed /\ t.interrupted = s.interrupted /\ t.faults = s.faults /\ t.emergencies = s.emergencies
             /\ t = [pods |-> t.pods, queue |-> t.queue, completed |-> t.completed, interrupted |-> t.interrupted,
                     faults |-> t.faults, emergencies |-> t.emergencies]
<1> DEFINE w == RestoredQueue(s.queue, demoted)
           F == [p \in Pods |-> IF p \in demoted THEN placed[p].requeued ELSE {}]
           t == RestoredPhysical(s, demoted, placed)
           vehicles == RestoredPods(s, demoted, placed, RestoredOrphans(s.queue, w))
<1>1. Together(F) = UNION {placed[p].requeued : p \in demoted}
  <2>1. \A x : x \in Together(F) <=> \E p \in Pods : x \in F[p]
    BY DEF Together
  <2>2. \A p \in Pods : F[p] = IF p \in demoted THEN placed[p].requeued ELSE {}
    OBVIOUS
  <2> HIDE DEF F
  <2>3. \A x : x \in UNION {placed[p].requeued : p \in demoted} <=> \E p \in demoted : x \in placed[p].requeued
    OBVIOUS
  <2>4. \A x : x \in Together(F) <=> x \in UNION {placed[p].requeued : p \in demoted}
    BY <2>1, <2>2, <2>3
  <2> QED
    BY <2>4
<1>2. s = [pods |-> s.pods, queue |-> s.queue, completed |-> s.completed, interrupted |-> s.interrupted,
           faults |-> s.faults, emergencies |-> s.emergencies]
  BY StateTyped
<1>3. t = [s EXCEPT !.pods = vehicles, !.queue = QueueAll(w, Together(F))]
  <2> HIDE DEF F
  <2> QED
    BY <1>1 DEF RestoredPhysical, RestoredPods, RestoredOrphans, RestoredQueue, KeptPod
<1> HIDE DEF t, vehicles, F, w
<1>4. t = [pods |-> vehicles, queue |-> QueueAll(w, Together(F)), completed |-> s.completed, interrupted |-> s.interrupted,
           faults |-> s.faults, emergencies |-> s.emergencies]
  BY <1>2, <1>3
<1>5. /\ t.pods = vehicles /\ t.queue = QueueAll(w, Together(F))
      /\ t.completed = s.completed /\ t.interrupted = s.interrupted /\ t.faults = s.faults /\ t.emergencies = s.emergencies
      /\ t = [pods |-> t.pods, queue |-> t.queue, completed |-> t.completed, interrupted |-> t.interrupted,
              faults |-> t.faults, emergencies |-> t.emergencies]
  BY <1>4
<1> QED
  BY <1>5 DEF t, vehicles, F, w

\* The physical restore keeps the invariant, and nobody gets aboard.
LEMMA PhysicallyRestored ==
  ASSUME IsJourney(J), NEW n, NEW s, Good(s, J, n), NEW demoted \in SUBSET Demotable(s), NEW placed,
         \A p \in demoted : placed[p] \in Placements(s, s.pods[p])
  PROVE  Good(RestoredPhysical(s, demoted, placed), J, n) /\ Shrinks(s, RestoredPhysical(s, demoted, placed))
<1> DEFINE q == s.queue
           w == RestoredQueue(q, demoted)
           orphans == RestoredOrphans(q, w)
           F == [p \in Pods |-> IF p \in demoted THEN placed[p].requeued ELSE {}]
           Y == [p \in Pods |-> {}]
           t == RestoredPhysical(s, demoted, placed)
<1>1. s \in State(J) /\ QueueGood(q, s.pods, J) /\ demoted \in SUBSET Pods
  BY DEF Good, Demotable
<1>2. /\ t.pods = RestoredPods(s, demoted, placed, orphans) /\ t.queue = QueueAll(w, Together(F))
      /\ t.completed = s.completed /\ t.interrupted = s.interrupted /\ t.faults = s.faults /\ t.emergencies = s.emergencies
      /\ t = [pods |-> t.pods, queue |-> t.queue, completed |-> t.completed, interrupted |-> t.interrupted,
              faults |-> t.faults, emergencies |-> t.emergencies]
  BY <1>1, PhysicalIs
<1> HIDE DEF t
<1>3. \A p \in Pods : t.pods[p] = IF p \in demoted THEN placed[p].pod
                                  ELSE IF p \in orphans THEN ReleasePickup(KeptPod(s.pods[p])) ELSE KeptPod(s.pods[p])
  BY <1>2 DEF RestoredPods
<1>4. \A i \in DOMAIN q : /\ q[i] \in Trip(J) /\ q[i] \in Range(q) /\ w[i] = RestoredTrip(q[i], demoted)
  <2>1. q \in Seq(Trip(J))
    BY <1>1 DEF QueueGood
  <2> DEFINE T == Trip(J)
  <2>2. \A i \in DOMAIN q : q[i] \in Range(q) /\ q[i] \in T
    <3> HIDE DEF T
    <3> QED
      BY <2>1, IdsOfTrips DEF T
  <2> QED
    BY <2>2 DEF RestoredQueue
<1>5. \A i \in DOMAIN q : /\ w[i] \in Trip(J) /\ Looser(q[i], w[i])
                          /\ w[i].pod # NoPod => w[i].pod = q[i].pod /\ w[i].pod \notin demoted
                          /\ w[i].deferPod # NoPod => w[i].deferPod = q[i].deferPod /\ w[i].deferPod \notin demoted
  <2> SUFFICES ASSUME NEW i \in DOMAIN q
               PROVE  /\ w[i] \in Trip(J) /\ Looser(q[i], w[i])
                      /\ w[i].pod # NoPod => w[i].pod = q[i].pod /\ w[i].pod \notin demoted
                      /\ w[i].deferPod # NoPod => w[i].deferPod = q[i].deferPod /\ w[i].deferPod \notin demoted
    OBVIOUS
  <2> DEFINE trip == q[i]
  <2>1. trip \in Trip(J) /\ w[i] = RestoredTrip(trip, demoted)
    BY <1>4
  <2> HIDE DEF trip, w
  <2>2. LET u == RestoredTrip(trip, demoted)
        IN  /\ u \in Trip(J) /\ Looser(trip, u)
            /\ u.pod # NoPod => u.pod = trip.pod /\ u.pod \notin demoted
            /\ u.deferPod # NoPod => u.deferPod = trip.deferPod /\ u.deferPod \notin demoted
    BY <2>1, RestoredTripIs
  <2> QED
    BY <2>1, <2>2 DEF trip
<1>6. w = [i \in DOMAIN q |-> w[i]] /\ DOMAIN w = DOMAIN q
  BY DEF RestoredQueue
<1>7. \A p \in orphans : /\ \A i \in DOMAIN q : w[i].pod # p
                         /\ \E i \in DOMAIN q : q[i].pod = p /\ p # NoPod
  <2> SUFFICES ASSUME NEW p \in orphans PROVE (\A i \in DOMAIN q : w[i].pod # p) /\ \E i \in DOMAIN q : q[i].pod = p /\ p # NoPod
    OBVIOUS
  <2>1. \A i \in DOMAIN w : w[i].pod # p
    BY DEF RestoredOrphans
  <2>2. PICK i \in DOMAIN w : w[i].pod # q[i].pod /\ q[i].pod = p
    BY DEF RestoredOrphans
  <2>3. q[i] \in Trip(J) /\ w[i] = RestoredTrip(q[i], demoted) /\ i \in DOMAIN q
    BY <1>4, <1>6, <2>2
  <2>4. w[i].pod = NoPod
    BY <1>5, <2>2, <2>3
  <2> QED
    BY <1>6, <2>1, <2>2, <2>3, <2>4
<1>8. \A p \in Pods : p \in orphans => InService(s.pods[p])
  <2> SUFFICES ASSUME NEW p \in Pods, p \in orphans PROVE InService(s.pods[p])
    OBVIOUS
  <2>1. PICK i \in DOMAIN q : q[i].pod = p /\ p # NoPod
    BY <1>7
  <2>2. TripOK(q[i], s.pods, J)
    BY <1>1, <1>4, <2>1 DEF QueueGood
  <2> QED
    BY <2>1, <2>2 DEF TripOK, PodServes
<1> HIDE DEF w, orphans
<1>9. \A p \in demoted : /\ PodGood(t.pods[p], J) /\ Incident(t.pods[p], t.faults[p], t.emergencies[p]) /\ t.pods[p].withdrawn = s.pods[p].withdrawn
                         /\ NewTrips(F[p], J) /\ NamesIn(F[p]) \subseteq IdsOf(s.pods[p].riders)
                         /\ IdsOf(t.pods[p].riders) = IdsOf(s.pods[p].riders) \ NamesIn(F[p])
  <2> SUFFICES ASSUME NEW p \in demoted
               PROVE  /\ PodGood(t.pods[p], J) /\ Incident(t.pods[p], t.faults[p], t.emergencies[p]) /\ t.pods[p].withdrawn = s.pods[p].withdrawn
                      /\ NewTrips(F[p], J) /\ NamesIn(F[p]) \subseteq IdsOf(s.pods[p].riders)
                      /\ IdsOf(t.pods[p].riders) = IdsOf(s.pods[p].riders) \ NamesIn(F[p])
    OBVIOUS
  <2> DEFINE x == placed[p]
  <2>1. x \in Placements(s, s.pods[p]) /\ p \in Pods /\ p \in Demotable(s)
    BY <1>1
  <2>2. t.pods[p] = x.pod /\ F[p] = x.requeued
    BY <1>3, <2>1
  <2> HIDE DEF x, F
  <2>3. /\ PodGood(x.pod, J) /\ Incident(x.pod, s.faults[p], s.emergencies[p]) /\ x.pod.withdrawn = s.pods[p].withdrawn
        /\ NewTrips(x.requeued, J) /\ NamesIn(x.requeued) \subseteq IdsOf(s.pods[p].riders)
        /\ IdsOf(x.pod.riders) = IdsOf(s.pods[p].riders) \ NamesIn(x.requeued)
    BY <2>1, DemotedPod
  <2> QED
    BY <1>2, <2>2, <2>3
<1>10. \A p \in Pods \ demoted : /\ PodGood(t.pods[p], J) /\ Incident(t.pods[p], t.faults[p], t.emergencies[p])
                                 /\ t.pods[p].withdrawn = s.pods[p].withdrawn /\ t.pods[p].riders = s.pods[p].riders
                                 /\ p \notin orphans => Keeps(s.pods[p], t.pods[p])
                                 /\ F[p] = {}
  <2> SUFFICES ASSUME NEW p \in Pods \ demoted
               PROVE  /\ PodGood(t.pods[p], J) /\ Incident(t.pods[p], t.faults[p], t.emergencies[p])
                      /\ t.pods[p].withdrawn = s.pods[p].withdrawn /\ t.pods[p].riders = s.pods[p].riders
                      /\ p \notin orphans => Keeps(s.pods[p], t.pods[p])
                      /\ F[p] = {}
    OBVIOUS
  <2> DEFINE v == s.pods[p]
             x == t.pods[p]
             f == s.faults[p]
             e == s.emergencies[p]
  <2>1. PodGood(v, J) /\ Incident(v, f, e) /\ F[p] = {}
    BY DEF Good
  <2>2. (x = KeptPod(v) \/ (x = ReleasePickup(KeptPod(v)) /\ InService(v))) /\ (p \notin orphans => x = KeptPod(v))
    BY <1>3, <1>8
  <2>3. t.faults[p] = f /\ t.emergencies[p] = e
    BY <1>2
  <2> HIDE DEF v, x, f, e, F
  <2>4. /\ PodGood(x, J) /\ Incident(x, f, e) /\ x.withdrawn = v.withdrawn /\ x.riders = v.riders
        /\ x = KeptPod(v) => Keeps(v, x)
    BY <2>1, <2>2, KeptAfter
  <2> QED
    BY <2>1, <2>2, <2>3, <2>4 DEF v, x
<1>11. \A p \in Pods : /\ PodGood(t.pods[p], J) /\ Incident(t.pods[p], t.faults[p], t.emergencies[p])
                       /\ t.pods[p].withdrawn = s.pods[p].withdrawn
                       /\ NewTrips(F[p], J) /\ NamesIn(F[p]) \subseteq IdsOf(s.pods[p].riders)
                       /\ IdsOf(t.pods[p].riders) = IdsOf(s.pods[p].riders) \ NamesIn(F[p])
  <2> HIDE DEF F
  <2> QED
    BY <1>9, <1>10, NoTrips
<1>12. Loosened(q, w, s.pods, t.pods, J)
  <2> SUFFICES ASSUME NEW i \in DOMAIN q
               PROVE  /\ w[i] \in Trip(J) /\ Looser(q[i], w[i])
                      /\ w[i].pod # NoPod => Keeps(s.pods[w[i].pod], t.pods[w[i].pod])
                      /\ w[i].deferPod # NoPod => (InService(s.pods[w[i].deferPod]) => InService(t.pods[w[i].deferPod]))
    BY DEF Loosened
  <2>1. /\ w[i] \in Trip(J) /\ Looser(q[i], w[i])
        /\ w[i].pod # NoPod => w[i].pod \in Pods \ demoted /\ w[i].pod \notin orphans
        /\ w[i].deferPod # NoPod => w[i].deferPod \in Pods
    <3>1. w[i] \in Trip(J)
      BY <1>5
    <3>2. (w[i].pod # NoPod => w[i].pod \in Pods) /\ (w[i].deferPod # NoPod => w[i].deferPod \in Pods)
      BY <3>1, TripTyped
    <3> QED
      BY <1>5, <1>7, <3>2
  <2>2. w[i].pod # NoPod => Keeps(s.pods[w[i].pod], t.pods[w[i].pod])
    BY <1>10, <2>1
  <2>3. w[i].deferPod # NoPod => (InService(s.pods[w[i].deferPod]) => InService(t.pods[w[i].deferPod]))
    BY <1>11, <2>1 DEF InService
  <2> QED
    BY <2>1, <2>2, <2>3
<1>13. /\ t.pods \in [Pods -> PodRecord(J)] /\ t.faults \in [Pods -> FaultRecord] /\ t.emergencies \in [Pods -> Nat]
       /\ t.completed \in SUBSET Nat /\ t.interrupted \in SUBSET Nat
  <2>1. \A p \in Pods : t.pods[p] \in PodRecord(J)
    BY <1>11 DEF PodGood
  <2>2. t.pods = [p \in Pods |-> t.pods[p]]
    BY <1>2 DEF RestoredPods
  <2>3. /\ s.faults \in [Pods -> FaultRecord] /\ s.emergencies \in [Pods -> Nat]
        /\ s.completed \in SUBSET Nat /\ s.interrupted \in SUBSET Nat
    BY <1>1, StateTyped
  <2> QED
    BY <1>2, <2>1, <2>2, <2>3
<1>14. Restores(s, t, w, F, Y, Y, J)
  <2>1. t \in [pods : [Pods -> PodRecord(J)], queue : {QueueAll(w, UNION {F[p] : p \in Pods})}, completed : SUBSET Nat,
               interrupted : SUBSET Nat, faults : [Pods -> FaultRecord], emergencies : [Pods -> Nat]]
    <3> HIDE DEF F
    <3> QED
      BY <1>2, <1>13 DEF Together
  <2>2. t.completed = s.completed \cup UNION {Y[p] : p \in Pods} /\ t.interrupted = s.interrupted \cup UNION {Y[p] : p \in Pods}
    BY <1>2
  <2>3. \A p \in Pods : Y[p] = {}
    OBVIOUS
  <2> HIDE DEF F, Y
  <2>4. \A p \in Pods :
            LET party == IdsOf(s.pods[p].riders)
                X == NamesIn(F[p])
            IN  /\ X \subseteq party /\ Y[p] \subseteq party /\ Y[p] \subseteq party
                /\ X \cap Y[p] = {} /\ X \cap Y[p] = {} /\ Y[p] \cap Y[p] = {}
                /\ IdsOf(t.pods[p].riders) = party \ (X \cup Y[p] \cup Y[p])
    BY <1>11, <2>3
  <2> QED
    BY <1>6, <1>11, <1>12, <2>1, <2>2, <2>4 DEF Restores, q
<1> HIDE DEF F, Y
<1>15. Good(t, J, n)
  BY <1>14, RestoredGood
<1>16. Shrinks(s, t)
  BY <1>11 DEF Shrinks
<1> QED
  BY <1>15, <1>16 DEF t

-----------------------------------------------------------------------------
(***************************************************************************)
(* The steps of the fleet.                                                 *)
(***************************************************************************)
\* The inductive invariant: every pod, trip, order and record is good at every stage of a tick.
Inv ==
    /\ options \in Options /\ index \in Nat \ {0} /\ submitted \in 0 .. Len(J)
    /\ Good(Now, J, submitted)

\* A pod that keeps its holds and is out of service takes nobody.
NoSupply(s, t) ==
    \A p \in Pods : ~InService(s.pods[p]) /\ s.pods[p].withdrawn \subseteq t.pods[p].withdrawn =>
                        IdsOf(t.pods[p].riders) \subseteq IdsOf(s.pods[p].riders)

\* Smaller parties, the same holds or the same parties: a pod out of service takes nobody.
LEMMA NoSupplyOf ==
  ASSUME NEW s, NEW t
  PROVE  Shrinks(s, t) \/ HoldsStay(s, t) \/ SameParties(s, t) => NoSupply(s, t)
  BY DEF NoSupply, Shrinks, HoldsStay, SameParties

\* The orders of a session are a list of journeys.
LEMMA JourneyIs ==
  ASSUME options \in Options
  PROVE  IsJourney(J) /\ Len(J) \in Nat /\ DOMAIN J = 1 .. Len(J)
<1>1. J \in Seq([from : Passenger, to : Passenger]) /\ \A k \in DOMAIN J : J[k].from # J[k].to
  BY FleetAssumption DEF J
<1> QED
  BY <1>1 DEF IsJourney

\* The state after an operation.
LEMMA Became ==
  ASSUME NEW n, NEW s, Good(s, J, n), Becomes(s)
  PROVE  Now' = s /\ options' = options
<1>1. s = [pods |-> s.pods, queue |-> s.queue, completed |-> s.completed, interrupted |-> s.interrupted,
           faults |-> s.faults, emergencies |-> s.emergencies]
  BY StateTyped DEF Good
<1> QED
  BY <1>1 DEF Becomes, Now

\* What each step keeps: n orders are submitted.
Kept(n) == Good(Now', J, n) /\ NoSupply(Now, Now') /\ options' = options

\* An operation on the whole state that keeps the invariant.
LEMMA KeptBy ==
  ASSUME NEW n, NEW s, Good(s, J, n), Becomes(s), Shrinks(Now, s) \/ HoldsStay(Now, s) \/ SameParties(Now, s)
  PROVE  Kept(n)
<1>1. Now' = s /\ options' = options
  BY Became
<1>2. NoSupply(Now, s)
  BY NoSupplyOf
<1> QED
  BY <1>1, <1>2 DEF Kept

\* Step up to its dispatch pass.
LEMMA TickKept ==
  ASSUME Inv, Tick
  PROVE  Kept(submitted)
<1> DEFINE n == submitted
           now == Now
<1>1. Good(now, J, n) /\ IsJourney(J)
  BY JourneyIs DEF Inv
<1>2. PICK over : LET s == FaultStage(UnloadPods(Expired(now, over)))
                  IN  \E choice \in [Pods -> {NoStation} \cup Passenger] : Becomes(EmergencyStage(s, choice))
  BY DEF Tick
<1> DEFINE a == Expired(now, over)
           b == UnloadPods(a)
           c == FaultStage(b)
<1>3. PICK choice \in [Pods -> {NoStation} \cup Passenger] : Becomes(EmergencyStage(c, choice))
  BY <1>2
<1> DEFINE d == EmergencyStage(c, choice)
<1> HIDE DEF now, n
<1>4. Good(a, J, n) /\ Shrinks(now, a)
  BY <1>1, DeadlinesPassed
<1> HIDE DEF a
<1>5. Good(b, J, n) /\ Shrinks(a, b)
  BY <1>1, <1>4, UnloadPodsGood
<1> HIDE DEF b
<1>6. Good(c, J, n) /\ Shrinks(b, c)
  BY <1>1, <1>5, FaultStageGood
<1> HIDE DEF c
<1>7. Good(d, J, n) /\ Shrinks(c, d)
  BY <1>1, <1>6, EmergencyStageGood
<1> HIDE DEF d
<1>8. Shrinks(now, d)
  BY <1>4, <1>5, <1>6, <1>7, Chained
<1>9. Becomes(d)
  BY <1>3 DEF d
<1> QED
  BY <1>7, <1>8, <1>9, KeptBy DEF now, n

\* The dispatch of a trip.
LEMMA DispatchKept ==
  ASSUME Inv, DispatchTrip
  PROVE  Kept(submitted)
<1> DEFINE n == submitted
           now == Now
           i == index
           a == PromoteReadyPickup(now, i)
           s == KeepTripPod(a, i)
           b == TakeLocalPickup(s, i)
<1>1. Good(now, J, n) /\ IsJourney(J) /\ i \in DOMAIN now.queue
  <2>1. Good(now, J, n) /\ IsJourney(J)
    BY JourneyIs DEF Inv
  <2>2. now.queue \in Seq(Trip(J)) /\ now.queue = queue
    BY <2>1, StateTyped DEF Good, Now
  <2>3. Len(queue) \in Nat /\ DOMAIN queue = 1 .. Len(queue)
    BY <2>2
  <2> QED
    BY <2>1, <2>2, <2>3 DEF DispatchTrip, Inv
<1>2. \/ \E t \in Joined(s, i) : Becomes(t)
      \/ \E r \in Dispatched(b, i) : Becomes(r.state)
  BY DEF DispatchTrip
<1> HIDE DEF now, n, i
<1>3. Dispatches(now, a, J, n)
  BY <1>1, PickupPromoted
<1>4. Good(a, J, n) /\ HoldsStay(now, a) /\ i \in DOMAIN a.queue
  BY <1>1, <1>3 DEF Dispatches
<1> HIDE DEF a
<1>5. Dispatches(a, s, J, n)
  BY <1>1, <1>4, TripPodKept
<1>6. Good(s, J, n) /\ HoldsStay(a, s) /\ i \in DOMAIN s.queue
  BY <1>4, <1>5 DEF Dispatches
<1> HIDE DEF s
<1>7. HoldsStay(now, s)
  BY <1>4, <1>6, Chained
<1>8. CASE \E t \in Joined(s, i) : Becomes(t)
  <2>1. PICK t \in Joined(s, i) : Becomes(t)
    BY <1>8
  <2>2. Good(t, J, n) /\ HoldsStay(s, t)
    BY <1>1, <1>6, TripJoined
  <2>3. HoldsStay(now, t)
    BY <1>7, <2>2, Chained
  <2> QED
    BY <2>1, <2>2, <2>3, KeptBy DEF now, n
<1>9. CASE \E r \in Dispatched(b, i) : Becomes(r.state)
  <2>1. Dispatches(s, b, J, n)
    BY <1>1, <1>6, LocalPickupTaken
  <2>2. Good(b, J, n) /\ HoldsStay(s, b) /\ i \in DOMAIN b.queue
    BY <1>6, <2>1 DEF Dispatches
  <2> HIDE DEF b
  <2>3. PICK r \in Dispatched(b, i) : Becomes(r.state)
    BY <1>9
  <2>4. Good(r.state, J, n) /\ HoldsStay(b, r.state)
    BY <1>1, <2>2, TripDispatched
  <2> DEFINE t == r.state
  <2>5. Good(t, J, n) /\ HoldsStay(now, t) /\ Becomes(t)
    BY <1>7, <2>2, <2>3, <2>4, Chained
  <2> HIDE DEF t
  <2> QED
    BY <2>5, KeptBy DEF now, n
<1> QED
  BY <1>2, <1>8, <1>9

\* The end of a pass, and the exchanges of pickups.
LEMMA PassKept ==
  ASSUME Inv, EndPass \/ SwapPickups
  PROVE  Kept(submitted)
<1> DEFINE n == submitted
           now == Now
<1>1. Good(now, J, n) /\ IsJourney(J)
  BY JourneyIs DEF Inv
<1>2. now.queue = queue
  BY DEF Now
<1>3. \/ \E s \in ParkUnclaimedReleased(now) : Becomes(s)
      \/ \E i \in DOMAIN now.queue : \E t \in PairStates(now, i) : \E s \in ParkUnclaimedReleased(t) : Becomes(s)
  BY <1>2 DEF EndPass, SwapPickups
<1> HIDE DEF now, n
<1>4. CASE \E s \in ParkUnclaimedReleased(now) : Becomes(s)
  <2>1. PICK s \in ParkUnclaimedReleased(now) : Becomes(s)
    BY <1>4
  <2>2. Dispatches(now, s, J, n)
    BY <1>1, ReleasedParked
  <2>3. Good(s, J, n) /\ HoldsStay(now, s)
    BY <2>2 DEF Dispatches
  <2> QED
    BY <2>1, <2>3, KeptBy DEF now, n
<1>5. CASE \E i \in DOMAIN now.queue : \E t \in PairStates(now, i) : \E s \in ParkUnclaimedReleased(t) : Becomes(s)
  <2>1. PICK i \in DOMAIN now.queue : \E t \in PairStates(now, i) : \E s \in ParkUnclaimedReleased(t) : Becomes(s)
    BY <1>5
  <2>2. PICK t \in PairStates(now, i) : \E s \in ParkUnclaimedReleased(t) : Becomes(s)
    BY <2>1
  <2>3. PICK s \in ParkUnclaimedReleased(t) : Becomes(s)
    BY <2>2
  <2>4. Dispatches(now, t, J, n)
    BY <1>1, PairChecked
  <2>5. Good(t, J, n)
    BY <2>4 DEF Dispatches
  <2>6. Dispatches(t, s, J, n)
    BY <1>1, <2>5, ReleasedParked
  <2>7. Dispatches(now, s, J, n)
    BY <2>4, <2>6, DispatchedOn
  <2>8. Good(s, J, n) /\ HoldsStay(now, s)
    BY <2>7 DEF Dispatches
  <2> QED
    BY <2>3, <2>8, KeptBy DEF now, n
<1> QED
  BY <1>3, <1>4, <1>5

\* What the parts of the state say of a step that changes only pods and trips.
LEMMA EditedBy ==
  ASSUME NEW n, NEW s, s = Edit(Now, pods', queue'), Good(s, J, n), NoSupply(Now, s),
         UNCHANGED <<options, completed, interrupted, faults, emergencies>>
  PROVE  Kept(n)
<1>1. Now' = s
  BY DEF Now, Edit
<1> QED
  BY <1>1 DEF Kept

\* The positioning of a pod.
LEMMA PositionKept ==
  ASSUME Inv, Position
  PROVE  Kept(submitted)
<1> DEFINE n == submitted
           now == Now
<1>1. Good(now, J, n) /\ IsJourney(J)
  BY JourneyIs DEF Inv
<1>2. PICK p \in Pods : \E v \in Positioned(now, p) : pods' = [pods EXCEPT ![p] = v]
  BY DEF Position
<1>3. PICK v \in Positioned(now, p) : pods' = [pods EXCEPT ![p] = v]
  BY <1>2
<1> DEFINE s == [now EXCEPT !.pods[p] = v]
<1>4. s = Edit(now, pods', queue') /\ UNCHANGED <<options, completed, interrupted, faults, emergencies>>
  BY <1>3 DEF Position, Now, Edit
<1>5. s.pods = [now.pods EXCEPT ![p] = v] /\ now.pods \in [Pods -> PodRecord(J)]
  <2>1. now.pods = pods
    BY DEF Now
  <2>2. s.pods = pods'
    BY <1>4 DEF Edit
  <2>3. now.pods \in [Pods -> PodRecord(J)]
    BY <1>1, StateTyped DEF Good
  <2> QED
    BY <1>3, <2>1, <2>2, <2>3
<1> HIDE DEF now, n
<1>6. Good(s, J, n) /\ Kin(now.pods[p], v)
  BY <1>1, PodRepositioned
<1> HIDE DEF s
<1>7. SameParties(now, s)
  BY <1>5, <1>6 DEF SameParties, Kin
<1>8. NoSupply(now, s)
  BY <1>7, NoSupplyOf
<1> QED
  BY <1>4, <1>6, <1>8, EditedBy DEF now, n

\* The motion of the pods.
LEMMA MoveKept ==
  ASSUME Inv, Move
  PROVE  Kept(submitted)
<1> DEFINE n == submitted
           now == Now
<1>1. Good(now, J, n) /\ IsJourney(J)
  BY JourneyIs DEF Inv
<1>2. PICK next \in [Pods -> UNION {MotionOf(pods[p], Faulted(Now, p)) : p \in Pods}] :
          /\ \A p \in Pods : next[p] \in MotionOf(pods[p], Faulted(Now, p))
          /\ pods' = next
  BY DEF Move
<1>3. now.pods = pods /\ now.queue = queue
  BY DEF Now
<1> DEFINE s == Edit(now, next, now.queue)
<1>4. s = Edit(now, pods', queue') /\ UNCHANGED <<options, completed, interrupted, faults, emergencies>>
  BY <1>2, <1>3 DEF Move
<1> HIDE DEF now, n
<1>5. \A p \in Pods : /\ PodGood(next[p], J) /\ next[p].riders = now.pods[p].riders /\ next[p].withdrawn = now.pods[p].withdrawn
                      /\ next[p].op = now.pods[p].op \/ next[p].op = Service
                      /\ Keeps(now.pods[p], next[p])
  <2> SUFFICES ASSUME NEW p \in Pods
               PROVE  /\ PodGood(next[p], J) /\ next[p].riders = now.pods[p].riders /\ next[p].withdrawn = now.pods[p].withdrawn
                      /\ next[p].op = now.pods[p].op \/ next[p].op = Service
                      /\ Keeps(now.pods[p], next[p])
    OBVIOUS
  <2> DEFINE v == now.pods[p]
             w == next[p]
             faulted == Faulted(Now, p)
  <2>1. PodGood(v, J) /\ w \in MotionOf(v, faulted)
    BY <1>1, <1>2, <1>3 DEF Good
  <2>2. faulted \in BOOLEAN
    BY DEF Faulted
  <2> HIDE DEF v, w, faulted
  <2>3. /\ PodGood(w, J) /\ w.riders = v.riders /\ w.withdrawn = v.withdrawn /\ (w.op = v.op \/ w.op = Service)
        /\ Keeps(v, w)
    BY <2>1, <2>2, PodMoved
  <2> QED
    BY <2>3 DEF v, w
<1>6. next \in [Pods -> PodRecord(J)]
  BY <1>2, <1>5 DEF PodGood
<1>7. Good(s, J, n)
  BY <1>1, <1>5, <1>6, PodsMoved
<1>8. SameParties(now, s)
  BY <1>5 DEF SameParties, Edit
<1> HIDE DEF s
<1>9. NoSupply(now, s)
  BY <1>8, NoSupplyOf
<1> QED
  BY <1>4, <1>7, <1>9, EditedBy DEF now, n

\* A new order joins the queue.
LEMMA SubmitKept ==
  ASSUME Inv, Submit
  PROVE  Kept(submitted + 1) /\ submitted' = submitted + 1 /\ submitted + 1 \in DOMAIN J
<1> DEFINE n == submitted
           now == Now
<1>1. Good(now, J, n) /\ IsJourney(J) /\ n \in Nat /\ n + 1 \in DOMAIN J
  BY JourneyIs DEF Inv, Submit, J
<1>2. now.pods = pods /\ now.queue = queue
  BY DEF Now
<1> DEFINE s == Edit(now, now.pods, Append(now.queue, NewTrip(n)))
<1>3. s = Edit(now, pods', queue') /\ UNCHANGED <<options, completed, interrupted, faults, emergencies>>
  BY <1>2 DEF Submit, NewTrip
<1> HIDE DEF now, n
<1>4. Good(s, J, n + 1)
  BY <1>1, OrderSubmitted
<1>5. SameParties(now, s)
  BY DEF SameParties, Edit
<1> HIDE DEF s
<1>6. NoSupply(now, s)
  BY <1>5, NoSupplyOf
<1> DEFINE m == n + 1
<1>7. Good(s, J, m)
  BY <1>4
<1>8. submitted' = submitted + 1 /\ m = submitted + 1
  BY DEF Submit, n
<1> HIDE DEF m
<1>9. Kept(m)
  BY <1>3, <1>6, <1>7, EditedBy DEF now
<1> QED
  BY <1>1, <1>8, <1>9 DEF n

\* A new order gets aboard a pod.
LEMMA RequestKept ==
  ASSUME Inv, NEW p \in Pods, RequestJourney(p)
  PROVE  Kept(submitted + 1) /\ submitted' = submitted + 1 /\ submitted + 1 \in DOMAIN J
<1> DEFINE n == submitted
           now == Now
           trip == RequeuedTrip(n + 1, NoStation)
<1>1. Good(now, J, n) /\ IsJourney(J) /\ n \in Nat /\ n + 1 \in DOMAIN J
  BY JourneyIs DEF Inv, RequestJourney, J
<1>2. now.pods = pods /\ now.queue = queue
  BY DEF Now
<1> DEFINE s == Edit(now, [now.pods EXCEPT ![p] = Boards(@, trip)], now.queue)
<1>3. s = Edit(now, pods', queue') /\ UNCHANGED <<options, completed, interrupted, faults, emergencies>>
  BY <1>2 DEF RequestJourney
<1>4. IdleAt(now.pods[p], J[n + 1].from) /\ InService(now.pods[p]) /\ ~Bound(now, p)
  BY <1>2 DEF RequestJourney, J
<1> HIDE DEF now, n
<1>5. Good(s, J, n + 1)
  BY <1>1, <1>4, JourneyRequested
<1>6. NoSupply(now, s)
  <2>1. now.pods \in [Pods -> PodRecord(J)]
    BY <1>1, StateTyped DEF Good
  <2>2. \A q \in Pods : q # p => s.pods[q] = now.pods[q]
    <3> HIDE DEF trip
    <3> QED
      BY <2>1 DEF Edit
  <2> HIDE DEF s
  <2> QED
    BY <1>4, <2>2 DEF NoSupply
<1> HIDE DEF s
<1> DEFINE m == n + 1
<1>7. Good(s, J, m)
  BY <1>5
<1>8. submitted' = submitted + 1 /\ m = submitted + 1
  BY DEF RequestJourney, n
<1> HIDE DEF m
<1>9. Kept(m)
  BY <1>3, <1>6, <1>7, EditedBy DEF now
<1> QED
  BY <1>1, <1>8, <1>9 DEF n

\* A pod fault starts.
LEMMA FaultKept ==
  ASSUME Inv, NEW p \in Pods, NEW left \in {FaultTicks, OpenEnd}, NEW cut \in Cuts, Fault(p, left, cut)
  PROVE  Kept(submitted)
<1> DEFINE n == submitted
           now == Now
           f == [left |-> left, age |-> 0, cut |-> cut]
<1>1. Good(now, J, n) /\ IsJourney(J)
  BY JourneyIs DEF Inv
<1>2. f \in FaultRecord
  BY FleetAssumption DEF FaultRecord, OpenEnd
<1>3. PICK b \in BOOLEAN : Becomes([WithdrawService(now, p, "fault") EXCEPT !.faults[p] = f, !.pods[p].braking = b])
  BY DEF Fault
<1> DEFINE t == [WithdrawService(now, p, "fault") EXCEPT !.faults[p] = f, !.pods[p].braking = b]
<1> HIDE DEF now, n, f
<1>4. Good(t, J, n) /\ SameParties(now, t)
  BY <1>1, <1>2, FaultStarted
<1>5. Becomes(t)
  BY <1>3
<1> HIDE DEF t
<1> QED
  BY <1>4, <1>5, KeptBy DEF now, n

\* A fault is cleared.
LEMMA ClearKept ==
  ASSUME Inv, NEW p \in Pods, ClearFault(p)
  PROVE  Kept(submitted)
<1> DEFINE n == submitted
           now == Now
           t == RemoveFault(now, p)
<1>1. Good(now, J, n) /\ IsJourney(J) /\ Becomes(t)
  BY JourneyIs DEF Inv, ClearFault
<1> HIDE DEF now, n
<1>2. Good(t, J, n) /\ SameParties(now, t)
  BY <1>1, FaultRemoved
<1> HIDE DEF t
<1> QED
  BY <1>1, <1>2, KeptBy DEF now, n

\* An emergency starts.
LEMMA EmergencyKept ==
  ASSUME Inv, NEW p \in Pods, NEW k \in DOMAIN pods[p].riders, Emergency(p, k)
  PROVE  Kept(submitted)
<1> DEFINE n == submitted
           now == Now
           e == pods[p].riders[k].id
           r == [now EXCEPT !.emergencies[p] = e]
<1>1. Good(now, J, n) /\ IsJourney(J) /\ now.pods = pods /\ now.emergencies = emergencies
  BY JourneyIs DEF Inv, Now
<1>2. e \in Nat \ {0} /\ now.emergencies[p] = 0
  <2>1. pods[p].riders \in Seq(Rider(J))
    BY <1>1 DEF Good, PodGood, PodRecord
  <2>2. pods[p].riders[k] \in Rider(J)
    BY <2>1
  <2>3. e \in DOMAIN J
    BY <2>2 DEF Rider
  <2> QED
    BY <1>1, <2>3, JourneyOf DEF Emergency
<1>3. \E choice \in EmergencyChoices(r, p) : Becomes(AdvanceEmergency(r, p, choice))
  BY DEF Emergency
<1>4. EmergencyChoices(r, p) \subseteq {NoStation} \cup Passenger
  BY DEF EmergencyChoices
<1>5. PICK choice \in {NoStation} \cup Passenger : Becomes(AdvanceEmergency(r, p, choice))
  BY <1>3, <1>4
<1> DEFINE t == AdvanceEmergency(r, p, choice)
<1> HIDE DEF now, n, e
<1>6. Good(t, J, n) /\ SameParties(now, t)
  BY <1>1, <1>2, EmergencyStarted
<1>7. Becomes(t)
  BY <1>5
<1> HIDE DEF t
<1> QED
  BY <1>6, <1>7, KeptBy DEF now, n

\* The two restores.
LEMMA RestoreKept ==
  ASSUME Inv, RestoreLogical \/ RestorePhysical
  PROVE  Kept(submitted)
<1> DEFINE n == submitted
           now == Now
<1>1. Good(now, J, n) /\ IsJourney(J)
  BY JourneyIs DEF Inv
<1>2. CASE RestoreLogical
  <2> DEFINE t == RestoredLogical(now)
  <2>1. Becomes(t)
    BY <1>2 DEF RestoreLogical
  <2> HIDE DEF now, n
  <2>2. Good(t, J, n) /\ \A p \in Pods : IdsOf(t.pods[p].riders) = {}
    BY <1>1, LogicallyRestored
  <2> HIDE DEF t
  <2>3. Shrinks(now, t)
    BY <2>2 DEF Shrinks
  <2> QED
    BY <2>1, <2>2, <2>3, KeptBy DEF now, n
<1>3. CASE RestorePhysical
  <2>1. PICK demoted \in SUBSET Demotable(now) :
            \E placed \in [demoted -> UNION {Placements(now, pods[p]) : p \in demoted}] :
                (\A p \in demoted : placed[p] \in Placements(now, pods[p])) /\ Becomes(RestoredPhysical(now, demoted, placed))
    BY <1>3 DEF RestorePhysical
  <2>2. PICK placed : (\A p \in demoted : placed[p] \in Placements(now, pods[p])) /\ Becomes(RestoredPhysical(now, demoted, placed))
    BY <2>1
  <2>3. now.pods = pods
    BY DEF Now
  <2> DEFINE t == RestoredPhysical(now, demoted, placed)
  <2> HIDE DEF now, n
  <2>4. \A p \in demoted : placed[p] \in Placements(now, now.pods[p])
    BY <2>2, <2>3
  <2>5. Good(t, J, n) /\ Shrinks(now, t)
    BY <1>1, <2>4, PhysicallyRestored
  <2>6. Becomes(t)
    BY <2>2
  <2> HIDE DEF t
  <2> QED
    BY <2>5, <2>6, KeptBy DEF now, n
<1> QED
  BY <1>2, <1>3

\* The initial state.
LEMMA InitGood == Init => Inv
<1> SUFFICES ASSUME Init PROVE Inv
  OBVIOUS
<1> DEFINE s == Now
<1>1. options \in Options /\ submitted = 0 /\ index = 1
  BY DEF Init
<1>2. IsJourney(J) /\ Len(J) \in Nat
  BY <1>1, JourneyIs
<1>3. /\ s.pods = [p \in Pods |-> ParkedPod(Home[p])] /\ s.queue = <<>> /\ s.completed = {} /\ s.interrupted = {}
      /\ s.faults = [p \in Pods |-> NoFault] /\ s.emergencies = [p \in Pods |-> 0]
      /\ s = [pods |-> s.pods, queue |-> s.queue, completed |-> s.completed, interrupted |-> s.interrupted,
              faults |-> s.faults, emergencies |-> s.emergencies]
  BY DEF Init, Now
<1> HIDE DEF s
<1>4. \A p \in Pods : /\ PodGood(s.pods[p], J) /\ s.pods[p].op = Service /\ s.pods[p].withdrawn = {} /\ IdsOf(s.pods[p].riders) = {}
  <2> SUFFICES ASSUME NEW p \in Pods
               PROVE  PodGood(s.pods[p], J) /\ s.pods[p].op = Service /\ s.pods[p].withdrawn = {} /\ IdsOf(s.pods[p].riders) = {}
    OBVIOUS
  <2> DEFINE home == Home[p]
             x == ParkedPod(home)
  <2>1. home \in Stations /\ s.pods[p] = x
    BY <1>3, FleetAssumption
  <2> HIDE DEF home
  <2>2. PodGood(x, J) /\ IdsOf(x.riders) = {} /\ x.withdrawn = {} /\ x.op = Service
    BY <2>1, PodAtHome
  <2> HIDE DEF x
  <2> QED
    BY <2>1, <2>2
<1>5. \A p \in Pods : Incident(s.pods[p], s.faults[p], s.emergencies[p])
  <2> SUFFICES ASSUME NEW p \in Pods PROVE Incident(s.pods[p], s.faults[p], s.emergencies[p])
    OBVIOUS
  <2> DEFINE v == s.pods[p]
  <2>1. s.faults[p] = NoFault /\ s.emergencies[p] = 0
    BY <1>3
  <2>2. v.withdrawn = {} /\ v.op.purpose # "unload"
    BY <1>4 DEF Service
  <2> HIDE DEF v
  <2>3. Incident(v, NoFault, 0)
    BY <2>2 DEF Incident
  <2> QED
    BY <2>1, <2>3 DEF v
<1>6. s \in State(J)
  <2>1. \A p \in Pods : s.pods[p] \in PodRecord(J)
    BY <1>4 DEF PodGood
  <2>2. s.pods \in [Pods -> PodRecord(J)]
    BY <1>3, <2>1
  <2>3. s.faults \in [Pods -> FaultRecord] /\ s.emergencies \in [Pods -> Nat]
    BY <1>3 DEF NoFault, FaultRecord
  <2>4. s.queue \in Seq(Trip(J)) /\ s.completed \in SUBSET Nat /\ s.interrupted \in SUBSET Nat
    BY <1>3
  <2> QED
    BY <1>3, <2>2, <2>3, <2>4 DEF State
<1>7. QueueGood(s.queue, s.pods, J) /\ Ids(s.queue) = {}
  <2>1. s.queue = <<>> /\ s.queue \in Seq(Trip(J)) /\ DOMAIN s.queue = {} /\ Range(s.queue) = {}
    BY <1>3 DEF Range
  <2> QED
    BY <2>1 DEF QueueGood, Ordered, Unshared, Ids
<1>8. Split(0, Ids(s.queue), s.completed, s.interrupted, Aboards(s.pods))
  <2>1. \A p \in Pods : Aboards(s.pods)[p] = {}
    BY <1>4 DEF Aboards
  <2>2. 1 .. 0 = {}
    OBVIOUS
  <2> QED
    BY <1>3, <1>7, <2>1, <2>2 DEF Split
<1>9. Good(s, J, 0)
  BY <1>4, <1>5, <1>6, <1>7, <1>8 DEF Good
<1> QED
  BY <1>1, <1>2, <1>9 DEF Inv, s

\* Every step keeps the invariant, and takes nobody aboard a pod out of service.
LEMMA NextKept ==
  ASSUME Inv, Next
  PROVE  Inv' /\ NoSupply(Now, Now')
<1>1. IsJourney(J) /\ Len(J) \in Nat /\ DOMAIN J = 1 .. Len(J)
  BY JourneyIs DEF Inv
<1>2. ASSUME NEW n \in 0 .. Len(J), Kept(n), submitted' = n, index' \in Nat \ {0} PROVE Inv' /\ NoSupply(Now, Now')
  <2>1. options' = options /\ J' = J
    BY <1>2 DEF Kept, J
  <2>2. Good(Now', J', submitted') /\ submitted' \in 0 .. Len(J')
    BY <1>2, <2>1 DEF Kept
  <2> QED
    BY <1>2, <2>1, <2>2 DEF Inv, Kept
<1>3. submitted \in 0 .. Len(J) /\ index \in Nat \ {0} /\ submitted + 1 \in Nat
  BY <1>1 DEF Inv
<1>4. CASE Tick
  BY <1>2, <1>3, <1>4, TickKept DEF Tick
<1>5. CASE DispatchTrip
  <2>1. index' \in Nat \ {0} /\ submitted' = submitted
    BY <1>3, <1>5 DEF DispatchTrip
  <2> QED
    BY <1>2, <1>3, <1>5, <2>1, DispatchKept
<1>6. CASE EndPass
  BY <1>2, <1>3, <1>6, PassKept DEF EndPass
<1>7. CASE SwapPickups
  BY <1>2, <1>3, <1>7, PassKept DEF SwapPickups
<1>8. CASE Position
  BY <1>2, <1>3, <1>8, PositionKept DEF Position
<1>9. CASE Move
  BY <1>2, <1>3, <1>9, MoveKept DEF Move
<1>10. CASE Submit
  <2>1. Kept(submitted + 1) /\ submitted' = submitted + 1 /\ submitted + 1 \in 0 .. Len(J)
    BY <1>1, <1>3, <1>10, SubmitKept
  <2>2. index' \in Nat \ {0}
    BY <1>10 DEF Submit
  <2> QED
    BY <1>2, <2>1, <2>2
<1>11. ASSUME NEW p \in Pods, RequestJourney(p) PROVE Inv' /\ NoSupply(Now, Now')
  <2>1. Kept(submitted + 1) /\ submitted' = submitted + 1 /\ submitted + 1 \in 0 .. Len(J)
    BY <1>1, <1>3, <1>11, RequestKept
  <2>2. index' \in Nat \ {0}
    BY <1>3, <1>11 DEF RequestJourney
  <2> QED
    BY <1>2, <2>1, <2>2
<1>12. ASSUME NEW p \in Pods, NEW left \in {FaultTicks, OpenEnd}, NEW cut \in Cuts, Fault(p, left, cut) PROVE Inv' /\ NoSupply(Now, Now')
  <2>1. Kept(submitted)
    BY <1>12, FaultKept
  <2> QED
    BY <1>2, <1>3, <1>12, <2>1 DEF Fault
<1>13. ASSUME NEW p \in Pods, ClearFault(p) PROVE Inv' /\ NoSupply(Now, Now')
  <2>1. Kept(submitted)
    BY <1>13, ClearKept
  <2> QED
    BY <1>2, <1>3, <1>13, <2>1 DEF ClearFault
<1>14. ASSUME NEW p \in Pods, NEW k \in DOMAIN pods[p].riders, Emergency(p, k) PROVE Inv' /\ NoSupply(Now, Now')
  <2>1. Kept(submitted)
    BY <1>14, EmergencyKept
  <2> QED
    BY <1>2, <1>3, <1>14, <2>1 DEF Emergency
<1>15. CASE RestoreLogical \/ RestorePhysical
  <2>1. Kept(submitted)
    BY <1>15, RestoreKept
  <2> QED
    BY <1>2, <1>3, <1>15, <2>1 DEF RestoreLogical, RestorePhysical
<1> QED
  BY <1>4, <1>5, <1>6, <1>7, <1>8, <1>9, <1>10, <1>11, <1>12, <1>13, <1>14, <1>15 DEF Next, Steps, Commands

\* A step that changes nothing keeps the invariant.
LEMMA StutterKept ==
  ASSUME Inv, UNCHANGED fleetVars
  PROVE  Inv'
<1>1. Now' = Now /\ J' = J /\ options' = options /\ index' = index /\ submitted' = submitted
  BY DEF fleetVars, Now, J
<1> QED
  BY <1>1 DEF Inv

\* The fleet keeps its invariant for every fleet, network, list of orders and settings.
THEOREM FleetInductive == Spec => []Inv
<1>1. Inv /\ [Next]_fleetVars => Inv'
  BY NextKept, StutterKept
<1> QED
  BY <1>1, InitGood, PTL DEF Spec

\* A pod out of service takes no party: the riders aboard a pod that keeps its holds only get fewer.
THEOREM WithdrawnTakesNobody == Spec => WithdrawnIsNoSupply
<1> DEFINE Step == \A p \in Pods : ~InService(pods[p]) /\ pods[p].withdrawn \subseteq pods'[p].withdrawn => Aboard(p)' \subseteq Aboard(p)
<1>1. Inv /\ [Next]_fleetVars => [Step]_fleetVars
  <2> SUFFICES ASSUME Inv, Next PROVE Step
    OBVIOUS
  <2>1. NoSupply(Now, Now')
    BY NextKept
  <2>2. Now.pods = pods /\ Now'.pods = pods'
    BY DEF Now
  <2>3. \A p \in Pods : Aboard(p) = IdsOf(pods[p].riders) /\ Aboard(p)' = IdsOf(pods'[p].riders)
    BY ActiveIs DEF Aboard
  <2> QED
    BY <2>1, <2>2, <2>3 DEF NoSupply
<1> QED
  BY <1>1, FleetInductive, PTL DEF Spec, WithdrawnIsNoSupply

-----------------------------------------------------------------------------
(***************************************************************************)
(* What the invariant says of the fleet.                                   *)
(***************************************************************************)
\* The parts of the invariant by the variables.
LEMMA InvIs ==
  ASSUME Inv
  PROVE  /\ IsJourney(J) /\ Now.pods = pods /\ Now.queue = queue /\ Now.completed = completed /\ Now.interrupted = interrupted
         /\ Now.faults = faults /\ Now.emergencies = emergencies
         /\ \A p \in Pods : PodGood(pods[p], J) /\ Incident(pods[p], faults[p], emergencies[p])
         /\ Good(Now, J, submitted) /\ QueueGood(queue, pods, J)
         /\ Split(submitted, Ids(queue), completed, interrupted, Aboards(pods))
<1>1. IsJourney(J) /\ Now.pods = pods /\ Now.queue = queue /\ Now.completed = completed /\ Now.interrupted = interrupted
      /\ Now.faults = faults /\ Now.emergencies = emergencies
  BY JourneyIs DEF Inv, Now
<1> QED
  BY <1>1 DEF Inv, Good

\* A list whose entries have different images has as many images as entries.
LEMMA ImagesCounted ==
  ASSUME NEW S, IsFiniteSet(S), NEW f, f = [k \in S |-> f[k]], \A k, l \in S : k # l => f[k] # f[l]
  PROVE  Cardinality({f[k] : k \in S}) = Cardinality(S)
<1> DEFINE T == {f[k] : k \in S}
<1>1. f \in Surjection(S, T) /\ f \in Injection(S, T)
  <2>1. f \in [S -> T] /\ \A y \in T : \E k \in S : f[k] = y
    OBVIOUS
  <2> HIDE DEF T
  <2> QED
    BY <2>1 DEF Surjection, Injection, IsInjective
<1> HIDE DEF T
<1>2. Cardinality(T) = Cardinality(S)
  BY <1>1, FS_Surjection
<1> QED
  BY <1>2 DEF T

\* The parties are as large as the lists of riders aboard say.
LEMMA PartyCounted ==
  ASSUME NEW v, PodGood(v, J)
  PROVE  IsFiniteSet(ActiveRiders(v)) /\ Cardinality(IdsAt(v, ActiveRiders(v))) = Cardinality(ActiveRiders(v))
<1> DEFINE S == ActiveRiders(v)
           f == [k \in S |-> v.riders[k].id]
<1>1. v.riders \in Seq(Rider(J)) /\ RiderList(v.riders, J)
  BY DEF PodGood, PodRecord, RidersOK
<1>2. IsFiniteSet(S)
  <2>1. DOMAIN v.riders = 1 .. Len(v.riders) /\ Len(v.riders) \in Nat
    BY <1>1
  <2>2. IsFiniteSet(1 .. Len(v.riders))
    BY <2>1, FS_Interval
  <2>3. S \subseteq 1 .. Len(v.riders)
    BY <2>1 DEF ActiveRiders
  <2> HIDE DEF S
  <2> QED
    BY <2>2, <2>3, FS_Subset
<1>3. \A k, l \in S : k # l => f[k] # f[l]
  BY <1>1 DEF RiderList, Active, ActiveRiders
<1>4. IdsAt(v, S) = {f[k] : k \in S} /\ f = [k \in S |-> f[k]]
  BY DEF IdsAt
<1> HIDE DEF S, f
<1>5. Cardinality({f[k] : k \in S}) = Cardinality(S)
  BY <1>2, <1>3, <1>4, ImagesCounted
<1>6. IsFiniteSet(S) /\ Cardinality(IdsAt(v, S)) = Cardinality(S)
  BY <1>2, <1>4, <1>5
<1> QED
  BY <1>6 DEF S

\* The invariant accounts for every order.
LEMMA OrdersOf == Inv => OrdersAccounted
<1> SUFFICES ASSUME Inv PROVE OrdersAccounted
  OBVIOUS
<1> DEFINE A == Aboards(pods)
<1>1. Split(submitted, Ids(queue), completed, interrupted, A) /\ Ordered(queue) /\ \A p \in Pods : PodGood(pods[p], J)
  BY InvIs DEF QueueGood
<1>2. \A p \in Pods : Aboard(p) = A[p] /\ Cardinality(Aboard(p)) = Cardinality(ActiveRiders(pods[p]))
  <2> SUFFICES ASSUME NEW p \in Pods PROVE Aboard(p) = A[p] /\ Cardinality(Aboard(p)) = Cardinality(ActiveRiders(pods[p]))
    OBVIOUS
  <2>1. Aboard(p) = A[p]
    BY ActiveIs DEF Aboard, Aboards
  <2> DEFINE v == pods[p]
  <2>2. PodGood(v, J)
    BY <1>1
  <2> HIDE DEF v
  <2>3. Cardinality(IdsAt(v, ActiveRiders(v))) = Cardinality(ActiveRiders(v))
    BY <2>2, PartyCounted
  <2> QED
    BY <2>1, <2>3 DEF Aboard, v
<1>3. Waiting = Ids(queue)
  BY DEF Waiting, Ids
<1> HIDE DEF A
<1> DEFINE all == UNION {Aboard(p) : p \in Pods}
<1>4. \A x : x \in all <=> \E p \in Pods : x \in A[p]
  BY <1>2
<1> HIDE DEF all
<1>5. 1 .. submitted = Waiting \cup completed \cup interrupted \cup all
  <2>1. \A x : x \in 1 .. submitted <=> x \in Waiting \cup completed \cup interrupted \cup all
    BY <1>1, <1>3, <1>4 DEF Split
  <2> DEFINE a == 1 .. submitted
             b == Waiting \cup completed \cup interrupted \cup all
  <2>2. \A x : x \in a <=> x \in b
    BY <2>1
  <2> HIDE DEF a, b
  <2>3. a = b
    BY <2>2
  <2> QED
    BY <2>3 DEF a, b
<1>6. Waiting \cap (completed \cup interrupted \cup all) = {} /\ completed \cap interrupted = {}
  BY <1>1, <1>3, <1>4 DEF Split
<1>7. \A p \in Pods : /\ Aboard(p) \cap (completed \cup interrupted) = {}
                      /\ Cardinality(Aboard(p)) = Cardinality(ActiveRiders(pods[p]))
                      /\ \A q \in Pods \ {p} : Aboard(p) \cap Aboard(q) = {}
  BY <1>1, <1>2 DEF Split
<1>8. \A i, k \in DOMAIN queue : i < k => queue[i].id < queue[k].id
  BY <1>1 DEF Ordered
<1> QED
  BY <1>5, <1>6, <1>7, <1>8 DEF OrdersAccounted, all

\* The invariant lets every trip count on its pod.
LEMMA ServesOf == Inv => BoundPodServes
<1> SUFFICES ASSUME Inv, NEW i \in DOMAIN queue, queue[i].pod # NoPod
             PROVE  LET v == pods[queue[i].pod]
                    IN  /\ \A k \in DOMAIN queue \ {i} : queue[k].pod # queue[i].pod
                        /\ InService(v) /\ ~v.occupied /\ ActiveRiders(v) = {} /\ queue[i].pod # queue[i].excluded
                        /\ IdleAt(v, LegOrigin(queue[i])) \/ (v.relocatingTo = LegOrigin(queue[i]) /\ ~v.released)
  BY DEF BoundPodServes
<1> DEFINE s == Now
           n == submitted
<1>1. Good(s, J, n) /\ IsJourney(J) /\ s.queue = queue /\ s.pods = pods
  BY InvIs
<1> HIDE DEF s, n
<1>2. /\ \A k \in DOMAIN s.queue : TripOK(s.queue[k], s.pods, J)
      /\ \A k, l \in DOMAIN s.queue : k # l /\ s.queue[k].pod # NoPod => s.queue[k].pod # s.queue[l].pod
  BY <1>1, QueueAt
<1>3. TripOK(queue[i], pods, J) /\ \A k \in DOMAIN queue \ {i} : queue[k].pod # queue[i].pod
  BY <1>1, <1>2
<1>4. PodServes(pods[queue[i].pod], LegOrigin(queue[i])) /\ queue[i].pod # queue[i].excluded
  BY <1>3, NamesOfTrips DEF TripOK
<1> QED
  BY <1>3, <1>4, ActiveIs DEF PodServes

\* The invariant makes records, holds and purposes agree.
LEMMA IncidentsOf == Inv => IncidentsConsistent
<1> SUFFICES ASSUME Inv, NEW p \in Pods
             PROVE  LET v == pods[p]
                    IN  /\ Faulted(Now, p) => "fault" \in v.withdrawn
                        /\ "emergency" \in v.withdrawn => emergencies[p] # 0
                        /\ v.op.purpose = "unload" =>
                               /\ v.op.owner = "emergency" /\ emergencies[p] # 0 /\ CarriesPassengers(v)
                               /\ v.op.interrupt = PartyIndex(Now, p) /\ v.op.interrupt # {}
                        /\ emergencies[p] # 0 /\ v.op.purpose = "recovery" => ActiveRiders(v) = {}
  BY DEF IncidentsConsistent
<1> DEFINE v == pods[p]
           f == faults[p]
           e == emergencies[p]
<1>1. PodGood(v, J) /\ Incident(v, f, e) /\ (Faulted(Now, p) <=> f # NoFault) /\ PartyIndex(Now, p) = {k \in ActiveRiders(v) : v.riders[k].id = e}
  BY InvIs DEF Faulted, PartyIndex
<1> HIDE DEF v, f, e
<1>2. PartyIndex(Now, p) = Party(v.riders, e)
  BY <1>1, ActiveIs DEF Party
<1>3. v.op.purpose = "unload" => v.op.owner = "emergency" /\ e # 0 /\ CarriesPassengers(v)
  <2> SUFFICES ASSUME v.op.purpose = "unload" PROVE v.op.owner = "emergency" /\ e # 0 /\ CarriesPassengers(v)
    OBVIOUS
  <2>1. v.op.owner = "emergency" /\ "emergency" \in v.withdrawn /\ v.occupied /\ v.activity \in {"Traveling", "Unloading"}
    BY <1>1 DEF PodGood, PurposeOK
  <2>2. Active(v.riders) # {}
    BY <1>1, <2>1 DEF PodGood, RidersOK, MovesEmpty
  <2> QED
    BY <1>1, <2>1, <2>2, ActiveIs DEF Incident, CarriesPassengers
<1>4. v.op.purpose = "recovery" => ActiveRiders(v) = {}
  BY <1>1, ActiveIs DEF PodGood, PurposeOK, RidersOK
<1> QED
  BY <1>1, <1>2, <1>3, <1>4 DEF Incident, v, f, e

\* What a good pod looks like in a save.
LEMMA AcceptableOf ==
  ASSUME IsJourney(J), NEW v, PodGood(v, J)
  PROVE  PodAcceptable(v)
<1>1. /\ v.riders \in Seq(Rider(J)) /\ v.stops \in Seq(Passenger) /\ v.phase \in Nat /\ v.op \in Purpose
      /\ v.activity \in Activities /\ v.occupied \in BOOLEAN /\ v.recorded \in BOOLEAN
      /\ RidersOK(v, J) /\ StopsOK(v, J) /\ FlagsOK(v) /\ PurposeOK(v)
  BY DEF PodGood, PodRecord
<1>2. /\ \A k \in DOMAIN v.riders : RiderLeg(v.riders[k]) = LegOf(v.riders[k], J)
      /\ \A id : ToOf(id) = J[id].to
      /\ Destinations(v) = Goals(v.riders, J) /\ StopSet(v) = Range(v.stops) /\ ActiveRiders(v) = Active(v.riders)
  <2>1. \A k \in DOMAIN v.riders : RiderLeg(v.riders[k]) = LegOf(v.riders[k], J)
    BY DEF RiderLeg, LegOf, J
  <2>2. \A id : ToOf(id) = J[id].to
    BY DEF ToOf, J
  <2>3. Destinations(v) = Goals(v.riders, J)
    BY <2>2, ActiveIs DEF Destinations, Goals, IdsAt
  <2> QED
    BY <2>1, <2>2, <2>3, ActiveIs DEF StopSet
<1>3. RidersAgree(v)
  <2>1. BoardsHere(v) => Len(v.riders) = Cardinality(ActiveRiders(v)) /\ ~v.recorded
    <3> SUFFICES ASSUME BoardsHere(v) PROVE Len(v.riders) = Cardinality(ActiveRiders(v)) /\ ~v.recorded
      OBVIOUS
    <3>1. Len(v.riders) \in Nat /\ DOMAIN v.riders = 1 .. Len(v.riders) /\ ~v.recorded
      BY <1>1 DEF RidersOK
    <3>2. ActiveRiders(v) = 1 .. Len(v.riders)
      BY <1>1, <3>1 DEF RidersOK, NoneDone, ActiveRiders
    <3> DEFINE m == Len(v.riders)
    <3>3. m \in Nat /\ ActiveRiders(v) = 1 .. m
      BY <3>1, <3>2
    <3> HIDE DEF m
    <3>4. Cardinality(1 .. m) = IF 1 > m THEN 0 ELSE m - 1 + 1
      BY <3>3, FS_Interval
    <3>5. Cardinality(ActiveRiders(v)) = m
      BY <3>3, <3>4
    <3> QED
      BY <3>1, <3>5 DEF m
  <2>2. (ActiveRiders(v) = {}) = (v.activity = "Idle" \/ MovesEmpty(v))
    <3>1. (ActiveRiders(v) = {}) <=> (v.activity = "Idle" \/ MovesEmpty(v))
      BY <1>1, <1>2 DEF RidersOK
    <3> QED
      BY <3>1
  <2>3. \A k \in DOMAIN v.riders :
            /\ RiderLeg(v.riders[k]) # ToOf(v.riders[k].id)
            /\ ~v.recorded => RiderLeg(v.riders[k]) = RiderLeg(v.riders[1])
            /\ ~v.recorded /\ v.riders[k].done => ToOf(v.riders[k].id) \notin StopSet(v)
            /\ BoardsHere(v) => RiderLeg(v.riders[k]) = v.at
    <3> SUFFICES ASSUME NEW k \in DOMAIN v.riders
                 PROVE  /\ RiderLeg(v.riders[k]) # ToOf(v.riders[k].id)
                        /\ ~v.recorded => RiderLeg(v.riders[k]) = RiderLeg(v.riders[1])
                        /\ ~v.recorded /\ v.riders[k].done => ToOf(v.riders[k].id) \notin StopSet(v)
                        /\ BoardsHere(v) => RiderLeg(v.riders[k]) = v.at
      OBVIOUS
    <3>1. 1 \in DOMAIN v.riders
      BY <1>1
    <3> QED
      BY <1>1, <1>2, <3>1 DEF RidersOK, RiderList, SameLegs, DoneGone, LegsFrom
  <2> QED
    BY <2>1, <2>2, <2>3 DEF RidersAgree
<1>4. FlagsAgree(v)
  <2>1. (v.activity = "Traveling") = (v.at = NoStation)
    BY <1>1 DEF FlagsOK
  <2> QED
    BY <1>1, <2>1 DEF FlagsAgree, FlagsOK
<1>5. Distinct(v.stops)
  <2> DEFINE m == Len(v.stops)
             S == 1 .. m
             f == v.stops
  <2>1. m \in Nat /\ DOMAIN f = S /\ f = [k \in S |-> f[k]] /\ \A k, l \in S : k # l => f[k] # f[l]
    BY <1>1 DEF StopsOK, StopsDiffer
  <2>2. Range(f) = {f[k] : k \in S}
    BY <2>1 DEF Range
  <2> HIDE DEF m, f
  <2>3. IsFiniteSet(S) /\ Cardinality(S) = m
    <3>1. m \in Nat
      BY <2>1
    <3>2. IsFiniteSet(1 .. m) /\ Cardinality(1 .. m) = IF 1 > m THEN 0 ELSE m - 1 + 1
      BY <3>1, FS_Interval
    <3> QED
      BY <3>1, <3>2
  <2> HIDE DEF S
  <2>4. Cardinality({f[k] : k \in S}) = Cardinality(S)
    BY <2>1, <2>3, ImagesCounted
  <2>5. Cardinality(Range(f)) = m
    BY <2>2, <2>3, <2>4
  <2> QED
    BY <2>5 DEF Distinct, m, f
<1>6. StopsAgree(v)
  <2> DEFINE unloads == v.activity = "Unloading" /\ (v.stops # <<>> \/ v.op.purpose = "unload")
             rides == v.activity \in {"Boarding", "Continuing"} \/ v.occupied
  <2>1. unloads => StopSet(v) = Destinations(v) \ {v.at}
    BY <1>1, <1>2 DEF StopsOK
  <2>2. v.activity = "Unloading" /\ ~unloads => v.stops = <<>> /\ Destinations(v) = {v.at}
    <3> SUFFICES ASSUME v.activity = "Unloading", ~unloads PROVE v.stops = <<>> /\ Destinations(v) = {v.at}
      OBVIOUS
    <3>1. v.stops = <<>> /\ v.at \in Goals(v.riders, J) /\ Range(v.stops) = Goals(v.riders, J) \ {v.at}
      BY <1>1 DEF StopsOK
    <3>2. Range(v.stops) = {}
      BY <3>1 DEF Range
    <3> QED
      BY <1>2, <3>1, <3>2
  <2>3. v.activity # "Unloading" /\ rides => StopSet(v) = Destinations(v) /\ (v.op.purpose = "service" => v.stops[1] = v.destination)
    BY <1>1, <1>2 DEF StopsOK, FlagsOK, Activities
  <2>4. v.activity # "Unloading" /\ ~rides => v.stops = <<>>
    BY <1>1 DEF StopsOK, MovesEmpty, Activities
  <2> QED
    BY <2>1, <2>2, <2>3, <2>4 DEF StopsAgree
<1>7. PurposeAgrees(v)
  <2>1. v.op.purpose \in {"service", "unload", "recovery"}
    BY <1>1 DEF Purpose
  <2> QED
    BY <1>1, <2>1 DEF PurposeAgrees, PurposeOK
<1> QED
  BY <1>3, <1>4, <1>5, <1>6, <1>7 DEF PodAcceptable

\* The invariant makes every state one that a save may take.
LEMMA ContractOf == Inv => SaveContractHolds
<1> SUFFICES ASSUME Inv PROVE SaveContractHolds
  OBVIOUS
<1>1. \A p \in Pods : PodAcceptable(pods[p])
  BY InvIs, AcceptableOf
<1> DEFINE s == Now
           n == submitted
<1>2. Good(s, J, n) /\ IsJourney(J) /\ s.queue = queue /\ s.pods = pods
  BY InvIs
<1> HIDE DEF s, n
<1>3. \A k \in DOMAIN s.queue : TripOK(s.queue[k], s.pods, J)
  BY <1>2, QueueAt
<1>4. \A k \in DOMAIN queue : TripOK(queue[k], pods, J)
  BY <1>2, <1>3
<1>5. \A k \in DOMAIN queue : LegOrigin(queue[k]) # ToOf(queue[k].id)
  BY <1>4, NamesOfTrips DEF TripOK
<1>6. \A k \in DOMAIN queue : \A p \in {queue[k].pod, queue[k].deferPod} \ {NoPod} : InService(pods[p])
  BY <1>4 DEF TripOK, PodServes
<1> QED
  BY <1>1, <1>5, <1>6 DEF SaveContractHolds

\* Every submitted order is in exactly one place, and the queue is in the order of the IDs.
THEOREM FleetAccountsForOrders == Spec => []OrdersAccounted
  BY FleetInductive, OrdersOf, PTL

\* Between two calls the fleet is always in a state that a save may take and both restores accept.
THEOREM FleetKeepsTheContract == Spec => []SaveContractHolds
  BY FleetInductive, ContractOf, PTL

\* The records, the holds and the purposes agree between two calls.
THEOREM FleetIncidentsAgree == Spec => []IncidentsConsistent
  BY FleetInductive, IncidentsOf, PTL

\* A trip can count on its pod between two calls.
THEOREM FleetPodsServe == Spec => []BoundPodServes
  BY FleetInductive, ServesOf, PTL
=============================================================================
