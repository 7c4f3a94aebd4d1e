---------------------------- MODULE StreamProofs -----------------------------
(***************************************************************************)
(* The stream of encoded frames, for every number of connections and every *)
(* limit.                                                                  *)
(*                                                                         *)
(* First the retention of the frames: every payload is counted once for    *)
(* each of its holders, the bytes stay within the budget, and a publisher  *)
(* that finds no room has a write to cancel.  The invariant says more than *)
(* the properties: the publisher holds every payload in one place only,    *)
(* and of a pending encoding what the publisher checked when it made it    *)
(* (an extra full frame meets no cached one).                              *)
(*                                                                         *)
(* Then what passes between the two sides: what the server sends is what   *)
(* the client can apply, and what the client answers is what the server    *)
(* expects.  Last the types, with the credit of a connection: the sum of   *)
(* the messages that no acknowledgment covers.                             *)
(***************************************************************************)
EXTENDS Stream, ListProofs

-----------------------------------------------------------------------------
(* Sums of sizes.  Bytes is a fold of the community modules: the lemmas    *)
(* below give its equations.  Induction over finite sets is by a smallest  *)
(* counterexample.                                                         *)

\* Among sets of subsets of a finite set there is a smallest one.
LEMMA SmallestSet ==
  ASSUME NEW D, IsFiniteSet(D), NEW B \in SUBSET (SUBSET D), B # {}
  PROVE  \E s \in B : \A u \in B : u \subseteq s => u = s
<1> DEFINE R == StrictSubsetOrdering(D)
<1>1. IsWellFoundedOn(R, FiniteSubsetsOf(D))
  BY FS_StrictSubsetOrderingWellFounded
<1>2. FiniteSubsetsOf(D) = SUBSET D
  BY FS_FiniteSubsetsOfFinite
<1>3. \E s \in B : \A u \in B : ~ (<<u, s>> \in R)
  <2> HIDE DEF R
  <2> QED
    BY <1>1, <1>2, WFMin
<1> QED
  BY <1>3 DEF StrictSubsetOrdering

Pick(s) == CHOOSE x \in s : TRUE

\* f gives the sum of the sizes of every subset of s.
IsSum(p, S, f) ==
  f = [s \in SUBSET S |-> IF s = {} THEN 0 ELSE p[Pick(s)].size + f[s \ {Pick(s)}]]
SumOf(p, S) == CHOOSE f : IsSum(p, S, f)
Total(p, S) == SumOf(p, S)[S]

\* Bytes is this sum.
LEMMA BytesTotal == ASSUME NEW S PROVE Bytes(S) = Total(payloads, S)
BY DEF Bytes, MapThenSumSet, MapThenFoldSet, Total, SumOf, IsSum, Pick

\* The member that a fold takes first.
LEMMA PickMember == ASSUME NEW s, s # {} PROVE Pick(s) \in s
BY DEF Pick

\* What IsSum says of one set.
LEMMA SumEquation ==
  ASSUME NEW p, NEW S, NEW f, IsSum(p, S, f)
  PROVE  \A s \in SUBSET S : f[s] = IF s = {} THEN 0 ELSE p[Pick(s)].size + f[s \ {Pick(s)}]
<1> DEFINE g == [s \in SUBSET S |-> IF s = {} THEN 0 ELSE p[Pick(s)].size + f[s \ {Pick(s)}]]
<1>1. f = g
  BY DEF IsSum
<1>2. \A s \in SUBSET S : g[s] = IF s = {} THEN 0 ELSE p[Pick(s)].size + f[s \ {Pick(s)}]
  OBVIOUS
<1> HIDE DEF g
<1> QED
  BY <1>1, <1>2

\* The sums of a set do not depend on what it is a part of.
LEMMA SumUnique ==
  ASSUME NEW D, IsFiniteSet(D), NEW p, NEW S \in SUBSET D, NEW U \in SUBSET S,
         NEW f, IsSum(p, S, f), NEW g, IsSum(p, U, g)
  PROVE  \A s \in SUBSET U : f[s] = g[s]
<1> DEFINE B == {s \in SUBSET U : f[s] # g[s]}
<1> SUFFICES ASSUME B # {} PROVE FALSE
  OBVIOUS
<1>1. PICK s \in B : \A u \in B : u \subseteq s => u = s
  <2>1. B \in SUBSET (SUBSET D)
    OBVIOUS
  <2> HIDE DEF B
  <2> QED
    BY <2>1, SmallestSet
<1>2. s # {}
  BY SumEquation
<1>3. s \ {Pick(s)} \notin B
  BY <1>1, <1>2, PickMember
<1>4. s \ {Pick(s)} \in SUBSET U
  OBVIOUS
<1>5. f[s \ {Pick(s)}] = g[s \ {Pick(s)}]
  BY <1>3, <1>4
<1>6. f[s] = p[Pick(s)].size + f[s \ {Pick(s)}]
  BY <1>2, SumEquation
<1>7. g[s] = p[Pick(s)].size + g[s \ {Pick(s)}]
  BY <1>2, SumEquation
<1> QED
  BY <1>5, <1>6, <1>7

\* Every finite set has its sums.
LEMMA SumExists ==
  ASSUME NEW D, IsFiniteSet(D), NEW p, NEW S \in SUBSET D
  PROVE  IsSum(p, S, SumOf(p, S))
<1> DEFINE B == {s \in SUBSET D : ~ \E f : IsSum(p, s, f)}
<1>1. B = {}
  <2> SUFFICES ASSUME B # {} PROVE FALSE
    OBVIOUS
  <2>1. PICK s \in B : \A u \in B : u \subseteq s => u = s
    <3>1. B \in SUBSET (SUBSET D)
      OBVIOUS
    <3> HIDE DEF B
    <3> QED
      BY <3>1, SmallestSet
  <2> DEFINE F(u) == SumOf(p, u)
  <2>2. \A u \in SUBSET s : u # s => IsSum(p, u, F(u))
    BY <2>1 DEF SumOf
  <2> DEFINE v(u) == IF u = {} THEN 0 ELSE IF u = s THEN p[Pick(s)].size + F(s \ {Pick(s)})[s \ {Pick(s)}] ELSE F(u)[u]
  <2> DEFINE h == [u \in SUBSET s |-> v(u)]
  <2>3. \A u \in SUBSET s : u # s => v(u) = F(u)[u]
    BY <2>2, SumEquation
  <2>4. ASSUME NEW u \in SUBSET s, u # {}
        PROVE  v(u) = p[Pick(u)].size + h[u \ {Pick(u)}]
    <3> DEFINE t == u \ {Pick(u)}
    <3>1. t \in SUBSET s /\ t # s /\ t \in SUBSET u
      BY <2>4, PickMember
    <3>2. h[t] = F(t)[t]
      BY <2>3, <3>1
    <3>3. CASE u = s
      BY <3>2, <3>3, <2>4
    <3>4. CASE u # s
      <4>1. IsSum(p, u, F(u)) /\ IsSum(p, t, F(t))
        BY <2>2, <3>1, <3>4
      <4>2. F(u)[t] = F(t)[t]
        <5> HIDE DEF F
        <5> QED
          BY <4>1, <3>1, SumUnique
      <4>3. F(u)[u] = p[Pick(u)].size + F(u)[t]
        <5> HIDE DEF F
        <5>1. u \in SUBSET u
          OBVIOUS
        <5> QED
          BY <4>1, <5>1, <2>4, SumEquation
      <4> QED
        BY <4>2, <4>3, <3>2, <3>4, <2>4
    <3> QED
      BY <3>3, <3>4
  <2>5. IsSum(p, s, h)
    <3>1. \A u \in SUBSET s : v(u) = IF u = {} THEN 0 ELSE p[Pick(u)].size + h[u \ {Pick(u)}]
      BY <2>4
    <3>2. h = [u \in SUBSET s |-> IF u = {} THEN 0 ELSE p[Pick(u)].size + h[u \ {Pick(u)}]]
      BY <3>1
    <3> QED
      BY <3>2 DEF IsSum
  <2> QED
    BY <2>1, <2>5
<1>2. \E f : IsSum(p, S, f)
  BY <1>1
<1> QED
  BY <1>2 DEF SumOf

\* Nothing weighs nothing.
LEMMA TotalEmpty == ASSUME NEW p PROVE Total(p, {}) = 0
<1>1. IsFiniteSet({})
  BY FS_EmptySet
<1>2. IsSum(p, {}, SumOf(p, {}))
  BY <1>1, SumExists
<1> QED
  BY <1>2, SumEquation DEF Total

\* The step of the fold.
LEMMA TotalPick ==
  ASSUME NEW S, IsFiniteSet(S), S # {}, NEW p
  PROVE  Total(p, S) = p[Pick(S)].size + Total(p, S \ {Pick(S)})
<1> DEFINE T == S \ {Pick(S)}
<1>1. T \in SUBSET S /\ S \in SUBSET S
  OBVIOUS
<1>2. IsSum(p, S, SumOf(p, S)) /\ IsSum(p, T, SumOf(p, T))
  BY <1>1, SumExists
<1>3. SumOf(p, S)[S] = p[Pick(S)].size + SumOf(p, S)[T]
  BY <1>1, <1>2, SumEquation
<1>4. SumOf(p, S)[T] = SumOf(p, T)[T]
  <2> HIDE DEF T
  <2>1. T \in SUBSET T
    OBVIOUS
  <2> QED
    BY <1>1, <1>2, <2>1, SumUnique
<1> QED
  BY <1>3, <1>4 DEF Total

\* Sizes are natural numbers, and so are their sums.
LEMMA TotalNat ==
  ASSUME NEW S, IsFiniteSet(S), NEW p, \A x \in S : p[x].size \in Nat
  PROVE  Total(p, S) \in Nat
<1> DEFINE B == {s \in SUBSET S : Total(p, s) \notin Nat}
<1> SUFFICES ASSUME B # {} PROVE FALSE
  OBVIOUS
<1>1. PICK s \in B : \A u \in B : u \subseteq s => u = s
  <2>1. B \in SUBSET (SUBSET S)
    OBVIOUS
  <2> HIDE DEF B
  <2> QED
    BY <2>1, SmallestSet
<1>2. s # {}
  BY TotalEmpty
<1>3. IsFiniteSet(s) /\ Pick(s) \in s
  BY <1>2, FS_Subset, PickMember
<1>4. Total(p, s) = p[Pick(s)].size + Total(p, s \ {Pick(s)})
  BY <1>2, <1>3, TotalPick
<1>5. Total(p, s \ {Pick(s)}) \in Nat
  BY <1>1, <1>3
<1> QED
  BY <1>3, <1>4, <1>5

\* Any element may be taken out first.
LEMMA TotalRemove ==
  ASSUME NEW S, IsFiniteSet(S), NEW p, \A x \in S : p[x].size \in Nat, NEW y \in S
  PROVE  Total(p, S) = p[y].size + Total(p, S \ {y})
<1> DEFINE B == {s \in SUBSET S : \E x \in s : Total(p, s) # p[x].size + Total(p, s \ {x})}
<1> SUFFICES ASSUME B # {} PROVE FALSE
  OBVIOUS
<1>1. PICK s \in B : \A u \in B : u \subseteq s => u = s
  <2>1. B \in SUBSET (SUBSET S)
    OBVIOUS
  <2> HIDE DEF B
  <2> QED
    BY <2>1, SmallestSet
<1>2. PICK x \in s : Total(p, s) # p[x].size + Total(p, s \ {x})
  OBVIOUS
<1> DEFINE z == Pick(s)
<1>3. IsFiniteSet(s) /\ z \in s
  BY FS_Subset, PickMember
<1>4. Total(p, s) = p[z].size + Total(p, s \ {z})
  BY <1>3, TotalPick
<1>5. x # z
  BY <1>2, <1>4
<1>6. Total(p, s \ {z}) = p[x].size + Total(p, (s \ {z}) \ {x})
  <2>1. s \ {z} \notin B /\ x \in s \ {z} /\ s \ {z} \in SUBSET S
    BY <1>1, <1>3, <1>5
  <2> QED
    BY <2>1
<1>7. Total(p, s \ {x}) = p[z].size + Total(p, (s \ {x}) \ {z})
  <2>1. s \ {x} \notin B /\ z \in s \ {x} /\ s \ {x} \in SUBSET S
    BY <1>1, <1>3, <1>5
  <2> QED
    BY <2>1
<1>8. (s \ {x}) \ {z} = (s \ {z}) \ {x}
  OBVIOUS
<1>9. Total(p, (s \ {z}) \ {x}) \in Nat
  <2>1. (s \ {z}) \ {x} \in SUBSET S
    OBVIOUS
  <2>2. IsFiniteSet((s \ {z}) \ {x}) /\ \A t \in (s \ {z}) \ {x} : p[t].size \in Nat
    BY <2>1, FS_Subset
  <2> QED
    BY <2>2, TotalNat
<1>10. p[x].size \in Nat /\ p[z].size \in Nat
  BY <1>3
<1> DEFINE rest == Total(p, (s \ {z}) \ {x})
<1>11. Total(p, s) = p[z].size + (p[x].size + rest)
  BY <1>4, <1>6
<1>12. p[x].size + Total(p, s \ {x}) = p[x].size + (p[z].size + rest)
  BY <1>7, <1>8
<1> HIDE DEF z, B, rest
<1>13. p[x].size + (p[z].size + rest) = p[z].size + (p[x].size + rest)
  BY <1>9, <1>10 DEF rest
<1> QED
  BY <1>2, <1>11, <1>12, <1>13

\* The sum depends on the sizes of its members only.
LEMMA TotalSame ==
  ASSUME NEW S, IsFiniteSet(S), NEW p, NEW q, \A x \in S : p[x].size = q[x].size
  PROVE  Total(p, S) = Total(q, S)
<1> DEFINE B == {s \in SUBSET S : Total(p, s) # Total(q, s)}
<1> SUFFICES ASSUME B # {} PROVE FALSE
  OBVIOUS
<1>1. PICK s \in B : \A u \in B : u \subseteq s => u = s
  <2>1. B \in SUBSET (SUBSET S)
    OBVIOUS
  <2> HIDE DEF B
  <2> QED
    BY <2>1, SmallestSet
<1>2. s # {}
  BY TotalEmpty
<1>3. IsFiniteSet(s) /\ Pick(s) \in s
  BY <1>2, FS_Subset, PickMember
<1>4. /\ Total(p, s) = p[Pick(s)].size + Total(p, s \ {Pick(s)})
      /\ Total(q, s) = q[Pick(s)].size + Total(q, s \ {Pick(s)})
  BY <1>2, <1>3, TotalPick
<1>5. Total(p, s \ {Pick(s)}) = Total(q, s \ {Pick(s)})
  BY <1>1, <1>3
<1> QED
  BY <1>3, <1>4, <1>5

\* A part and the rest.
LEMMA TotalSplit ==
  ASSUME NEW S, IsFiniteSet(S), NEW p, \A x \in S : p[x].size \in Nat, NEW U \in SUBSET S
  PROVE  Total(p, S) = Total(p, U) + Total(p, S \ U)
<1> DEFINE B == {s \in SUBSET S : Total(p, S) # Total(p, s) + Total(p, S \ s)}
<1> SUFFICES ASSUME B # {} PROVE FALSE
  OBVIOUS
<1>1. PICK s \in B : \A u \in B : u \subseteq s => u = s
  <2>1. B \in SUBSET (SUBSET S)
    OBVIOUS
  <2> HIDE DEF B
  <2> QED
    BY <2>1, SmallestSet
<1>2. \A t \in SUBSET S : IsFiniteSet(t) /\ (\A x \in t : p[x].size \in Nat) /\ Total(p, t) \in Nat
  BY FS_Subset, TotalNat
<1>3. s # {}
  <2>1. S \ {} = S
    OBVIOUS
  <2>2. Total(p, S) = 0 + Total(p, S)
    BY <1>2
  <2> QED
    BY <2>1, <2>2, TotalEmpty
<1> DEFINE z == Pick(s)
<1>4. z \in s
  BY <1>3, PickMember
<1>5. Total(p, s) = p[z].size + Total(p, s \ {z})
  BY <1>2, <1>4, TotalRemove
<1>6. Total(p, S \ (s \ {z})) = p[z].size + Total(p, S \ s)
  <2>1. z \in S \ (s \ {z}) /\ (S \ (s \ {z})) \ {z} = S \ s /\ S \ (s \ {z}) \in SUBSET S
    BY <1>4
  <2> HIDE DEF z, B
  <2> QED
    BY <2>1, <1>2, TotalRemove
<1>7. Total(p, S) = Total(p, s \ {z}) + Total(p, S \ (s \ {z}))
  BY <1>1, <1>4
<1>8. /\ p[z].size \in Nat /\ Total(p, s \ {z}) \in Nat /\ Total(p, S \ s) \in Nat
      /\ Total(p, s) \in Nat /\ Total(p, S \ (s \ {z})) \in Nat
  BY <1>2, <1>4
<1>9. Total(p, S) # Total(p, s) + Total(p, S \ s)
  OBVIOUS
<1> HIDE DEF z, B
<1> QED
  BY <1>5, <1>6, <1>7, <1>8, <1>9

-----------------------------------------------------------------------------
(* The invariant of the publisher.                                         *)

SubFields == {"pc", "broken", "contract", "stream", "sequence", "sent", "bytes", "lastACK", "heartbeat", "heartbeats",
              "writing"}

\* A subscriber with its types, the credit counter aside.
SubOK(s) ==
  /\ DOMAIN s = SubFields
  /\ s.pc \in {"off", "accepting", "hello", "ready"}
  /\ s.contract \in Contracts \cup {None}
  /\ s.stream \in 0 .. MaxStream /\ s.sequence \in 0 .. MaxCounter
  /\ s.sent \in Seq(Sent) /\ s.lastACK \in Sent
  /\ s.heartbeat \in Nat /\ s.heartbeats \in Nat
  /\ s.writing \in Ids \cup {0}

SubsOK(b) == DOMAIN b = Conns /\ \A c \in Conns : SubOK(b[c])

TypeInv ==
  /\ source \in Frame /\ needFull \in BOOLEAN
  /\ frame \in Frame \cup {None} /\ stream \in 0 .. MaxStream /\ sequence \in 0 .. MaxCounter
  /\ streams \in 0 .. MaxStream
  /\ history \in Seq(Ids) /\ full \in Ids \cup {0}
  /\ payloads \in [Ids -> Payload \cup {None}]
  /\ work \in Work
  /\ SubsOK(subs)

\* What a pending encoding is made for still holds when it is admitted.
PendingOK(w, f, st, sq, n, cached) ==
  /\ w.frame \in Frame /\ w.size \in 1 .. MaxMessage
  /\ w.kind \in {"delta", "large"} => sq # 0 /\ sq # MaxCounter /\ SameChain(f, w.frame)
  /\ w.kind = "extra" => sq # 0 /\ w.frame = f /\ cached = 0
  /\ w.kind = "reset" => st < n

WorkInv ==
  /\ (frame = None <=> sequence = 0) /\ (stream = 0 <=> sequence = 0) /\ stream <= streams
  /\ work.id # 0 <=> work.pc = "install"
  /\ work.pc \in {"admit", "wait", "install"} => PendingOK(work, frame, stream, sequence, streams, full)
  /\ work.pc = "check" => sequence # 0

\* The references of every payload are those of the publisher (one) and of
\* the connections that write it.
Leased(p, held, w) ==
  \A i \in Ids :
    /\ p[i] # None => p[i].refs = (IF i \in held THEN 1 ELSE 0) + Cardinality({c \in Conns : w[c] = i})
    /\ (i \in held \/ \E c \in Conns : w[c] = i) => p[i] # None

Writing(b) == [c \in Conns |-> b[c].writing]
Held(h, f, i) == ToSet(h) \cup ({f, i} \ {0})

\* The publisher holds every payload in one place.
Distinct(h, f, i) ==
  /\ \A m, n \in DOMAIN h : h[m] = h[n] => m = n
  /\ \A n \in DOMAIN h : h[n] # f /\ h[n] # i
  /\ f # 0 => f # i

LiveOf(p) == {i \in Ids : p[i] # None}

LeaseInv ==
  /\ Distinct(history, full, work.id)
  /\ Leased(payloads, Held(history, full, work.id), Writing(subs))
  /\ retained = Bytes(Live) /\ retained <= RetainedBytes
  /\ \A c \in Conns : subs[c].writing # 0 => \E n \in DOMAIN writers : writers[n] = c
  /\ writers \in Seq(Conns)

\* Messages.
Publication == [kind : {"delta", "full"}, stream : 1 .. MaxStream, sequence : 1 .. MaxCounter, base : 0 .. MaxCounter,
                from : Frame \cup {None}, frame : Frame]
Beat == [kind : {"heartbeat"}, token : Nat]
Ack == [kind : {"ack"}, stream : 1 .. MaxStream, sequence : 1 .. MaxCounter]
IsBeat(m) == m.kind = "heartbeat"

SocketInv == inbox \in [Conns -> Seq(Publication \cup Beat)] /\ controls \in [Conns -> Seq(Ack \cup Beat)]

PublisherInv == TypeInv /\ WorkInv /\ LeaseInv /\ SocketInv

-----------------------------------------------------------------------------
(* Release.                                                                *)

\* What the assumptions say of the identifiers and the limits.
LEMMA IdsFinite ==
  /\ IsFiniteSet(Ids) /\ IsFiniteSet(Conns) /\ Cardinality(Conns) \in Nat
  /\ HistoryCount \in Nat \ {0} /\ MaxMessage \in Nat \ {0} /\ HistoryBytes \in Nat \ {0}
  /\ MaxCounter \in Nat \ {0} /\ MaxStream \in Nat \ {0}
  /\ Ids \subseteq Nat \ {0}
  /\ Cardinality(Ids) = (HistoryCount + 2) + Cardinality(Conns)
<1>1. /\ IsFiniteSet(Conns) /\ HistoryCount \in Nat \ {0} /\ MaxMessage \in Nat \ {0} /\ HistoryBytes \in Nat \ {0}
      /\ MaxCounter \in Nat \ {0} /\ MaxStream \in Nat \ {0}
  BY LimitAssumption
<1>2. Cardinality(Conns) \in Nat
  BY <1>1, FS_CardinalityType
<1> DEFINE n == HistoryCount + 2 + Cardinality(Conns)
<1>3. n \in Nat /\ n >= 1
  BY <1>1, <1>2
<1>4. IsFiniteSet(1 .. n) /\ Cardinality(1 .. n) = n
  <2> HIDE DEF n
  <2>1. 1 \in Int /\ n \in Int /\ ~(1 > n) /\ n-1+1 = n
    BY <1>3
  <2> QED
    BY <2>1, FS_Interval
<1>5. Ids = 1 .. n
  BY DEF Ids
<1> QED
  BY <1>1, <1>2, <1>3, <1>4, <1>5

\* The writers of a payload can be counted.
LEMMA WritersCount ==
  ASSUME NEW w, NEW i
  PROVE  LET s == {c \in Conns : w[c] = i}
         IN  IsFiniteSet(s) /\ Cardinality(s) \in Nat /\ (Cardinality(s) = 0 <=> s = {})
BY IdsFinite, FS_Subset, FS_CardinalityType, FS_EmptySet

\* release keeps the payload's contents.
LEMMA ReleaseContents ==
  ASSUME payloads \in [Ids -> Payload \cup {None}], NEW gone \in SUBSET LiveOf(payloads)
  PROVE  /\ Release(gone) \in [Ids -> Payload \cup {None}]
         /\ \A i \in Ids : /\ i \notin gone => Release(gone)[i] = payloads[i]
                           /\ i \in gone /\ payloads[i].refs = 1 => Release(gone)[i] = None
                           /\ i \in gone /\ payloads[i].refs # 1 =>
                                /\ Release(gone)[i] # None
                                /\ Release(gone)[i] = [payloads[i] EXCEPT !.refs = @ - 1]
                                /\ Release(gone)[i].refs = payloads[i].refs - 1
                                /\ Release(gone)[i].size = payloads[i].size
<1>1. ASSUME NEW i \in Ids
      PROVE  /\ Release(gone)[i] \in Payload \cup {None}
             /\ i \notin gone => Release(gone)[i] = payloads[i]
             /\ i \in gone /\ payloads[i].refs = 1 => Release(gone)[i] = None
             /\ i \in gone /\ payloads[i].refs # 1 =>
                  /\ Release(gone)[i] \in Payload
                  /\ Release(gone)[i] = [payloads[i] EXCEPT !.refs = @ - 1]
                  /\ Release(gone)[i].refs = payloads[i].refs - 1
                  /\ Release(gone)[i].size = payloads[i].size
  <2>1. CASE i \notin gone
    BY <2>1 DEF Release
  <2>2. CASE i \in gone /\ payloads[i].refs = 1
    BY <2>2 DEF Release
  <2>3. CASE i \in gone /\ payloads[i].refs # 1
    <3>1. payloads[i] \in Payload
      BY <2>3 DEF LiveOf
    <3>2. payloads[i].refs - 1 \in Nat \ {0}
      BY <3>1, <2>3 DEF Payload
    <3> DEFINE new == [payloads[i] EXCEPT !.refs = payloads[i].refs - 1]
    <3>3. new \in Payload /\ new.refs = payloads[i].refs - 1 /\ new.size = payloads[i].size
      BY <3>1, <3>2 DEF Payload
    <3>4. Release(gone)[i] = new
      BY <2>3 DEF Release
    <3> QED
      BY <3>3, <3>4, <2>3
  <2> QED
    BY <2>1, <2>2, <2>3
<1>2. Release(gone) = [i \in Ids |-> Release(gone)[i]]
  BY DEF Release
<1>3. Release(gone) \in [Ids -> Payload \cup {None}]
  BY <1>1, <1>2
<1> QED
  BY <1>1, <1>3, PayloadAssumption

\* What is left of the leases when the publisher lets go of some payloads.
LEMMA ReleaseLeased ==
  ASSUME payloads \in [Ids -> Payload \cup {None}],
         NEW held, NEW w, Leased(payloads, held, w), NEW gone \in SUBSET Ids, gone \subseteq held
  PROVE  gone \subseteq LiveOf(payloads) /\ Leased(Release(gone), held \ gone, w)
<1>1. gone \in SUBSET LiveOf(payloads)
  BY DEF Leased, LiveOf
<1>2. SUFFICES ASSUME NEW i \in Ids
               PROVE  /\ Release(gone)[i] # None
                           => Release(gone)[i].refs = (IF i \in held \ gone THEN 1 ELSE 0) + Cardinality({c \in Conns : w[c] = i})
                      /\ (i \in held \ gone \/ \E c \in Conns : w[c] = i) => Release(gone)[i] # None
  BY <1>1 DEF Leased
<1> DEFINE s == {c \in Conns : w[c] = i}
<1>3. Cardinality(s) \in Nat /\ (Cardinality(s) = 0 <=> s = {})
  BY WritersCount
<1>4. /\ payloads[i] # None => payloads[i].refs = (IF i \in held THEN 1 ELSE 0) + Cardinality(s)
      /\ (i \in held \/ s # {}) => payloads[i] # None
  BY DEF Leased
<1>5. \A j \in Ids : /\ j \notin gone => Release(gone)[j] = payloads[j]
                     /\ j \in gone /\ payloads[j].refs = 1 => Release(gone)[j] = None
                     /\ j \in gone /\ payloads[j].refs # 1 => Release(gone)[j] # None /\ Release(gone)[j].refs = payloads[j].refs - 1
  BY <1>1, ReleaseContents
<1>6. CASE i \notin gone
  BY <1>6, <1>4, <1>5
<1>7. CASE i \in gone /\ payloads[i].refs = 1
  <2>1. i \in held /\ payloads[i] # None /\ Release(gone)[i] = None
    BY <1>7, <1>4, <1>5
  <2>2. Cardinality(s) = 0
    BY <1>7, <1>4, <1>3, <2>1
  <2> QED
    BY <1>7, <2>1, <2>2, <1>3
<1>8. CASE i \in gone /\ payloads[i].refs # 1
  <2>1. i \in held /\ payloads[i] # None /\ Release(gone)[i] # None /\ Release(gone)[i].refs = payloads[i].refs - 1
    BY <1>8, <1>4, <1>5
  <2>2. payloads[i].refs = 1 + Cardinality(s)
    BY <2>1, <1>4
  <2> QED
    BY <1>8, <2>1, <2>2, <1>3
<1> QED
  BY <1>6, <1>7, <1>8

\* Sizes of live payloads.
LEMMA LiveSizes ==
  ASSUME NEW p \in [Ids -> Payload \cup {None}]
  PROVE  \A s \in SUBSET LiveOf(p) : IsFiniteSet(s) /\ (\A x \in s : p[x].size \in Nat) /\ Total(p, s) \in Nat
<1>1. IsFiniteSet(LiveOf(p))
  BY IdsFinite, FS_Subset DEF LiveOf
<1>2. \A x \in LiveOf(p) : p[x].size \in Nat
  BY IdsFinite DEF LiveOf, Payload
<1>3. \A s \in SUBSET LiveOf(p) : IsFiniteSet(s) /\ \A x \in s : p[x].size \in Nat
  BY <1>1, <1>2, FS_Subset
<1> QED
  BY <1>3, TotalNat

\* The bytes that are left are those of the payloads that are left.
LEMMA ReleaseBytes ==
  ASSUME payloads \in [Ids -> Payload \cup {None}], retained = Bytes(Live),
         NEW gone \in SUBSET LiveOf(payloads)
  PROVE  /\ RetainedWithout(gone) = Total(Release(gone), LiveOf(Release(gone)))
         /\ RetainedWithout(gone) \in Nat /\ RetainedWithout(gone) <= retained
<1> DEFINE last == {i \in gone : payloads[i].refs = 1}
           all == LiveOf(payloads)
           new == Release(gone)
<1>1. retained = Total(payloads, all)
  BY BytesTotal DEF Live, LiveOf
<1>2. RetainedWithout(gone) = retained - Total(payloads, last)
  BY BytesTotal DEF RetainedWithout
<1>3. last \in SUBSET all /\ all \in SUBSET all /\ all \ last \in SUBSET all
  OBVIOUS
<1>4. /\ Total(payloads, all) \in Nat /\ Total(payloads, last) \in Nat /\ Total(payloads, all \ last) \in Nat
      /\ IsFiniteSet(all) /\ IsFiniteSet(all \ last) /\ \A x \in all : payloads[x].size \in Nat
  <2> HIDE DEF all, last
  <2> QED
    BY <1>3, LiveSizes DEF all
<1>5. Total(payloads, all) = Total(payloads, last) + Total(payloads, all \ last)
  <2> HIDE DEF all, last
  <2> QED
    BY <1>3, <1>4, TotalSplit
<1>6. \A i \in Ids : /\ i \notin gone => new[i] = payloads[i]
                     /\ i \in gone /\ payloads[i].refs = 1 => new[i] = None
                     /\ i \in gone /\ payloads[i].refs # 1 => new[i] # None /\ new[i].size = payloads[i].size
  BY ReleaseContents
<1>7. LiveOf(new) = all \ last
  <2> HIDE DEF new
  <2> QED
    BY <1>6 DEF LiveOf
<1>8. \A x \in all \ last : payloads[x].size = new[x].size
  <2> HIDE DEF new
  <2> QED
    BY <1>6 DEF LiveOf
<1>9. Total(payloads, all \ last) = Total(new, all \ last)
  <2> HIDE DEF new, all, last
  <2> QED
    BY <1>4, <1>8, TotalSame
<1> HIDE DEF new, all, last
<1>10. retained - Total(payloads, last) = Total(payloads, all \ last)
  BY <1>1, <1>4, <1>5
<1> QED
  <2>1. RetainedWithout(gone) = Total(new, LiveOf(new))
    BY <1>2, <1>7, <1>9, <1>10
  <2>2. RetainedWithout(gone) \in Nat /\ RetainedWithout(gone) <= retained
    BY <1>1, <1>2, <1>4, <1>5, <1>10
  <2> QED
    BY <2>1, <2>2 DEF new

-----------------------------------------------------------------------------
(* Types and the pending encoding.                                         *)

\* A closed socket or a canceled context changes nothing else.
LEMMA BreakOK ==
  ASSUME SubsOK(subs), NEW cs
  PROVE  /\ SubsOK(Break(cs)) /\ Writing(Break(cs)) = Writing(subs)
         /\ \A c \in Conns : Break(cs)[c] = subs[c] \/ Break(cs)[c] = [subs[c] EXCEPT !.broken = TRUE]
<1>1. ASSUME NEW c \in Conns
      PROVE  /\ SubOK(Break(cs)[c]) /\ Break(cs)[c].writing = subs[c].writing
             /\ Break(cs)[c] = subs[c] \/ Break(cs)[c] = [subs[c] EXCEPT !.broken = TRUE]
  <2>1. SubOK(subs[c])
    BY DEF SubsOK
  <2>2. CASE c \in cs
    <3>1. Break(cs)[c] = [subs[c] EXCEPT !.broken = TRUE]
      BY <2>2 DEF Break
    <3> QED
      BY <3>1, <2>1 DEF SubOK, SubFields
  <2>3. CASE c \notin cs
    BY <2>1, <2>3 DEF Break
  <2> QED
    BY <2>2, <2>3
<1>2. DOMAIN Break(cs) = Conns
  BY DEF Break
<1> QED
  BY <1>1, <1>2 DEF SubsOK, Writing

\* A step of one handler.
LEMMA SubChange ==
  ASSUME SubsOK(subs), NEW c \in Conns, NEW new, SubOK(new)
  PROVE  SubsOK([subs EXCEPT ![c] = new])
BY DEF SubsOK

\* What the publisher owns is live.
LEMMA OwnedHeld ==
  ASSUME PublisherInv
  PROVE  /\ Owned \subseteq Held(history, full, work.id) /\ CachedFull \subseteq Owned
         /\ Held(history, full, work.id) \in SUBSET Ids
         /\ Held(history, full, work.id) \subseteq LiveOf(payloads)
         /\ work.id # 0 => work.id \in Held(history, full, work.id)
<1>1. history \in Seq(Ids) /\ full \in Ids \cup {0} /\ work.id \in Ids \cup {0}
  BY DEF PublisherInv, TypeInv, Work
<1>2. ToSet(history) \subseteq Ids
  BY <1>1 DEF ToSet
<1> QED
  BY <1>1, <1>2 DEF Held, Owned, CachedFull, PublisherInv, LeaseInv, Leased, LiveOf

\* What a release keeps of the types.
LEMMA ReleaseTypes ==
  ASSUME PublisherInv, NEW gone, gone \subseteq Held(history, full, work.id)
  PROVE  Release(gone) \in [Ids -> Payload \cup {None}]
<1>1. gone \in SUBSET LiveOf(payloads)
  BY OwnedHeld
<1> QED
  BY <1>1, ReleaseContents DEF PublisherInv, TypeInv


\* Nothing pending.
LEMMA IdleWork ==
  /\ Idle \in Work /\ Idle.pc = "idle" /\ Idle.id = 0 /\ Idle.frame = None
  /\ LET w == [Idle EXCEPT !.pc = "done"] IN w \in Work /\ w.pc = "done" /\ w.id = 0 /\ w.frame = None
  /\ \A b \in BOOLEAN : LET w == [Idle EXCEPT !.pc = "check", !.need = b]
                        IN  w \in Work /\ w.pc = "check" /\ w.id = 0 /\ w.frame = None
<1>1. 0 \in 0 .. MaxMessage
  BY IdsFinite
<1>2. Idle \in Work /\ Idle.pc = "idle" /\ Idle.id = 0 /\ Idle.frame = None
  BY <1>1 DEF Idle, Work, Kinds
<1>3. LET w == [Idle EXCEPT !.pc = "done"] IN w \in Work /\ w.pc = "done" /\ w.id = 0 /\ w.frame = None
  BY <1>2 DEF Work, Kinds
<1>4. ASSUME NEW b \in BOOLEAN
      PROVE  LET w == [Idle EXCEPT !.pc = "check", !.need = b]
             IN  w \in Work /\ w.pc = "check" /\ w.id = 0 /\ w.frame = None
  <2> DEFINE v == [Idle EXCEPT !.pc = "check"]
  <2>1. v \in Work /\ v.pc = "check" /\ v.id = 0 /\ v.frame = None
    BY <1>2 DEF Work, Kinds
  <2> HIDE DEF v
  <2>2. [v EXCEPT !.need = b] \in Work /\ [v EXCEPT !.need = b].pc = "check" /\ [v EXCEPT !.need = b].id = 0
        /\ [v EXCEPT !.need = b].frame = None
    BY <2>1 DEF Work, Kinds
  <2> QED
    BY <2>2 DEF v
<1> QED
  BY <1>2, <1>3, <1>4

\* Forget, EndRun.
LEMMA ForgetTypes == ASSUME PublisherInv, Forget \/ EndRun PROVE TypeInv' /\ WorkInv'
<1>1. payloads' \in [Ids -> Payload \cup {None}]
  BY OwnedHeld, ReleaseTypes DEF Forget, EndRun
<1>2. <<>> \in Seq(Ids)
  OBVIOUS
<1>3. /\ source' = source /\ streams' = streams /\ subs' = subs
      /\ history' = <<>> /\ full' = 0
  BY DEF Forget, EndRun
<1>4. CASE Forget
  <2>1. work' = work /\ work.pc = "idle" /\ frame' = None /\ stream' = 0 /\ sequence' = 0 /\ needFull' = FALSE
    BY <1>4 DEF Forget
  <2>2. TypeInv'
    <3>1. 0 \in 0 .. MaxStream /\ 0 \in 0 .. MaxCounter /\ FALSE \in BOOLEAN
      BY IdsFinite
    <3>2. source \in Frame /\ streams \in 0 .. MaxStream /\ work \in Work /\ SubsOK(subs)
      BY DEF PublisherInv, TypeInv
    <3> QED
      BY <1>1, <1>2, <1>3, <2>1, <3>1, <3>2 DEF TypeInv
  <2>3. WorkInv'
    <3>1. streams \in Nat /\ (work.id # 0 <=> work.pc = "install")
      BY IdsFinite DEF PublisherInv, TypeInv, WorkInv
    <3> QED
      BY <1>3, <2>1, <3>1 DEF WorkInv
  <2> QED
    BY <2>2, <2>3
<1>5. CASE EndRun
  <2>1. /\ work' \in Work /\ work'.pc = "done" /\ work'.id = 0
        /\ frame' = frame /\ stream' = stream /\ sequence' = sequence /\ needFull' = needFull
    BY <1>5, IdleWork DEF EndRun
  <2> QED
    BY <1>1, <1>2, <1>3, <2>1, IdsFinite DEF PublisherInv, TypeInv, WorkInv
<1> QED
  BY <1>4, <1>5

\* Every step that leaves the publisher alone.
LEMMA IdleTypes ==
  ASSUME PublisherInv, UNCHANGED <<frame, stream, sequence, streams, history, full, work>>,
         payloads' \in [Ids -> Payload \cup {None}],
         source' \in Frame, needFull' \in BOOLEAN, SubsOK(subs')
  PROVE  TypeInv' /\ WorkInv'
BY DEF PublisherInv, TypeInv, WorkInv

\* publish takes its next frame.
LEMMA PublishTypes ==
  ASSUME PublisherInv, NEW next \in Frame, Publish(next)
  PROVE  TypeInv' /\ WorkInv'
<1> DEFINE reset == NewStream(next)
           changed == reset \/ frame # next
<1>1. /\ source' = source /\ subs' = subs /\ frame' = frame /\ stream' = stream /\ sequence' = sequence
      /\ history' = history /\ full' = full /\ payloads' = payloads
  BY DEF Publish
<1>2. /\ source \in Frame /\ frame \in Frame \cup {None} /\ stream \in 0 .. MaxStream /\ sequence \in 0 .. MaxCounter
      /\ streams \in 0 .. MaxStream /\ work \in Work /\ stream <= streams /\ MaxStream \in Nat
      /\ (frame = None <=> sequence = 0) /\ (stream = 0 <=> sequence = 0)
  BY IdsFinite DEF PublisherInv, TypeInv, WorkInv
<1>3. \A size \in FullSizes \cup DeltaSizes : size \in 1 .. MaxMessage /\ size \in 0 .. MaxMessage
  BY SizeAssumption, IdsFinite
<1>4. needFull \in BOOLEAN /\ needFull' = needFull
  BY DEF PublisherInv, TypeInv, Publish
<1>5. ASSUME changed, reset, streams < MaxStream, streams' = streams + 1, NEW size \in FullSizes,
             work' = [pc |-> "admit", need |-> needFull, kind |-> "reset", frame |-> next, size |-> size, id |-> 0]
      PROVE  TypeInv' /\ WorkInv'
  <2>1. work' \in Work /\ PendingOK(work', frame', stream', sequence', streams', full')
    BY <1>1, <1>2, <1>3, <1>4, <1>5 DEF Work, Kinds, PendingOK
  <2>2. streams' \in 0 .. MaxStream /\ stream' <= streams' /\ work'.pc = "admit" /\ work'.id = 0
    BY <1>1, <1>2, <1>5
  <2> QED
    BY <1>1, <1>2, <1>4, <2>1, <2>2 DEF PublisherInv, TypeInv, WorkInv
<1>6. ASSUME changed, ~reset, streams' = streams, NEW size \in DeltaSizes,
             work' = [pc |-> "admit", need |-> needFull, kind |-> "delta", frame |-> next, size |-> size, id |-> 0]
      PROVE  TypeInv' /\ WorkInv'
  <2>1. sequence # 0 /\ sequence # MaxCounter /\ SameChain(frame, next)
    BY <1>6 DEF NewStream
  <2>2. work' \in Work /\ PendingOK(work', frame', stream', sequence', streams', full')
    BY <1>1, <1>2, <1>3, <1>4, <1>6, <2>1 DEF Work, Kinds, PendingOK
  <2>3. work'.pc = "admit" /\ work'.id = 0
    BY <1>6
  <2> QED
    BY <1>1, <1>2, <1>4, <1>6, <2>2, <2>3 DEF PublisherInv, TypeInv, WorkInv
<1>7. ASSUME ~changed, streams' = streams, work' = [Idle EXCEPT !.pc = "check", !.need = needFull]
      PROVE  TypeInv' /\ WorkInv'
  <2>1. sequence # 0
    BY <1>7 DEF NewStream
  <2>2. work' \in Work /\ work'.pc = "check" /\ work'.id = 0
    BY <1>4, <1>7, IdleWork
  <2> QED
    BY <1>1, <1>2, <1>4, <1>7, <2>1, <2>2 DEF PublisherInv, TypeInv, WorkInv
<1> QED
  BY <1>5, <1>6, <1>7 DEF Publish

\* Which history is evicted.
LEMMA EvictionsFound ==
  ASSUME NEW size, history \in Seq(Ids)
  PROVE  LET n == Evictions(size)
         IN  /\ n \in 0 .. Len(history)
             /\ n = Len(history) \/ /\ RetainedWithout(Oldest(n)) + size <= RetainedBytes
                                    /\ Bytes(ToSet(Kept(n))) + size <= HistoryBytes
                                    /\ Len(history) - n < HistoryCount
<1> DEFINE s == {n \in 0 .. Len(history) :
                   n = Len(history) \/ /\ RetainedWithout(Oldest(n)) + size <= RetainedBytes
                                       /\ Bytes(ToSet(Kept(n))) + size <= HistoryBytes
                                       /\ Len(history) - n < HistoryCount}
<1>1. s \in SUBSET Nat /\ s # {}
  OBVIOUS
<1>2. Min(s) \in s
  <2> HIDE DEF s
  <2> QED
    BY <1>1, LeastMember
<1> QED
  BY <1>2 DEF Evictions

\* The two ends of the history.
LEMMA HistoryParts ==
  ASSUME history \in Seq(Ids), NEW n \in 0 .. Len(history)
  PROVE  /\ Kept(n) \in Seq(Ids) /\ Len(Kept(n)) = Len(history) - n
         /\ \A k \in 1 .. (Len(history) - n) : k + n \in DOMAIN history /\ Kept(n)[k] = history[k + n]
         /\ Oldest(n) = {history[k] : k \in 1 .. n} /\ Oldest(n) \subseteq ToSet(history)
<1>1. Len(SubSeq(history, 1, n)) = n /\ \A k \in 1 .. n : SubSeq(history, 1, n)[k] = history[k]
  OBVIOUS
<1>2. DOMAIN SubSeq(history, 1, n) = 1 .. n
  OBVIOUS
<1>3. Oldest(n) = {history[k] : k \in 1 .. n}
  BY <1>1, <1>2 DEF Oldest, ToSet
<1>4. Kept(n) \in Seq(Ids) /\ Len(Kept(n)) = Len(history) - n
  BY DEF Kept
<1>5. \A k \in 1 .. (Len(history) - n) : k + n \in DOMAIN history /\ Kept(n)[k] = history[k + n]
  BY DEF Kept
<1> QED
  BY <1>3, <1>4, <1>5 DEF ToSet

\* admitEncoded releases only what the publisher owns.
LEMMA DroppedOwned ==
  ASSUME history \in Seq(Ids), NEW size
  PROVE  Dropped(size) \subseteq Owned
<1>1. Oldest(Evictions(size)) \subseteq ToSet(history)
  BY EvictionsFound, HistoryParts
<1> QED
  BY <1>1 DEF Dropped, Owned, CachedFull

\* A sequence has at most as many members as places.
LEMMA SeqCount ==
  ASSUME NEW q \in Seq(Ids)
  PROVE  IsFiniteSet(ToSet(q)) /\ Cardinality(ToSet(q)) <= Len(q) /\ Cardinality(ToSet(q)) \in Nat
<1> DEFINE f == [n \in 1 .. Len(q) |-> q[n]]
           t == ToSet(q)
<1>1. Len(q) \in Nat /\ DOMAIN q = 1 .. Len(q)
  OBVIOUS
<1>2. f \in Surjection(1 .. Len(q), t)
  BY <1>1 DEF ToSet, Surjection
<1>3. IsFiniteSet(1 .. Len(q)) /\ Cardinality(1 .. Len(q)) = Len(q)
  <2>1. 1 \in Int /\ Len(q) \in Int /\ (IF 1 > Len(q) THEN 0 ELSE Len(q) - 1 + 1) = Len(q)
    BY <1>1
  <2> QED
    BY <2>1, FS_Interval
<1>4. IsFiniteSet(t) /\ Cardinality(t) <= Len(q)
  <2> HIDE DEF f, t
  <2> QED
    BY <1>2, <1>3, FS_Surjection
<1> QED
  BY <1>4, FS_CardinalityType

\* After the evictions there is a free identifier.
LEMMA FreeId ==
  ASSUME PublisherInv, work.pc = "admit"
  PROVE  LET after == Release(Dropped(work.size))
             id    == Min({i \in Ids : after[i] = None})
         IN  id \in Ids /\ after[id] = None
<1> DEFINE size == work.size
           n == Evictions(size)
           gone == Dropped(size)
           after == Release(gone)
           free == {i \in Ids : after[i] = None}
           held == Held(history, full, work.id)
           w == Writing(subs)
           k == ToSet(Kept(n))
           v == {w[c] : c \in Conns}
<1>1. history \in Seq(Ids) /\ full \in Ids \cup {0} /\ work.id = 0 /\ payloads \in [Ids -> Payload \cup {None}]
  BY DEF PublisherInv, TypeInv, WorkInv
<1>2. n \in 0 .. Len(history) /\ (n = Len(history) \/ Len(history) - n < HistoryCount)
  BY <1>1, EvictionsFound
<1>3. Kept(n) \in Seq(Ids) /\ Len(Kept(n)) = Len(history) - n
  <2> HIDE DEF n
  <2> QED
    BY <1>1, <1>2, HistoryParts
<1>4. IsFiniteSet(k) /\ Cardinality(k) \in Nat /\ Cardinality(k) < HistoryCount
  <2>1. IsFiniteSet(k) /\ Cardinality(k) <= Len(history) - n /\ Cardinality(k) \in Nat
    BY <1>3, SeqCount
  <2>2. Len(history) \in Nat /\ Len(history) - n < HistoryCount
    BY <1>1, <1>2, IdsFinite
  <2> HIDE DEF k, n
  <2> QED
    BY <2>1, <2>2, <1>2, IdsFinite
<1>5. IsFiniteSet(v) /\ Cardinality(v) \in Nat /\ Cardinality(v) <= Cardinality(Conns)
  <2>1. w \in Surjection(Conns, v)
    BY DEF Writing, Surjection
  <2> HIDE DEF v, w
  <2> QED
    BY <2>1, IdsFinite, FS_Surjection, FS_CardinalityType
<1>6. gone \subseteq held /\ gone \in SUBSET Ids
  BY <1>1, DroppedOwned, OwnedHeld
<1>7. Leased(after, held \ gone, w) /\ after \in [Ids -> Payload \cup {None}]
  <2>1. Leased(payloads, held, w)
    BY DEF PublisherInv, LeaseInv
  <2> HIDE DEF gone, held, w
  <2> QED
    BY <2>1, <1>1, <1>6, ReleaseLeased, ReleaseContents
<1>8. held \ gone \subseteq k \cup {full}
  <2>1. Oldest(n) \subseteq gone
    BY DEF Dropped
  <2>2. ToSet(history) \subseteq Oldest(n) \cup k
    <3> SUFFICES ASSUME NEW m \in 1 .. Len(history) PROVE history[m] \in Oldest(n) \cup k
      BY <1>1 DEF ToSet
    <3>1. CASE m <= n
      <4>1. m \in 1 .. n
        BY <3>1, <1>2
      <4> HIDE DEF n
      <4> QED
        BY <4>1, <1>1, <1>2, HistoryParts
    <3>2. CASE m > n
      <4>1. m - n \in 1 .. (Len(history) - n) /\ (m - n) + n = m
        BY <3>2, <1>2
      <4> DEFINE j == m - n
      <4>2. j \in 1 .. (Len(history) - n) /\ j + n = m
        BY <4>1
      <4> HIDE DEF n, j
      <4>3. Kept(n)[j] = history[j + n]
        BY <4>2, <1>1, <1>2, HistoryParts
      <4>4. j \in DOMAIN Kept(n)
        BY <4>2, <1>3
      <4>5. history[m] \in k
        BY <4>2, <4>3, <4>4 DEF ToSet
      <4> QED
        BY <4>5
    <3> QED
      BY <3>1, <3>2, <1>2
  <2> QED
    BY <2>1, <2>2, <1>1 DEF Held
<1>9. free # {}
  <2> SUFFICES ASSUME free = {} PROVE FALSE
    OBVIOUS
  <2> DEFINE all == (k \cup {full}) \cup v
  <2>1. Ids \subseteq all
    <3> SUFFICES ASSUME NEW i \in Ids PROVE i \in all
      OBVIOUS
    <3>1. after[i] # None
      OBVIOUS
    <3>2. after[i].refs \in Nat \ {0}
      <4> HIDE DEF after
      <4> QED
        BY <3>1, <1>7 DEF Payload
    <3>3. after[i].refs = (IF i \in held \ gone THEN 1 ELSE 0) + Cardinality({c \in Conns : w[c] = i})
      <4> HIDE DEF after, w, held, gone
      <4> QED
        BY <3>1, <1>7 DEF Leased
    <3>4. CASE i \in held \ gone
      BY <3>4, <1>8
    <3>5. CASE i \notin held \ gone
      <4>1. Cardinality({c \in Conns : w[c] = i}) # 0
        BY <3>2, <3>3, <3>5, WritersCount
      <4>2. {c \in Conns : w[c] = i} # {}
        BY <4>1, FS_EmptySet
      <4> QED
        BY <4>2
    <3> QED
      BY <3>4, <3>5
  <2> HIDE DEF k, v, n
  <2>2. IsFiniteSet(k \cup {full}) /\ Cardinality(k \cup {full}) \in Nat /\ Cardinality(k \cup {full}) <= Cardinality(k) + 1
    <3>1. IsFiniteSet(k \cup {full}) /\ Cardinality(k \cup {full}) = IF full \in k THEN Cardinality(k) ELSE Cardinality(k) + 1
      BY <1>4, FS_AddElement
    <3> QED
      BY <3>1, <1>4
  <2>3. IsFiniteSet(all) /\ Cardinality(all) <= Cardinality(k \cup {full}) + Cardinality(v)
    <3> DEFINE a == k \cup {full}
    <3>1. IsFiniteSet(a) /\ Cardinality(a) \in Nat
      BY <2>2
    <3> HIDE DEF a
    <3>2. IsFiniteSet(a \cup v) /\ Cardinality(a \cup v) = Cardinality(a) + Cardinality(v) - Cardinality(a \cap v)
      BY <1>5, <3>1, FS_Union
    <3>3. Cardinality(a \cap v) \in Nat
      BY <3>1, FS_Intersection, FS_CardinalityType
    <3>4. Cardinality(a \cup v) <= Cardinality(a) + Cardinality(v)
      BY <3>1, <3>2, <3>3, <1>5
    <3> QED
      BY <3>2, <3>4 DEF a
  <2> HIDE DEF all
  <2>4. Cardinality(Ids) <= Cardinality(all) /\ Cardinality(all) \in Nat
    BY <2>1, <2>3, FS_Subset, FS_CardinalityType
  <2> QED
    BY <2>2, <2>3, <2>4, <1>4, <1>5, IdsFinite
<1>10. free \in SUBSET Nat
  BY IdsFinite
<1>11. Min(free) \in free
  <2> HIDE DEF free
  <2> QED
    BY <1>9, <1>10, LeastMember
<1> QED
  BY <1>11

\* What the admission of an encoding leaves alone, and its payload.
LEMMA EncodingOK ==
  ASSUME PublisherInv, work.pc = "admit"
  PROVE  /\ Encoding \in Payload /\ Encoding.refs = 1 /\ Encoding.size = work.size
<1>1. /\ frame \in Frame \cup {None} /\ stream \in 0 .. MaxStream /\ sequence \in 0 .. MaxCounter
      /\ streams \in 0 .. MaxStream /\ stream <= streams
      /\ (frame = None <=> sequence = 0) /\ (stream = 0 <=> sequence = 0)
      /\ PendingOK(work, frame, stream, sequence, streams, full)
      /\ work.kind \in Kinds
  BY DEF PublisherInv, TypeInv, WorkInv, Work
<1>2. MaxStream \in Nat \ {0} /\ MaxCounter \in Nat \ {0}
  BY IdsFinite
<1>3. NextStream \in 1 .. MaxStream
  BY <1>1, <1>2 DEF NextStream, PendingOK, Kinds
<1>4. NextSequence \in 1 .. MaxCounter
  BY <1>1, <1>2 DEF NextSequence, PendingOK, Kinds
<1>5. work.kind = "delta" => stream \in 1 .. MaxStream /\ sequence \in 0 .. MaxCounter
  BY <1>1, <1>2 DEF PendingOK
<1>6. work.frame \in Frame /\ work.size \in 1 .. MaxMessage
  BY <1>1 DEF PendingOK
<1>7. 0 \in 0 .. MaxCounter
  BY <1>2
<1> QED
  BY <1>1, <1>3, <1>4, <1>5, <1>6, <1>7 DEF Encoding, Payload

\* admitEncoded takes the encoding.
LEMMA AdmitTypes == ASSUME PublisherInv, Admit PROVE TypeInv' /\ WorkInv'
<1> DEFINE gone == Dropped(work.size)
           after == Release(gone)
           id == Min({i \in Ids : after[i] = None})
<1>1. work.pc = "admit" /\ history \in Seq(Ids)
  BY DEF Admit, PublisherInv, TypeInv
<1>2. id \in Ids
  BY <1>1, FreeId
<1>3. after \in [Ids -> Payload \cup {None}]
  BY <1>1, DroppedOwned, OwnedHeld, ReleaseTypes
<1>4. payloads' = [after EXCEPT ![id] = Encoding]
  BY DEF Admit
<1>5. payloads' \in [Ids -> Payload \cup {None}]
  <2> HIDE DEF after, id
  <2> QED
    BY <1>1, <1>2, <1>3, <1>4, EncodingOK
<1>6. history' \in Seq(Ids)
  <2>1. history' = Kept(Evictions(work.size))
    BY DEF Admit
  <2> QED
    BY <2>1, <1>1, EvictionsFound, HistoryParts
<1>7. work' = [work EXCEPT !.pc = "install", !.id = id]
  BY DEF Admit
<1>8. /\ work' \in Work /\ work'.pc = "install" /\ work'.id = id
      /\ work'.kind = work.kind /\ work'.frame = work.frame /\ work'.size = work.size
  <2> DEFINE u == [work EXCEPT !.pc = "install"]
  <2> HIDE DEF id
  <2>1. u \in Work /\ u.pc = "install" /\ u.kind = work.kind /\ u.frame = work.frame /\ u.size = work.size
    BY DEF PublisherInv, TypeInv, Work
  <2>2. work' = [u EXCEPT !.id = id]
    BY <1>7
  <2> HIDE DEF u
  <2> QED
    BY <2>1, <2>2, <1>2 DEF Work
<1>9. full' \in {0, full} /\ full' \in Ids \cup {0} /\ needFull' \in BOOLEAN
  BY DEF Admit, PublisherInv, TypeInv
<1>10. /\ source' = source /\ subs' = subs /\ frame' = frame /\ stream' = stream /\ sequence' = sequence /\ streams' = streams
  BY DEF Admit
<1>11. TypeInv'
  BY <1>5, <1>6, <1>8, <1>9, <1>10 DEF TypeInv, PublisherInv
<1>12. id # 0
  BY <1>2, IdsFinite
<1>13. PendingOK(work', frame', stream', sequence', streams', full')
  BY <1>1, <1>8, <1>9, <1>10 DEF PublisherInv, WorkInv, PendingOK
<1> HIDE DEF id
<1>14. WorkInv'
  BY <1>8, <1>10, <1>12, <1>13 DEF WorkInv, PublisherInv
<1> QED
  BY <1>11, <1>14

\* admitEncoded waits for a write.
LEMMA ShedTypes == ASSUME PublisherInv, Shed PROVE TypeInv' /\ WorkInv'
<1>1. payloads' \in [Ids -> Payload \cup {None}]
  BY DroppedOwned, OwnedHeld, ReleaseTypes DEF Shed, PublisherInv, TypeInv
<1>2. SubsOK(subs')
  BY BreakOK DEF Shed, PublisherInv, TypeInv
<1>3. /\ work' \in Work /\ work'.pc = "wait" /\ work'.id = work.id /\ work'.kind = work.kind
      /\ work'.frame = work.frame /\ work'.size = work.size
  <2>1. work \in Work /\ work' = [work EXCEPT !.pc = "wait"]
    BY DEF Shed, PublisherInv, TypeInv
  <2> QED
    BY <2>1 DEF Work
<1>4. /\ source' = source /\ frame' = frame /\ stream' = stream /\ sequence' = sequence /\ streams' = streams
      /\ history' = <<>> /\ full' = 0 /\ needFull' \in BOOLEAN /\ work.pc = "admit"
  BY DEF Shed, PublisherInv, TypeInv
<1>5. TypeInv'
  BY <1>1, <1>2, <1>3, <1>4 DEF TypeInv, PublisherInv
<1>6. PendingOK(work', frame', stream', sequence', streams', full')
  BY <1>3, <1>4 DEF PublisherInv, WorkInv, PendingOK
<1>7. WorkInv'
  BY <1>3, <1>4, <1>6 DEF WorkInv, PublisherInv
<1> QED
  BY <1>5, <1>7

\* The steps that change only where the publisher is.
LEMMA WorkTypes ==
  ASSUME PublisherInv, WaitReleased \/ PublishFails
  PROVE  TypeInv' /\ WorkInv'
<1>1. /\ source' = source /\ frame' = frame /\ stream' = stream /\ sequence' = sequence /\ streams' = streams
      /\ history' = history /\ full' = full /\ payloads' = payloads /\ needFull' = needFull
  BY DEF WaitReleased, PublishFails
<1>2. SubsOK(subs')
  BY BreakOK DEF WaitReleased, PublishFails, PublisherInv, TypeInv
<1>3. \/ work' = Idle
      \/ work.pc = "wait" /\ work' = [work EXCEPT !.pc = "admit"]
  BY DEF WaitReleased, PublishFails
<1>4. CASE work' = Idle
  <2>1. work' \in Work /\ work'.pc = "idle" /\ work'.id = 0
    BY <1>4, IdleWork
  <2> QED
    BY <1>1, <1>2, <2>1 DEF PublisherInv, TypeInv, WorkInv
<1>5. CASE work.pc = "wait" /\ work' = [work EXCEPT !.pc = "admit"]
  <2>1. /\ work' \in Work /\ work'.pc = "admit" /\ work'.id = work.id /\ work'.kind = work.kind
        /\ work'.frame = work.frame /\ work'.size = work.size
    BY <1>5 DEF PublisherInv, TypeInv, Work
  <2>2. PendingOK(work', frame', stream', sequence', streams', full')
    BY <1>1, <1>5, <2>1 DEF PublisherInv, WorkInv, PendingOK
  <2> QED
    BY <1>1, <1>2, <1>5, <2>1, <2>2 DEF PublisherInv, TypeInv, WorkInv
<1> QED
  BY <1>3, <1>4, <1>5

\* A full frame for a delta that is too large.
LEMMA ReplaceTypes == ASSUME PublisherInv, ReplaceLarge PROVE TypeInv' /\ WorkInv'
<1>1. work.pc = "install" /\ work.kind = "delta" /\ work \in Work /\ PendingOK(work, frame, stream, sequence, streams, full)
  BY DEF ReplaceLarge, PublisherInv, TypeInv, WorkInv
<1>2. {work.id} \subseteq Held(history, full, work.id)
  BY <1>1, OwnedHeld DEF PublisherInv, WorkInv
<1>3. payloads' \in [Ids -> Payload \cup {None}]
  BY <1>2, ReleaseTypes DEF ReplaceLarge
<1>4. PICK size \in FullSizes : work' = [work EXCEPT !.pc = "admit", !.kind = "large", !.size = size, !.id = 0]
  BY DEF ReplaceLarge
<1>5. size \in 1 .. MaxMessage /\ size \in 0 .. MaxMessage
  BY SizeAssumption, IdsFinite
<1>6. /\ work' \in Work /\ work'.pc = "admit" /\ work'.kind = "large" /\ work'.size = size /\ work'.id = 0
      /\ work'.frame = work.frame
  <2> DEFINE u == [work EXCEPT !.pc = "admit", !.kind = "large"]
  <2>1. u \in Work /\ u.pc = "admit" /\ u.kind = "large" /\ u.frame = work.frame
    BY <1>1 DEF Work, Kinds
  <2>2. work' = [u EXCEPT !.size = size, !.id = 0]
    BY <1>4
  <2> HIDE DEF u
  <2> QED
    BY <2>1, <2>2, <1>5 DEF Work
<1>7. /\ source' = source /\ frame' = frame /\ stream' = stream /\ sequence' = sequence /\ streams' = streams
      /\ history' = history /\ full' = full /\ needFull' = needFull /\ subs' = subs
  BY DEF ReplaceLarge
<1>8. PendingOK(work', frame', stream', sequence', streams', full')
  BY <1>1, <1>5, <1>6, <1>7 DEF PendingOK
<1>9. TypeInv'
  BY <1>3, <1>6, <1>7 DEF TypeInv, PublisherInv
<1> QED
  BY <1>6, <1>7, <1>8, <1>9 DEF WorkInv, PublisherInv

\* The installs of the new frame.
LEMMA InstallTypes == ASSUME PublisherInv, InstallDelta \/ InstallFull PROVE TypeInv' /\ WorkInv'
<1>1. /\ work.pc = "install" /\ work \in Work /\ PendingOK(work, frame, stream, sequence, streams, full)
      /\ work.kind \in {"delta", "reset", "large"} /\ work.id \in Ids /\ work.id # 0
      /\ stream \in 0 .. MaxStream /\ sequence \in 0 .. MaxCounter /\ streams \in 0 .. MaxStream /\ stream <= streams
      /\ (stream = 0 <=> sequence = 0)
  BY DEF InstallDelta, InstallFull, PublisherInv, TypeInv, WorkInv, Work
<1>2. payloads' \in [Ids -> Payload \cup {None}]
  BY OwnedHeld, ReleaseTypes DEF InstallDelta, InstallFull
<1>3. /\ source' = source /\ frame' = work.frame /\ streams' = streams /\ sequence' = NextSequence /\ subs' = subs
      /\ needFull' \in BOOLEAN /\ stream' \in {stream, NextStream} /\ (work.kind = "reset" => stream' = NextStream)
  BY DEF InstallDelta, InstallFull, PublisherInv, TypeInv
<1>4. NextSequence \in 0 .. MaxCounter /\ NextSequence # 0 /\ work.frame \in Frame
  BY <1>1, IdsFinite DEF NextSequence, PendingOK
<1>5. stream' \in 0 .. MaxStream /\ stream' <= streams /\ stream' # 0
  BY <1>1, <1>3, IdsFinite DEF NextStream, PendingOK
<1>6. history' \in Seq(Ids) /\ full' \in Ids \cup {0}
  <2>1. history \in Seq(Ids)
    BY DEF PublisherInv, TypeInv
  <2>2. CASE history' = Append(history, work.id) /\ full' = 0
    BY <1>1, <2>1, <2>2
  <2>3. CASE history' = <<>> /\ full' = work.id
    BY <1>1, <2>3
  <2> QED
    BY <2>2, <2>3 DEF InstallDelta, InstallFull
<1>7. work' \in Work /\ work'.pc = "check" /\ work'.id = 0
  <2>1. work' = [Idle EXCEPT !.pc = "check", !.need = work.need] /\ work.need \in BOOLEAN
    BY <1>1 DEF InstallDelta, InstallFull, Work
  <2> QED
    BY <2>1, IdleWork
<1>8. TypeInv'
  BY <1>2, <1>3, <1>4, <1>5, <1>6, <1>7 DEF TypeInv, PublisherInv
<1>9. frame' # None
  BY <1>3, <1>4, NoneAssumption
<1> QED
  BY <1>3, <1>4, <1>5, <1>7, <1>8, <1>9 DEF WorkInv

\* The end of publish.
LEMMA CheckTypes == ASSUME PublisherInv, CheckFull PROVE TypeInv' /\ WorkInv'
<1>1. /\ work.pc = "check" /\ work \in Work /\ work.id = 0 /\ sequence # 0 /\ frame \in Frame
      /\ needFull' \in BOOLEAN
  BY DEF CheckFull, PublisherInv, TypeInv, WorkInv, Work
<1>2. /\ source' = source /\ frame' = frame /\ stream' = stream /\ sequence' = sequence /\ streams' = streams
      /\ history' = history /\ full' = full /\ payloads' = payloads /\ subs' = subs
  BY DEF CheckFull
<1>3. ASSUME full = 0, NEW size \in FullSizes,
             work' = [work EXCEPT !.pc = "admit", !.kind = "extra", !.frame = frame, !.size = size]
      PROVE  TypeInv' /\ WorkInv'
  <2>1. size \in 1 .. MaxMessage /\ size \in 0 .. MaxMessage
    BY SizeAssumption, IdsFinite
  <2>2. work' \in Work /\ work'.pc = "admit" /\ work'.kind = "extra" /\ work'.size = size /\ work'.id = 0 /\ work'.frame = frame
    <3> DEFINE u == [work EXCEPT !.pc = "admit", !.kind = "extra"]
    <3>1. u \in Work /\ u.pc = "admit" /\ u.kind = "extra" /\ u.id = 0
      BY <1>1 DEF Work, Kinds
    <3>2. work' = [u EXCEPT !.frame = frame, !.size = size]
      BY <1>3
    <3> HIDE DEF u
    <3> QED
      BY <3>1, <3>2, <2>1, <1>1 DEF Work
  <2>3. PendingOK(work', frame', stream', sequence', streams', full')
    BY <1>1, <1>2, <1>3, <2>1, <2>2 DEF PendingOK
  <2> QED
    BY <1>1, <1>2, <2>2, <2>3 DEF TypeInv, WorkInv, PublisherInv
<1>4. CASE work' = Idle
  BY <1>1, <1>2, <1>4, IdleWork DEF TypeInv, WorkInv, PublisherInv
<1> QED
  BY <1>3, <1>4 DEF CheckFull

\* The full frame that a subscriber needed.
LEMMA ExtraTypes == ASSUME PublisherInv, InstallExtra PROVE TypeInv' /\ WorkInv'
<1>1. /\ source' = source /\ frame' = frame /\ stream' = stream /\ sequence' = sequence /\ streams' = streams
      /\ history' = history /\ payloads' = payloads /\ subs' = subs /\ needFull' = FALSE
      /\ full' = work.id /\ work.id \in Ids \cup {0}
      /\ work' \in Work /\ work'.pc = "idle" /\ work'.id = 0
  BY IdleWork DEF InstallExtra, PublisherInv, TypeInv, Work
<1> QED
  BY <1>1 DEF TypeInv, WorkInv, PublisherInv

\* The first acknowledgment that an answer can mean.
LEMMA SentFound ==
  ASSUME SubsOK(subs), NEW c \in Conns, NEW m, SentIndexes(c, m) # {}
  PROVE  /\ Min(SentIndexes(c, m)) \in SentIndexes(c, m) /\ Min(SentIndexes(c, m)) \in 1 .. Len(subs[c].sent)
         /\ \A k \in SentIndexes(c, m) : Min(SentIndexes(c, m)) <= k
<1>1. subs[c].sent \in Seq(Sent)
  BY DEF SubsOK, SubOK
<1>2. SentIndexes(c, m) \in SUBSET Nat /\ SentIndexes(c, m) \subseteq 1 .. Len(subs[c].sent)
  BY <1>1 DEF SentIndexes
<1> QED
  BY <1>2, LeastMember

\* What nextPayload can choose.
LEMMA ChosenPayload ==
  ASSUME PublisherInv, NEW c \in Conns, NEW i \in NextPayload(c)
  PROVE  /\ i \in Ids /\ i # 0 /\ i \in Owned /\ payloads[i] \in Payload
         /\ payloads[i] # None /\ payloads[i].refs \in Nat \ {0} /\ payloads[i].size \in 1 .. MaxMessage
<1>1. i \in Owned
  BY DEF NextPayload, NextDeltas, Owned, CachedFull
<1>2. i \in Ids /\ i \in LiveOf(payloads)
  BY <1>1, OwnedHeld
<1>3. payloads[i] \in Payload
  BY <1>2 DEF LiveOf, PublisherInv, TypeInv
<1> QED
  BY <1>1, <1>2, <1>3, IdsFinite, PayloadAssumption DEF Payload

\* The subscriber of sendAvailable.
Sending(s, i, b) ==
  [s EXCEPT !.writing = i, !.stream = b.stream, !.sequence = b.sequence, !.bytes = @ + b.size,
            !.sent = Append(@, [stream |-> b.stream, sequence |-> b.sequence, bytes |-> b.size])]

\* Its fields.
LEMMA SendingFields ==
  ASSUME NEW s, SubOK(s), NEW i, NEW b
  PROVE  LET n == Sending(s, i, b)
         IN  /\ DOMAIN n = SubFields
             /\ n.pc = s.pc /\ n.broken = s.broken /\ n.contract = s.contract /\ n.stream = b.stream
             /\ n.sequence = b.sequence /\ n.writing = i /\ n.lastACK = s.lastACK
             /\ n.heartbeat = s.heartbeat /\ n.heartbeats = s.heartbeats /\ n.bytes = s.bytes + b.size
             /\ n.sent = Append(s.sent, [stream |-> b.stream, sequence |-> b.sequence, bytes |-> b.size])
<1> DEFINE u == [s EXCEPT !.writing = i, !.stream = b.stream]
           v == [u EXCEPT !.sequence = b.sequence, !.bytes = @ + b.size]
           n == [v EXCEPT !.sent = Append(@, [stream |-> b.stream, sequence |-> b.sequence, bytes |-> b.size])]
<1>1. /\ DOMAIN u = SubFields /\ u.writing = i /\ u.stream = b.stream /\ u.pc = s.pc /\ u.broken = s.broken
      /\ u.contract = s.contract /\ u.sequence = s.sequence /\ u.lastACK = s.lastACK /\ u.heartbeat = s.heartbeat
      /\ u.heartbeats = s.heartbeats /\ u.bytes = s.bytes /\ u.sent = s.sent
  BY DEF SubOK, SubFields
<1>2. /\ DOMAIN v = SubFields /\ v.writing = i /\ v.stream = b.stream /\ v.pc = s.pc /\ v.broken = s.broken
      /\ v.contract = s.contract /\ v.sequence = b.sequence /\ v.lastACK = s.lastACK /\ v.heartbeat = s.heartbeat
      /\ v.heartbeats = s.heartbeats /\ v.bytes = s.bytes + b.size /\ v.sent = s.sent
  <2> HIDE DEF u
  <2> QED
    BY <1>1 DEF SubFields
<1>3. Sending(s, i, b) = n
  BY DEF Sending
<1> HIDE DEF v
<1> QED
  BY <1>2, <1>3 DEF SubFields

\* What the start of a write changes.
LEMMA StartWriteSub ==
  ASSUME PublisherInv, NEW c \in Conns, StartWrite(c)
  PROVE  /\ SubsOK(subs')
         /\ \E i \in NextPayload(c) : subs' = [subs EXCEPT ![c] = Sending(subs[c], i, payloads[i])]
                                      /\ subs'[c].writing = i
                                      /\ payloads' = [payloads EXCEPT ![i].refs = @ + 1]
<1>1. SubsOK(subs) /\ SubOK(subs[c])
  BY DEF PublisherInv, TypeInv, SubsOK
<1>2. PICK i \in NextPayload(c) :
        /\ payloads' = [payloads EXCEPT ![i].refs = @ + 1]
        /\ subs' = [subs EXCEPT ![c].writing = i, ![c].stream = payloads[i].stream, ![c].sequence = payloads[i].sequence,
                                ![c].bytes = @ + payloads[i].size,
                                ![c].sent = Append(@, [stream |-> payloads[i].stream, sequence |-> payloads[i].sequence, bytes |-> payloads[i].size])]
  BY DEF StartWrite
<1> DEFINE b == payloads[i]
           new == Sending(subs[c], i, b)
<1>3. subs' = [subs EXCEPT ![c] = new]
  BY <1>1, <1>2 DEF SubsOK, Sending
<1>4. i \in Ids /\ b \in Payload
  BY ChosenPayload
<1>5. b.stream \in 0 .. MaxStream /\ b.sequence \in 0 .. MaxCounter /\ b.size \in 0 .. MaxMessage
  BY <1>4, IdsFinite DEF Payload
<1>6. [stream |-> b.stream, sequence |-> b.sequence, bytes |-> b.size] \in Sent
  BY <1>5 DEF Sent
<1>7. SubOK(new) /\ new.writing = i
  <2> HIDE DEF new
  <2>1. /\ DOMAIN new = SubFields
             /\ new.pc = subs[c].pc /\ new.contract = subs[c].contract /\ new.stream = b.stream
             /\ new.sequence = b.sequence /\ new.writing = i /\ new.lastACK = subs[c].lastACK
             /\ new.heartbeat = subs[c].heartbeat /\ new.heartbeats = subs[c].heartbeats
             /\ new.sent = Append(subs[c].sent, [stream |-> b.stream, sequence |-> b.sequence, bytes |-> b.size])
    BY <1>1, SendingFields DEF new
  <2> QED
    BY <1>1, <1>4, <1>5, <1>6, <2>1 DEF SubOK
<1>8. subs'[c] = new /\ SubsOK(subs')
  <2> HIDE DEF new
  <2> QED
    BY <1>1, <1>3, <1>7, SubChange DEF SubsOK
<1> QED
  <2>1. subs'[c].writing = i
    BY <1>7, <1>8
  <2> QED
    BY <1>2, <1>3, <1>8, <2>1

\* What the end of a write changes.
LEMMA FinishWriteSub ==
  ASSUME PublisherInv, NEW c \in Conns, FinishWrite(c)
  PROVE  /\ SubsOK(subs')
         /\ \E b \in BOOLEAN : (subs[c].broken => b)
              /\ subs' = [subs EXCEPT ![c] = [subs[c] EXCEPT !.writing = 0, !.broken = b]]
<1>1. SubsOK(subs) /\ SubOK(subs[c])
  BY DEF PublisherInv, TypeInv, SubsOK
<1>2. PICK failed \in BOOLEAN :
        /\ subs[c].broken => failed
        /\ subs' = [subs EXCEPT ![c].writing = 0, ![c].broken = @ \/ failed]
  BY DEF FinishWrite
<1> DEFINE mid == [subs[c] EXCEPT !.writing = 0]
           b == subs[c].broken \/ failed
           new == [mid EXCEPT !.broken = b]
<1>3. SubOK(mid)
  BY <1>1 DEF SubOK, SubFields
<1>4. SubOK(new)
  <2> HIDE DEF mid
  <2> QED
    BY <1>3 DEF SubOK, SubFields
<1>5. subs' = [subs EXCEPT ![c] = new]
  BY <1>1, <1>2 DEF SubsOK
<1>6. b \in BOOLEAN /\ (subs[c].broken => b)
  OBVIOUS
<1> QED
  <2>1. SubsOK(subs')
    <3> HIDE DEF new
    <3> QED
      BY <1>1, <1>4, <1>5, SubChange
  <2> QED
    BY <2>1, <1>5, <1>6

\* What control does with one message: refuse it, clear the heartbeat, ignore a
\* repetition, or acknowledge all up to the first match.
LEMMA ReadControlSub ==
  ASSUME PublisherInv, NEW c \in Conns, ReadControl(c)
  PROVE  /\ SubsOK(subs')
         /\ LET m == Head(controls[c])
                s == subs[c]
                new == subs'[c]
            IN  /\ subs' = [subs EXCEPT ![c] = new]
                /\ new.pc = s.pc /\ new.contract = s.contract /\ new.stream = s.stream /\ new.sequence = s.sequence
                /\ new.writing = s.writing /\ new.heartbeats = s.heartbeats
                /\ \/ InvalidControl(c, m) /\ new.broken = TRUE /\ new.sent = s.sent /\ new.lastACK = s.lastACK /\ new.heartbeat = s.heartbeat
                   \/ /\ ~InvalidControl(c, m) /\ new.broken = s.broken
                      /\ \/ m.kind = "heartbeat" /\ new.heartbeat = 0 /\ new.sent = s.sent /\ new.lastACK = s.lastACK
                         \/ m.kind # "heartbeat" /\ Repeated(c, m) /\ new = s
                         \/ /\ m.kind # "heartbeat" /\ ~Repeated(c, m) /\ new.heartbeat = s.heartbeat
                            /\ new.lastACK = s.sent[Min(SentIndexes(c, m))]
                            /\ new.sent = SubSeq(s.sent, Min(SentIndexes(c, m)) + 1, Len(s.sent))
<1> DEFINE m == Head(controls[c])
           s == subs[c]
           i == Min(SentIndexes(c, m))
           new == subs'[c]
<1>1. SubsOK(subs) /\ SubOK(s) /\ DOMAIN subs = Conns
  BY DEF PublisherInv, TypeInv, SubsOK
<1> DEFINE value == IF InvalidControl(c, m) THEN [s EXCEPT !.broken = TRUE]
                    ELSE IF m.kind = "heartbeat" THEN [s EXCEPT !.heartbeat = 0]
                    ELSE IF Repeated(c, m) THEN s
                    ELSE Acknowledged(s, i)
<1>2. subs' = [subs EXCEPT ![c] = value] /\ new = value
  BY <1>1 DEF ReadControl
<1>3. subs' = [subs EXCEPT ![c] = new]
  BY <1>2
<1>0. m.kind \in {"ack", "heartbeat"}
  <2>1. controls[c] \in Seq(Ack \cup Beat) /\ controls[c] # <<>>
    BY DEF PublisherInv, SocketInv, ReadControl
  <2>2. m \in Ack \cup Beat
    BY <2>1
  <2> QED
    BY <2>2 DEF Ack, Beat
<1> HIDE DEF m
<1>4. CASE InvalidControl(c, m)
  <2>1. new = [s EXCEPT !.broken = TRUE]
    BY <1>2, <1>4
  <2>2. SubOK(new)
    BY <1>1, <2>1 DEF SubOK, SubFields
  <2>3. SubsOK(subs')
    BY <1>1, <1>3, <2>2, SubChange
  <2>4. /\ new.pc = s.pc /\ new.contract = s.contract /\ new.stream = s.stream /\ new.sequence = s.sequence
        /\ new.writing = s.writing /\ new.heartbeats = s.heartbeats /\ new.broken = TRUE /\ new.sent = s.sent
        /\ new.lastACK = s.lastACK /\ new.heartbeat = s.heartbeat
    BY <1>1, <2>1 DEF SubOK, SubFields
  <2> QED
    BY <1>3, <1>4, <2>3, <2>4 DEF m
<1>5. CASE ~InvalidControl(c, m) /\ m.kind = "heartbeat"
  <2>1. new = [s EXCEPT !.heartbeat = 0]
    BY <1>2, <1>5
  <2>2. SubOK(new)
    BY <1>1, <2>1 DEF SubOK, SubFields
  <2>3. SubsOK(subs')
    BY <1>1, <1>3, <2>2, SubChange
  <2>4. /\ new.pc = s.pc /\ new.contract = s.contract /\ new.stream = s.stream /\ new.sequence = s.sequence
        /\ new.writing = s.writing /\ new.heartbeats = s.heartbeats /\ new.broken = s.broken /\ new.sent = s.sent
        /\ new.lastACK = s.lastACK /\ new.heartbeat = 0
    BY <1>1, <2>1 DEF SubOK, SubFields
  <2> QED
    BY <1>3, <1>5, <2>3, <2>4 DEF m
<1>6. CASE ~InvalidControl(c, m) /\ m.kind # "heartbeat" /\ Repeated(c, m)
  <2>1. new = s
    BY <1>2, <1>6
  <2>2. SubsOK(subs')
    BY <1>1, <1>3, <2>1, SubChange
  <2> QED
    BY <1>3, <1>6, <2>1, <2>2 DEF m
<1>7. CASE ~InvalidControl(c, m) /\ m.kind # "heartbeat" /\ ~Repeated(c, m)
  <2>1. new = Acknowledged(s, i)
    BY <1>2, <1>7
  <2>2. SentIndexes(c, m) # {}
    <3>1. m.kind = "ack"
      BY <1>0, <1>7
    <3> QED
      BY <3>1, <1>7 DEF InvalidControl
  <2>3. i \in 1 .. Len(s.sent) /\ i \in Nat
    BY <1>1, <2>2, SentFound
  <2> DEFINE last == s.sent[i]
             rest == SubSeq(s.sent, i + 1, Len(s.sent))
             u == [s EXCEPT !.bytes = @ - FoldLeft(LAMBDA n, t : n + t.bytes, 0, SubSeq(s.sent, 1, i))]
             v == [u EXCEPT !.lastACK = last]
  <2>4. s.sent \in Seq(Sent) /\ last \in Sent /\ rest \in Seq(Sent)
    <3>1. s.sent \in Seq(Sent)
      BY <1>1 DEF SubOK
    <3> HIDE DEF i
    <3> QED
      BY <3>1, <2>3
  <2>5. new = [v EXCEPT !.sent = rest]
    BY <2>1 DEF Acknowledged
  <2>6. SubOK(u) /\ u.pc = s.pc /\ u.contract = s.contract /\ u.stream = s.stream /\ u.sequence = s.sequence
        /\ u.writing = s.writing /\ u.heartbeats = s.heartbeats /\ u.broken = s.broken /\ u.heartbeat = s.heartbeat
    BY <1>1 DEF SubOK, SubFields
  <2> HIDE DEF u, last, rest
  <2>7. SubOK(v) /\ v.pc = s.pc /\ v.contract = s.contract /\ v.stream = s.stream /\ v.sequence = s.sequence
        /\ v.writing = s.writing /\ v.heartbeats = s.heartbeats /\ v.broken = s.broken /\ v.heartbeat = s.heartbeat
        /\ v.lastACK = last
    BY <2>4, <2>6 DEF SubOK, SubFields
  <2> HIDE DEF v
  <2>8. SubOK(new) /\ new.pc = s.pc /\ new.contract = s.contract /\ new.stream = s.stream /\ new.sequence = s.sequence
        /\ new.writing = s.writing /\ new.heartbeats = s.heartbeats /\ new.broken = s.broken /\ new.heartbeat = s.heartbeat
        /\ new.lastACK = last /\ new.sent = rest
    BY <2>4, <2>5, <2>7 DEF SubOK, SubFields
  <2>9. SubsOK(subs')
    BY <1>1, <1>3, <2>8, SubChange
  <2> HIDE DEF new, s, i
  <2> QED
    BY <1>3, <1>7, <2>8, <2>9 DEF m, last, rest, s, i, new
<1> QED
  BY <1>4, <1>5, <1>6, <1>7

\* The handler steps keep the types of their subscriber.
LEMMA HandlerSubs ==
  ASSUME PublisherInv, NEW c \in Conns, HandlerStep(c)
  PROVE  SubsOK(subs')
<1>1. SubsOK(subs) /\ SubOK(subs[c]) /\ source \in Frame
  BY DEF PublisherInv, TypeInv, SubsOK
<1>2. MaxStream \in Nat /\ MaxCounter \in Nat /\ MaxMessage \in Nat
  BY IdsFinite
<1>3. CASE Register(c)
  <2> DEFINE new == [subs[c] EXCEPT !.pc = "accepting"]
  <2>1. SubOK(new)
    BY <1>1 DEF SubOK, SubFields
  <2>2. subs' = [subs EXCEPT ![c] = new]
    BY <1>3 DEF Register
  <2> HIDE DEF new
  <2> QED
    BY <1>1, <2>1, <2>2, SubChange
<1>4. CASE Accept(c)
  <2> DEFINE mid == [subs[c] EXCEPT !.pc = "hello"]
             new == [mid EXCEPT !.broken = stopped]
  <2>1. SubOK(mid)
    BY <1>1 DEF SubOK, SubFields
  <2>2. SubOK(new)
    <3> HIDE DEF mid
    <3> QED
      BY <2>1 DEF SubOK, SubFields
  <2>3. subs' = [subs EXCEPT ![c] = new]
    BY <1>1, <1>4 DEF Accept, SubsOK
  <2> HIDE DEF new
  <2> QED
    BY <1>1, <2>2, <2>3, SubChange
<1>5. CASE Hello(c)
  <2> DEFINE mid == [subs[c] EXCEPT !.pc = "ready"]
             new == [mid EXCEPT !.contract = source.contract]
  <2>1. SubOK(mid)
    BY <1>1 DEF SubOK, SubFields
  <2>2. SubOK(new)
    <3> HIDE DEF mid
    <3> QED
      BY <1>1, <2>1 DEF SubOK, SubFields, Frame
  <2>3. subs' = [subs EXCEPT ![c] = new]
    BY <1>1, <1>5 DEF Hello, SubsOK
  <2> HIDE DEF new
  <2> QED
    BY <1>1, <2>2, <2>3, SubChange
<1>6. CASE StartWrite(c)
  BY <1>6, StartWriteSub
<1>7. CASE AskFull(c)
  BY <1>1, <1>7 DEF AskFull
<1>8. CASE FinishWrite(c)
  BY <1>8, FinishWriteSub
<1>9. CASE StartHeartbeat(c)
  <2> DEFINE mid == [subs[c] EXCEPT !.heartbeats = subs[c].heartbeats + 1]
             new == [mid EXCEPT !.heartbeat = subs[c].heartbeats + 1]
  <2>1. SubOK(mid)
    BY <1>1 DEF SubOK, SubFields
  <2>2. SubOK(new)
    <3> HIDE DEF mid
    <3> QED
      BY <1>1, <2>1 DEF SubOK, SubFields
  <2>3. subs' = [subs EXCEPT ![c] = new]
    BY <1>1, <1>9 DEF StartHeartbeat, SubsOK
  <2> HIDE DEF new
  <2> QED
    BY <1>1, <2>2, <2>3, SubChange
<1>10. CASE ReadControl(c)
  BY <1>10, ReadControlSub
<1>11. CASE Expire(c)
  <2> DEFINE new == [subs[c] EXCEPT !.broken = TRUE]
  <2>1. SubOK(new)
    BY <1>1 DEF SubOK, SubFields
  <2>2. subs' = [subs EXCEPT ![c] = new]
    BY <1>11 DEF Expire
  <2> HIDE DEF new
  <2> QED
    BY <1>1, <2>1, <2>2, SubChange
<1>12. CASE Leave(c)
  <2>1. SubOK(NoSubscriber)
    BY <1>2 DEF SubOK, SubFields, NoSubscriber, NoSent, Sent
  <2>2. subs' = [subs EXCEPT ![c] = NoSubscriber]
    BY <1>12 DEF Leave
  <2> QED
    BY <1>1, <2>1, <2>2, SubChange
<1> QED
  BY <1>3, <1>4, <1>5, <1>6, <1>7, <1>8, <1>9, <1>10, <1>11, <1>12 DEF HandlerStep

\* What is on the way keeps its types.
LEMMA SocketTypes == ASSUME PublisherInv, Next PROVE SocketInv'
<1> DEFINE In == Publication \cup Beat
           Out == Ack \cup Beat
<1>1. /\ inbox \in [Conns -> Seq(In)] /\ controls \in [Conns -> Seq(Out)] /\ SubsOK(subs)
  BY DEF PublisherInv, SocketInv, TypeInv
<1>2. ASSUME NEW c \in Conns
      PROVE  /\ \A e \in In : [inbox EXCEPT ![c] = Append(@, e)] \in [Conns -> Seq(In)]
             /\ \A e \in Out : [controls EXCEPT ![c] = Append(@, e)] \in [Conns -> Seq(Out)]
             /\ [inbox EXCEPT ![c] = <<>>] \in [Conns -> Seq(In)]
             /\ [controls EXCEPT ![c] = <<>>] \in [Conns -> Seq(Out)]
             /\ inbox[c] # <<>> => Head(inbox[c]) \in In /\ [inbox EXCEPT ![c] = Tail(@)] \in [Conns -> Seq(In)]
             /\ controls[c] # <<>> => [controls EXCEPT ![c] = Tail(@)] \in [Conns -> Seq(Out)]
  <2> HIDE DEF In, Out
  <2>1. inbox[c] \in Seq(In) /\ controls[c] \in Seq(Out)
    BY <1>1
  <2>2. inbox[c] # <<>> => Head(inbox[c]) \in In /\ Tail(inbox[c]) \in Seq(In)
    BY <2>1
  <2>3. controls[c] # <<>> => Tail(controls[c]) \in Seq(Out)
    BY <2>1
  <2>4. \A e : (e \in In => Append(inbox[c], e) \in Seq(In)) /\ (e \in Out => Append(controls[c], e) \in Seq(Out))
    BY <2>1
  <2>5. <<>> \in Seq(In) /\ <<>> \in Seq(Out)
    OBVIOUS
  <2> QED
    BY <1>1, <2>2, <2>3, <2>4, <2>5
<1>3. CASE UNCHANGED <<inbox, controls>>
  BY <1>1, <1>3 DEF SocketInv
<1>4. ASSUME NEW c \in Conns, StartWrite(c) PROVE SocketInv'
  <2>1. controls' = controls
    BY <1>4 DEF StartWrite
  <2>2. PICK i \in NextPayload(c) :
          inbox' = IF peers[c].on /\ ~subs[c].broken
                   THEN [inbox EXCEPT ![c] = Append(@, [kind |-> payloads[i].kind, stream |-> payloads[i].stream, sequence |-> payloads[i].sequence,
                                                        base |-> payloads[i].base, from |-> payloads[i].from, frame |-> payloads[i].frame])]
                   ELSE inbox
    BY <1>4 DEF StartWrite
  <2>3. payloads[i] \in Payload
    BY ChosenPayload
  <2> DEFINE e == [kind |-> payloads[i].kind, stream |-> payloads[i].stream, sequence |-> payloads[i].sequence,
                   base |-> payloads[i].base, from |-> payloads[i].from, frame |-> payloads[i].frame]
  <2>4. e \in In
    BY <2>3 DEF Payload, Publication
  <2> HIDE DEF e, In, Out
  <2> QED
    BY <1>1, <1>2, <2>1, <2>2, <2>4 DEF SocketInv, e, In, Out
<1>5. ASSUME NEW c \in Conns, StartHeartbeat(c) PROVE SocketInv'
  <2>1. controls' = controls
    BY <1>5 DEF StartHeartbeat
  <2> DEFINE e == [kind |-> "heartbeat", token |-> subs[c].heartbeats + 1]
  <2>2. e \in In
    BY <1>1 DEF SubsOK, SubOK, Beat
  <2>3. inbox' = IF peers[c].on THEN [inbox EXCEPT ![c] = Append(@, e)] ELSE inbox
    BY <1>5 DEF StartHeartbeat
  <2> HIDE DEF e, In, Out
  <2> QED
    BY <1>1, <1>2, <2>1, <2>2, <2>3 DEF SocketInv, In, Out
<1>6. ASSUME NEW c \in Conns, ReadControl(c) \/ Leave(c) PROVE SocketInv'
  <2>1. inbox' = inbox
    BY <1>6 DEF ReadControl, Leave
  <2>2. controls' \in [Conns -> Seq(Out)]
    <3> HIDE DEF In, Out
    <3> QED
      BY <1>2, <1>6, ZenonT(30) DEF ReadControl, Leave
  <2> QED
    BY <1>1, <2>1, <2>2 DEF SocketInv
<1>7. ASSUME NEW c \in Conns, Disconnect(c) PROVE SocketInv'
  <2>1. inbox' = [inbox EXCEPT ![c] = <<>>] /\ controls' = [controls EXCEPT ![c] = <<>>]
    BY <1>7 DEF Disconnect
  <2> QED
    BY <1>2, <2>1 DEF SocketInv
<1>8. ASSUME NEW c \in Conns, Receive(c) PROVE SocketInv'
  <2> DEFINE e == Head(inbox[c])
             a == [kind |-> "ack", stream |-> e.stream, sequence |-> e.sequence]
  <2>1. CASE Disconnect(c)
    BY <2>1, <1>7
  <2>2. CASE ~Disconnect(c)
    <3>1. /\ inbox[c] # <<>> /\ e.kind # "heartbeat"
          /\ inbox' = [inbox EXCEPT ![c] = Tail(@)]
          /\ controls' = IF subs[c].pc = "ready" /\ ~subs[c].broken THEN [controls EXCEPT ![c] = Append(@, a)] ELSE controls
      BY <1>8, <2>2 DEF Receive
    <3>2. e \in Publication
      BY <1>2, <3>1 DEF Beat
    <3>3. a \in Out
      BY <3>2 DEF Publication, Ack
    <3> HIDE DEF a, e, In, Out
    <3> QED
      BY <1>1, <1>2, <3>1, <3>3 DEF SocketInv, In, Out
  <2> QED
    BY <2>1, <2>2
<1>9. ASSUME NEW c \in Conns, AnswerHeartbeat(c) PROVE SocketInv'
  <2> DEFINE e == Head(inbox[c])
  <2>1. /\ inbox[c] # <<>> /\ e.kind = "heartbeat"
        /\ inbox' = [inbox EXCEPT ![c] = Tail(@)]
        /\ controls' = IF subs[c].pc = "ready" /\ ~subs[c].broken THEN [controls EXCEPT ![c] = Append(@, e)] ELSE controls
    BY <1>9 DEF AnswerHeartbeat
  <2>2. e \in Out
    BY <1>2, <2>1 DEF Publication
  <2> HIDE DEF e, In, Out
  <2> QED
    BY <1>1, <1>2, <2>1, <2>2 DEF SocketInv, In, Out
<1>10. CASE Advance \/ StopStreams
  BY <1>3, <1>10 DEF Advance, StopStreams, socketVars
<1>11. CASE PublisherStep
  BY <1>3, <1>11 DEF PublisherStep, Forget, Capture, EarlyWake, Publish, Admit, Shed, WaitReleased, PublishFails, ReplaceLarge,
     InstallDelta, InstallFull, CheckFull, InstallExtra, EndRun, socketVars
<1>12. ASSUME NEW c \in Conns, Register(c) \/ Accept(c) \/ Hello(c) \/ AskFull(c) \/ FinishWrite(c) \/ Expire(c) PROVE SocketInv'
  BY <1>3, <1>12 DEF Register, Accept, Hello, AskFull, FinishWrite, Expire, socketVars
<1>13. ASSUME NEW c \in Conns, HandlerStep(c) \/ ClientStep(c) PROVE SocketInv'
  BY <1>4, <1>5, <1>6, <1>7, <1>8, <1>9, <1>12, <1>13 DEF HandlerStep, ClientStep, LoseConnection
<1> QED
  BY <1>10, <1>11, <1>13 DEF Next

\* What a handler under write has leased.
LEMMA WritingLive ==
  ASSUME PublisherInv, NEW c \in Conns, subs[c].writing # 0
  PROVE  /\ subs[c].writing \in Ids /\ payloads[subs[c].writing] \in Payload
         /\ {subs[c].writing} \in SUBSET LiveOf(payloads)
<1>1. subs[c].writing \in Ids
  BY DEF PublisherInv, TypeInv, SubsOK, SubOK
<1>2. payloads[subs[c].writing] # None
  BY <1>1 DEF PublisherInv, LeaseInv, Leased, Writing
<1> QED
  BY <1>1, <1>2 DEF LiveOf, PublisherInv, TypeInv

\* Types and the pending encoding over every step.
LEMMA StepTypes == ASSUME PublisherInv, Next PROVE TypeInv' /\ WorkInv'
<1>1. /\ source \in Frame /\ needFull \in BOOLEAN /\ SubsOK(subs) /\ payloads \in [Ids -> Payload \cup {None}]
      /\ frame \in Frame \cup {None} /\ (frame = None <=> sequence = 0)
  BY DEF PublisherInv, TypeInv, WorkInv
<1>2. CASE Advance
  <2>1. source' \in Frame
    <3>1. PICK generation \in {source.generation, source.generation + 1}, project \in {source.project, source.project + 1},
               contract \in Contracts :
            /\ generation <= MaxSource /\ project <= MaxSource
            /\ source' = [project |-> project, generation |-> generation, contract |-> contract,
                          version |-> source.version + 1]
      BY <1>2 DEF Advance
    <3>2. /\ source.generation \in 1 .. MaxSource /\ source.project \in 1 .. MaxSource /\ source.version \in 1 .. MaxVersion
          /\ source.version < MaxVersion
      BY <1>1, <1>2 DEF Frame, Advance
    <3>3. MaxSource \in Nat /\ MaxVersion \in Nat
      BY LimitAssumption
    <3> QED
      BY <3>1, <3>2, <3>3 DEF Frame
  <2>2. UNCHANGED <<needFull, subs, frame, stream, sequence, streams, history, full, payloads, work>>
    BY <1>2 DEF Advance, publisherVars
  <2> QED
    BY <1>1, <2>1, <2>2, IdleTypes
<1>3. CASE StopStreams
  BY <1>1, <1>3, BreakOK, IdleTypes DEF StopStreams, publisherVars
<1>4. CASE PublisherStep
  BY <1>1, <1>4, ForgetTypes, PublishTypes, AdmitTypes, ShedTypes, WorkTypes, ReplaceTypes, InstallTypes, CheckTypes, ExtraTypes
     DEF PublisherStep, Capture, EarlyWake
<1>5. ASSUME NEW c \in Conns, HandlerStep(c) PROVE TypeInv' /\ WorkInv'
  <2>1. SubsOK(subs') /\ source' = source /\ needFull' \in BOOLEAN
    BY <1>1, <1>5, HandlerSubs DEF HandlerStep, Register, Accept, Hello, StartWrite, AskFull, FinishWrite, StartHeartbeat,
       ReadControl, Expire, Leave
  <2>2. UNCHANGED <<frame, stream, sequence, streams, history, full, work>>
    BY <1>5 DEF HandlerStep, Register, Accept, Hello, StartWrite, AskFull, FinishWrite, StartHeartbeat,
       ReadControl, Expire, Leave, publisherVars
  <2>3. payloads' \in [Ids -> Payload \cup {None}]
    <3>1. CASE StartWrite(c)
      <4>1. PICK i \in NextPayload(c) : payloads' = [payloads EXCEPT ![i].refs = @ + 1]
        BY <3>1 DEF StartWrite
      <4>2. i \in Ids /\ payloads[i] \in Payload
        BY ChosenPayload
      <4> DEFINE new == [payloads[i] EXCEPT !.refs = payloads[i].refs + 1]
      <4>3. new \in Payload
        BY <4>2 DEF Payload
      <4>4. payloads' = [payloads EXCEPT ![i] = new]
        BY <1>1, <4>1
      <4> HIDE DEF new
      <4> QED
        BY <1>1, <4>2, <4>3, <4>4
    <3>2. CASE FinishWrite(c)
      <4>1. payloads' = Release({subs[c].writing}) /\ {subs[c].writing} \in SUBSET LiveOf(payloads)
        BY <3>2, WritingLive DEF FinishWrite
      <4> QED
        BY <1>1, <4>1, ReleaseContents
    <3>3. CASE UNCHANGED payloads
      BY <1>1, <3>3
    <3> QED
      BY <1>5, <3>1, <3>2, <3>3 DEF HandlerStep, Register, Accept, Hello, AskFull, StartHeartbeat,
         ReadControl, Expire, Leave, publisherVars
  <2> QED
    BY <1>1, <2>1, <2>2, <2>3, IdleTypes
<1>6. ASSUME NEW c \in Conns, ClientStep(c) PROVE TypeInv' /\ WorkInv'
  <2>1. /\ source' = source /\ needFull' = needFull
        /\ UNCHANGED <<frame, stream, sequence, streams, history, full, work, payloads>>
    BY <1>6 DEF ClientStep, Receive, AnswerHeartbeat, LoseConnection, Disconnect, publisherVars
  <2>2. subs' = subs \/ subs' = Break({c})
    BY <1>6 DEF ClientStep, Receive, AnswerHeartbeat, LoseConnection, Disconnect
  <2> QED
    BY <1>1, <2>1, <2>2, BreakOK, IdleTypes
<1> QED
  BY <1>2, <1>3, <1>4, <1>5, <1>6 DEF Next

-----------------------------------------------------------------------------
(* Leases.                                                                 *)

\* The bytes after a step.
LEMMA BytesAfter == (retained = Bytes(Live))' <=> retained' = Total(payloads', LiveOf(payloads'))
<1>1. (Bytes(Live))' = Total(payloads', LiveOf(payloads'))
  BY DEF Bytes, MapThenSumSet, MapThenFoldSet, Total, SumOf, IsSum, Pick, Live, LiveOf
<1> QED
  BY <1>1

\* The limit of the retained bytes is a number.
LEMMA RetainedLimit ==
  ASSUME PublisherInv
  PROVE  RetainedBytes \in Nat /\ retained \in Nat /\ MaxMessage \in Nat /\ RetainedBytes >= MaxMessage
<1>1. RetainedBytes \in Nat /\ MaxMessage \in Nat /\ RetainedBytes >= MaxMessage
  BY IdsFinite DEF RetainedBytes
<1>2. retained = Total(payloads, LiveOf(payloads)) /\ payloads \in [Ids -> Payload \cup {None}]
  BY BytesTotal DEF PublisherInv, LeaseInv, TypeInv, Live, LiveOf
<1>3. LiveOf(payloads) \in SUBSET LiveOf(payloads)
  OBVIOUS
<1>4. Total(payloads, LiveOf(payloads)) \in Nat
  BY <1>2, <1>3, LiveSizes
<1> QED
  BY <1>1, <1>2, <1>4

\* A step that leases nothing and gives nothing back.
LEMMA SameLeases ==
  ASSUME PublisherInv, UNCHANGED <<payloads, retained, writers>>, Writing(subs') = Writing(subs),
         Held(history', full', work'.id) = Held(history, full, work.id), Distinct(history', full', work'.id)
  PROVE  LeaseInv'
<1>1. Leased(payloads', Held(history', full', work'.id), Writing(subs'))
  BY DEF PublisherInv, LeaseInv
<1>2. (retained = Bytes(Live))'
  <2>1. retained = Total(payloads, LiveOf(payloads))
    BY BytesTotal DEF PublisherInv, LeaseInv, Live, LiveOf
  <2> QED
    BY <2>1, BytesAfter
<1>3. \A c \in Conns : subs'[c].writing # 0 => \E n \in DOMAIN writers' : writers'[n] = c
  <2>1. \A c \in Conns : subs'[c].writing = Writing(subs')[c] /\ subs[c].writing = Writing(subs)[c]
    BY DEF Writing
  <2> QED
    BY <2>1 DEF PublisherInv, LeaseInv
<1> QED
  BY <1>1, <1>2, <1>3 DEF PublisherInv, LeaseInv, RetainedBytes

\* A step in which the publisher lets go of some payloads.
LEMMA DropLeases ==
  ASSUME PublisherInv, NEW gone, gone \subseteq Held(history, full, work.id),
         payloads' = Release(gone), retained' = RetainedWithout(gone), writers' = writers, Writing(subs') = Writing(subs),
         Held(history', full', work'.id) = Held(history, full, work.id) \ gone, Distinct(history', full', work'.id)
  PROVE  LeaseInv'
<1>1. gone \in SUBSET Ids /\ gone \in SUBSET LiveOf(payloads)
  BY OwnedHeld
<1>2. Leased(payloads', Held(history', full', work'.id), Writing(subs'))
  BY <1>1, ReleaseLeased DEF PublisherInv, LeaseInv, TypeInv
<1>3. (retained = Bytes(Live))' /\ retained' <= RetainedBytes
  <2>1. retained' = Total(payloads', LiveOf(payloads')) /\ retained' <= retained /\ retained' \in Nat
    BY <1>1, ReleaseBytes DEF PublisherInv, LeaseInv, TypeInv
  <2>2. retained <= RetainedBytes
    BY DEF PublisherInv, LeaseInv
  <2> QED
    BY <2>1, <2>2, BytesAfter, RetainedLimit
<1>4. \A c \in Conns : subs'[c].writing # 0 => \E n \in DOMAIN writers' : writers'[n] = c
  <2>1. \A c \in Conns : subs'[c].writing = Writing(subs')[c] /\ subs[c].writing = Writing(subs)[c]
    BY DEF Writing
  <2> QED
    BY <2>1 DEF PublisherInv, LeaseInv
<1> QED
  BY <1>2, <1>3, <1>4 DEF PublisherInv, LeaseInv, RetainedBytes

\* An empty history.
LEMMA NoHistory == ToSet(<<>>) = {} /\ Held(<<>>, 0, 0) = {} /\ Distinct(<<>>, 0, 0) /\ DOMAIN <<>> = {}
BY DEF ToSet, Held, Distinct

\* Forget, EndRun.
LEMMA ForgetLeases == ASSUME PublisherInv, Forget \/ EndRun PROVE LeaseInv'
<1>1. work.id = 0 /\ work'.id = 0
  BY IdleWork DEF Forget, EndRun, PublisherInv, WorkInv
<1>2. /\ payloads' = Release(Owned) /\ retained' = RetainedWithout(Owned) /\ writers' = writers /\ subs' = subs
      /\ history' = <<>> /\ full' = 0
  BY DEF Forget, EndRun
<1>3. Held(history, full, work.id) = Owned
  BY <1>1 DEF Held, Owned, CachedFull
<1>4. Held(history', full', work'.id) = Held(history, full, work.id) \ Owned /\ Distinct(history', full', work'.id)
  BY <1>1, <1>2, <1>3, NoHistory
<1> QED
  BY <1>2, <1>3, <1>4, DropLeases

\* What does not fit after the evictions makes the publisher give up all.
LEMMA AllDropped ==
  ASSUME PublisherInv, work.pc = "admit", ~Admissible(work.size)
  PROVE  Dropped(work.size) = Owned
<1> DEFINE size == work.size
           n == Evictions(size)
           old == Oldest(n)
<1>1. history \in Seq(Ids) /\ size \in Nat /\ payloads \in [Ids -> Payload \cup {None}]
  BY IdsFinite DEF PublisherInv, TypeInv, Work
<1>2. n \in 0 .. Len(history) /\ (n = Len(history) \/ RetainedWithout(old) + size <= RetainedBytes)
  BY <1>1, EvictionsFound
<1>3. old = {history[k] : k \in 1 .. n} /\ old \subseteq ToSet(history)
  <2> HIDE DEF n
  <2> QED
    BY <1>1, <1>2, HistoryParts
<1>4. old \in SUBSET LiveOf(payloads)
  BY <1>3, OwnedHeld DEF Owned
<1>5. RetainedWithout(old) \in Nat
  <2> HIDE DEF old
  <2> QED
    BY <1>1, <1>4, ReleaseBytes DEF PublisherInv, LeaseInv
<1> HIDE DEF n
<1>6. ~(RetainedWithout(old) + size <= RetainedBytes)
  <2> SUFFICES ASSUME RetainedWithout(old) + size <= RetainedBytes PROVE Dropped(size) = old
    BY DEF Admissible
  <2>1. ~(RetainedWithout(old) + size > RetainedBytes)
    BY <1>1, <1>5, RetainedLimit
  <2> QED
    BY <2>1 DEF Dropped, n
<1>7. old = ToSet(history)
  <2>1. n = Len(history) /\ DOMAIN history = 1 .. n
    BY <1>1, <1>2, <1>6
  <2> QED
    BY <2>1, <1>3 DEF ToSet
<1>8. RetainedWithout(old) + size > RetainedBytes
  BY <1>1, <1>5, <1>6, RetainedLimit
<1>9. Dropped(size) = IF full # 0 THEN old \cup {full} ELSE old
  BY <1>8 DEF Dropped, n
<1> QED
  BY <1>7, <1>9 DEF Owned, CachedFull

\* admitEncoded gives up all it owns.
LEMMA ShedLeases == ASSUME PublisherInv, Shed PROVE LeaseInv'
<1>1. work.pc = "admit" /\ ~Admissible(work.size) /\ work.id = 0 /\ work'.id = 0
  BY DEF Shed, PublisherInv, WorkInv, TypeInv, Work
<1>2. Dropped(work.size) = Owned
  BY <1>1, AllDropped
<1>3. /\ payloads' = Release(Owned) /\ retained' = RetainedWithout(Owned) /\ writers' = writers
      /\ history' = <<>> /\ full' = 0
  BY <1>2 DEF Shed
<1>4. Held(history, full, work.id) = Owned
  BY <1>1 DEF Held, Owned, CachedFull
<1>5. Writing(subs') = Writing(subs)
  BY BreakOK DEF Shed, PublisherInv, TypeInv
<1>6. Held(history', full', work'.id) = Held(history, full, work.id) \ Owned /\ Distinct(history', full', work'.id)
  BY <1>1, <1>3, <1>4, NoHistory
<1> QED
  BY <1>3, <1>4, <1>5, <1>6, DropLeases

\* The payload of the delta is released.
LEMMA ReplaceLeases == ASSUME PublisherInv, ReplaceLarge PROVE LeaseInv'
<1>1. /\ payloads' = Release({work.id}) /\ retained' = RetainedWithout({work.id}) /\ writers' = writers /\ subs' = subs
      /\ history' = history /\ full' = full /\ work.id # 0
  BY DEF ReplaceLarge, PublisherInv, WorkInv
<1>2. work'.id = 0
  BY DEF ReplaceLarge, PublisherInv, TypeInv, Work
<1>3. Distinct(history, full, work.id) /\ history \in Seq(Ids)
  BY DEF PublisherInv, LeaseInv, TypeInv
<1>4. \A n \in DOMAIN history : history[n] # 0
  BY <1>3, IdsFinite
<1>5. Distinct(history', full', work'.id)
  BY <1>1, <1>2, <1>3, <1>4 DEF Distinct
<1>6. Held(history', full', work'.id) = Held(history, full, work.id) \ {work.id}
  BY <1>1, <1>2, <1>3 DEF Distinct, Held, ToSet
<1>7. {work.id} \subseteq Held(history, full, work.id)
  BY <1>1, OwnedHeld
<1> QED
  BY <1>1, <1>5, <1>6, <1>7, DropLeases

\* The installs.
LEMMA InstallLeases == ASSUME PublisherInv, InstallDelta \/ InstallFull \/ InstallExtra PROVE LeaseInv'
<1>1. /\ writers' = writers /\ subs' = subs /\ work.id \in Ids /\ work.id # 0 /\ work'.id = 0
      /\ Distinct(history, full, work.id) /\ history \in Seq(Ids) /\ full \in Ids \cup {0}
  <2>1. work'.id = 0
    <3>1. work.need \in BOOLEAN
      BY DEF PublisherInv, TypeInv, Work
    <3> QED
      BY <3>1, IdleWork DEF InstallDelta, InstallFull, InstallExtra
  <2>2. work.id \in Ids \cup {0} /\ work.id # 0
    BY DEF InstallDelta, InstallFull, InstallExtra, PublisherInv, TypeInv, WorkInv, Work
  <2> QED
    BY <2>1, <2>2 DEF InstallDelta, InstallFull, InstallExtra, PublisherInv, TypeInv, LeaseInv
<1>2. \A n \in DOMAIN history : history[n] # 0
  BY <1>1, IdsFinite
<1>3. CASE InstallDelta
  <2>1. payloads' = Release(CachedFull) /\ retained' = RetainedWithout(CachedFull) /\ history' = Append(history, work.id) /\ full' = 0
    BY <1>3 DEF InstallDelta
  <2>2. ToSet(Append(history, work.id)) = ToSet(history) \cup {work.id}
    <3>1. \A n \in DOMAIN history : Append(history, work.id)[n] = history[n]
      BY <1>1
    <3>2. DOMAIN Append(history, work.id) = DOMAIN history \cup {Len(history) + 1}
      BY <1>1
    <3>3. Append(history, work.id)[Len(history) + 1] = work.id
      BY <1>1
    <3> QED
      BY <3>1, <3>2, <3>3 DEF ToSet
  <2>3. Distinct(history', full', work'.id)
    <3>1. \A n \in DOMAIN history' : (n \in DOMAIN history /\ history'[n] = history[n]) \/ (n = Len(history) + 1 /\ history'[n] = work.id)
      BY <1>1, <2>1
    <3> QED
      BY <1>1, <1>2, <2>1, <3>1 DEF Distinct
  <2>4. Held(history', full', work'.id) = Held(history, full, work.id) \ CachedFull
    BY <1>1, <1>2, <2>1, <2>2 DEF Held, CachedFull, Distinct, ToSet
  <2>5. CachedFull \subseteq Held(history, full, work.id)
    BY OwnedHeld
  <2> QED
    BY <1>1, <2>1, <2>3, <2>4, <2>5, DropLeases
<1>4. CASE InstallFull
  <2>1. payloads' = Release(Owned) /\ retained' = RetainedWithout(Owned) /\ history' = <<>> /\ full' = work.id
    BY <1>4 DEF InstallFull
  <2>2. Distinct(history', full', work'.id)
    BY <1>1, <2>1, NoHistory DEF Distinct
  <2>3. Held(history', full', work'.id) = Held(history, full, work.id) \ Owned
    BY <1>1, <1>2, <2>1, NoHistory DEF Held, Owned, CachedFull, Distinct, ToSet
  <2>4. Owned \subseteq Held(history, full, work.id)
    BY OwnedHeld
  <2> QED
    BY <1>1, <2>1, <2>2, <2>3, <2>4, DropLeases
<1>5. CASE InstallExtra
  <2>1. payloads' = payloads /\ retained' = retained /\ history' = history /\ full' = work.id
    BY <1>5 DEF InstallExtra
  <2>2. full = 0
    BY <1>5 DEF InstallExtra, PublisherInv, WorkInv, PendingOK
  <2>3. Distinct(history', full', work'.id)
    BY <1>1, <1>2, <2>1 DEF Distinct
  <2>4. Held(history', full', work'.id) = Held(history, full, work.id)
    BY <1>1, <2>1, <2>2 DEF Held
  <2> QED
    BY <1>1, <2>1, <2>3, <2>4, SameLeases
<1> QED
  BY <1>3, <1>4, <1>5

\* The history that the evictions leave.
LEMMA KeptHeld ==
  ASSUME history \in Seq(Ids), NEW n \in 0 .. Len(history), \A j, k \in DOMAIN history : history[j] = history[k] => j = k
  PROVE  /\ ToSet(Kept(n)) = ToSet(history) \ Oldest(n)
         /\ \A j, k \in DOMAIN Kept(n) : Kept(n)[j] = Kept(n)[k] => j = k
         /\ \A k \in DOMAIN Kept(n) : \E m \in DOMAIN history : Kept(n)[k] = history[m]
<1>1. /\ Kept(n) \in Seq(Ids) /\ Len(Kept(n)) = Len(history) - n
      /\ \A k \in 1 .. (Len(history) - n) : k + n \in DOMAIN history /\ Kept(n)[k] = history[k + n]
      /\ Oldest(n) = {history[k] : k \in 1 .. n}
  BY HistoryParts
<1>2. DOMAIN Kept(n) = 1 .. (Len(history) - n) /\ DOMAIN history = 1 .. Len(history) /\ Len(history) \in Nat /\ n \in Nat /\ n <= Len(history)
  BY <1>1
<1>3. \A m \in DOMAIN history : m > n => m - n \in DOMAIN Kept(n) /\ Kept(n)[m - n] = history[m]
  <2> SUFFICES ASSUME NEW m \in DOMAIN history, m > n
               PROVE  m - n \in DOMAIN Kept(n) /\ Kept(n)[m - n] = history[m]
    OBVIOUS
  <2>1. m - n \in 1 .. (Len(history) - n) /\ (m - n) + n = m
    BY <1>2
  <2> QED
    BY <1>1, <1>2, <2>1
<1>4. \A k \in DOMAIN Kept(n) : k + n \in DOMAIN history /\ k + n > n /\ Kept(n)[k] = history[k + n]
  BY <1>1, <1>2
<1>5. \A m \in 1 .. n : m \in DOMAIN history /\ ~(m > n)
  BY <1>2
<1>6. \A m \in DOMAIN history : m \in 1 .. n \/ m > n
  BY <1>2
<1>7. ToSet(Kept(n)) = ToSet(history) \ Oldest(n)
  <2>1. ASSUME NEW x \in ToSet(Kept(n)) PROVE x \in ToSet(history) \ Oldest(n)
    <3>1. PICK k \in DOMAIN Kept(n) : x = Kept(n)[k]
      BY DEF ToSet
    <3>2. k + n \in DOMAIN history /\ k + n > n /\ x = history[k + n]
      BY <3>1, <1>4
    <3>3. ASSUME x \in Oldest(n) PROVE FALSE
      <4>1. PICK m \in 1 .. n : x = history[m]
        BY <1>1, <3>3
      <4>2. m = k + n
        BY <1>5, <3>2, <4>1
      <4> QED
        BY <1>5, <3>2, <4>2
    <3> QED
      BY <3>2, <3>3 DEF ToSet
  <2>2. ASSUME NEW x \in ToSet(history), x \notin Oldest(n) PROVE x \in ToSet(Kept(n))
    <3>1. PICK m \in DOMAIN history : x = history[m]
      BY DEF ToSet
    <3>2. m > n
      BY <1>1, <1>6, <2>2, <3>1
    <3> QED
      BY <1>3, <3>1, <3>2 DEF ToSet
  <2> QED
    BY <2>1, <2>2
<1>8. ASSUME NEW j \in DOMAIN Kept(n), NEW k \in DOMAIN Kept(n), Kept(n)[j] = Kept(n)[k] PROVE j = k
  <2>1. j + n = k + n /\ j \in Int /\ k \in Int
    BY <1>2, <1>4, <1>8
  <2> QED
    BY <2>1, <1>2
<1> QED
  BY <1>4, <1>7, <1>8

\* The admission: a free identifier takes the encoding.
LEMMA AdmitLeases == ASSUME PublisherInv, Admit PROVE LeaseInv'
<1> DEFINE gone == Dropped(work.size)
           after == Release(gone)
           id == Min({i \in Ids : after[i] = None})
           n == Evictions(work.size)
           held == Held(history, full, work.id)
           w == Writing(subs)
<1>1. /\ work.pc = "admit" /\ work.id = 0 /\ history \in Seq(Ids) /\ full \in Ids \cup {0}
      /\ payloads \in [Ids -> Payload \cup {None}] /\ work.size \in Nat /\ Admissible(work.size)
      /\ Distinct(history, full, 0) /\ Leased(payloads, held, w)
  BY IdsFinite DEF Admit, PublisherInv, TypeInv, WorkInv, LeaseInv, Work
<1>2. id \in Ids /\ after[id] = None /\ id # 0
  BY <1>1, FreeId, IdsFinite
<1>3. gone \subseteq held /\ gone \in SUBSET Ids /\ gone \in SUBSET LiveOf(payloads)
  BY <1>1, DroppedOwned, OwnedHeld
<1>4. after \in [Ids -> Payload \cup {None}] /\ Leased(after, held \ gone, w)
  <2> HIDE DEF gone, held, w
  <2> QED
    BY <1>1, <1>3, ReleaseLeased, ReleaseContents
<1>5. /\ payloads' = [after EXCEPT ![id] = Encoding] /\ retained' = RetainedWithout(gone) + work.size
      /\ history' = Kept(n) /\ full' = (IF full \in gone THEN 0 ELSE full) /\ writers' = writers /\ subs' = subs
      /\ work' = [work EXCEPT !.pc = "install", !.id = id]
  BY DEF Admit
<1>6. work'.id = id
  <2> HIDE DEF id
  <2> QED
    BY <1>5 DEF PublisherInv, TypeInv, Work
<1>7. Encoding \in Payload /\ Encoding # None /\ Encoding.refs = 1 /\ Encoding.size = work.size
  BY <1>1, EncodingOK, PayloadAssumption
<1>8. n \in 0 .. Len(history)
  BY <1>1, EvictionsFound
<1>9. /\ ToSet(Kept(n)) = ToSet(history) \ Oldest(n) /\ Oldest(n) \subseteq ToSet(history)
      /\ \A j, k \in DOMAIN Kept(n) : Kept(n)[j] = Kept(n)[k] => j = k
      /\ \A k \in DOMAIN Kept(n) : Kept(n)[k] \in ToSet(history) \ Oldest(n)
  <2> HIDE DEF n
  <2>1. /\ ToSet(Kept(n)) = ToSet(history) \ Oldest(n)
        /\ \A j, k \in DOMAIN Kept(n) : Kept(n)[j] = Kept(n)[k] => j = k
    BY <1>1, <1>8, KeptHeld DEF Distinct
  <2>2. \A k \in DOMAIN Kept(n) : Kept(n)[k] \in ToSet(Kept(n))
    BY DEF ToSet
  <2>3. Oldest(n) \subseteq ToSet(history)
    BY <1>1, <1>8, HistoryParts
  <2> QED
    BY <2>1, <2>2, <2>3
<1>10. gone = Oldest(n) \/ (full # 0 /\ gone = Oldest(n) \cup {full})
  BY DEF Dropped
<1>11. full \notin ToSet(history) /\ held = ToSet(history) \cup ({full} \ {0}) /\ 0 \notin ToSet(history)
  <2>1. \A k \in DOMAIN history : history[k] # 0 /\ history[k] # full
    BY <1>1, IdsFinite DEF Distinct
  <2> QED
    BY <1>1, <2>1 DEF ToSet, Held
<1> HIDE DEF gone, after, id, n
<1>12. held \ gone = ToSet(Kept(n)) \cup ({full'} \ {0})
  BY <1>5, <1>9, <1>10, <1>11
<1>13. id \notin held \ gone /\ \A c \in Conns : w[c] # id
  BY <1>2, <1>4 DEF Leased
<1>14. Held(history', full', work'.id) = (held \ gone) \cup {id}
  BY <1>2, <1>5, <1>6, <1>12 DEF Held
<1>15. Distinct(history', full', work'.id)
  <2>1. full' # 0 => full' = full
    BY <1>5
  <2>2. \A k \in DOMAIN Kept(n) : Kept(n)[k] # full' /\ Kept(n)[k] # id
    BY <1>9, <1>11, <1>12, <1>13, <2>1
  <2>3. full' # 0 => full' # id
    BY <1>12, <1>13
  <2> QED
    BY <1>5, <1>6, <1>9, <2>2, <2>3 DEF Distinct
<1>16. Leased(payloads', Held(history', full', work'.id), Writing(subs'))
  <2> SUFFICES ASSUME NEW i \in Ids
               PROVE  /\ payloads'[i] # None => payloads'[i].refs = (IF i \in (held \ gone) \cup {id} THEN 1 ELSE 0) + Cardinality({c \in Conns : w[c] = i})
                      /\ (i \in (held \ gone) \cup {id} \/ \E c \in Conns : w[c] = i) => payloads'[i] # None
    BY <1>5, <1>14 DEF Leased
  <2>1. CASE i = id
    <3>1. {c \in Conns : w[c] = id} = {}
      BY <1>13
    <3>2. Cardinality({c \in Conns : w[c] = i}) = 0
      BY <2>1, <3>1, FS_EmptySet
    <3>3. payloads'[i] = Encoding
      BY <1>2, <1>4, <1>5, <2>1
    <3> QED
      BY <1>7, <2>1, <3>2, <3>3
  <2>2. CASE i # id
    <3>1. payloads'[i] = after[i]
      BY <1>4, <1>5, <2>2
    <3> QED
      BY <1>4, <2>2, <3>1 DEF Leased
  <2> QED
    BY <2>1, <2>2
<1>17. (retained = Bytes(Live))' /\ retained' <= RetainedBytes
  <2> DEFINE p == payloads'
             all == LiveOf(p)
             old == LiveOf(after)
  <2>1. RetainedWithout(gone) = Total(after, old) /\ RetainedWithout(gone) \in Nat
    BY <1>1, <1>3, ReleaseBytes DEF after, PublisherInv, LeaseInv
  <2>2. p \in [Ids -> Payload \cup {None}] /\ all = old \cup {id} /\ id \notin old /\ p[id] = Encoding
        /\ \A i \in old : p[i].size = after[i].size
    BY <1>2, <1>4, <1>5, <1>7 DEF LiveOf
  <2>3. all \in SUBSET LiveOf(p) /\ old \in SUBSET LiveOf(after)
    OBVIOUS
  <2>4. IsFiniteSet(all) /\ IsFiniteSet(old) /\ \A x \in all : p[x].size \in Nat
    <3> HIDE DEF p, all, old
    <3> QED
      BY <2>2, <2>3, <1>4, LiveSizes
  <2> HIDE DEF p, all, old
  <2>5. Total(p, all) = p[id].size + Total(p, all \ {id}) /\ all \ {id} = old
    BY <2>2, <2>4, TotalRemove, SMTT(30)
  <2>6. Total(p, old) = Total(after, old)
    BY <2>2, <2>4, TotalSame
  <2>7. retained' = Total(p, all)
    <3>1. p[id].size = work.size /\ Total(p, all \ {id}) = RetainedWithout(gone)
      BY <1>7, <2>1, <2>2, <2>5, <2>6
    <3>2. Total(p, all) = work.size + RetainedWithout(gone)
      BY <2>5, <3>1
    <3>3. retained' = RetainedWithout(gone) + work.size
      BY <1>5
    <3> QED
      BY <1>1, <2>1, <3>2, <3>3
  <2>8. retained' <= RetainedBytes
    BY <1>1, <1>5 DEF Admissible, gone
  <2> QED
    BY <2>7, <2>8, BytesAfter DEF p, all
<1>18. (\A c \in Conns : subs[c].writing # 0 => \E m \in DOMAIN writers : writers[m] = c)' /\ writers' \in Seq(Conns)
  BY <1>5 DEF PublisherInv, LeaseInv
<1> QED
  BY <1>15, <1>16, <1>17, <1>18 DEF LeaseInv, RetainedBytes

\* A write leases the payload once more.
LEMMA StartWriteLeases == ASSUME PublisherInv, NEW c \in Conns, StartWrite(c) PROVE LeaseInv'
<1> DEFINE held == Held(history, full, work.id)
           w == Writing(subs)
<1>1. PICK i \in NextPayload(c) : /\ subs' = [subs EXCEPT ![c] = Sending(subs[c], i, payloads[i])]
                                  /\ subs'[c].writing = i
                                  /\ payloads' = [payloads EXCEPT ![i].refs = @ + 1]
  BY StartWriteSub
<1>2. /\ history' = history /\ full' = full /\ work' = work /\ retained' = retained /\ writers' = Append(writers, c)
      /\ subs[c].writing = 0
  BY DEF StartWrite, MaySend
<1>3. /\ i \in Ids /\ i # 0 /\ payloads[i] \in Payload /\ payloads[i] # None /\ payloads[i].refs \in Nat
      /\ payloads[i].size \in 1 .. MaxMessage
  BY ChosenPayload
<1>4. /\ payloads \in [Ids -> Payload \cup {None}] /\ SubsOK(subs) /\ DOMAIN subs = Conns
      /\ Leased(payloads, held, w) /\ writers \in Seq(Conns)
  BY DEF PublisherInv, TypeInv, SubsOK, LeaseInv
<1> DEFINE new == [payloads[i] EXCEPT !.refs = payloads[i].refs + 1]
<1>5. new \in Payload /\ new # None /\ new.refs = payloads[i].refs + 1 /\ new.size = payloads[i].size
  BY <1>3, PayloadAssumption DEF Payload
<1>6. payloads' = [payloads EXCEPT ![i] = new]
  BY <1>1, <1>3, <1>4
<1>7. Writing(subs') = [w EXCEPT ![c] = i]
  <2>1. subs'[c].writing = i /\ \A d \in Conns : d # c => subs'[d] = subs[d]
    BY <1>1, <1>4
  <2> QED
    BY <1>1, <1>4, <2>1 DEF Writing
<1>8. w \in [Conns -> Ids \cup {0}] /\ w[c] = 0
  BY <1>2, <1>4 DEF Writing, SubsOK, SubOK
<1> HIDE DEF new, w, held
<1>9. Leased(payloads', Held(history', full', work'.id), Writing(subs'))
  <2>1. Held(history', full', work'.id) = held
    BY <1>2 DEF held
  <2>2. ASSUME NEW j \in Ids
        PROVE  /\ payloads'[j] # None => payloads'[j].refs = (IF j \in held THEN 1 ELSE 0) + Cardinality({d \in Conns : [w EXCEPT ![c] = i][d] = j})
               /\ (j \in held \/ \E d \in Conns : [w EXCEPT ![c] = i][d] = j) => payloads'[j] # None
    <3>1. CASE j = i
      <4> DEFINE s == {d \in Conns : w[d] = i}
      <4>1. {d \in Conns : [w EXCEPT ![c] = i][d] = j} = s \cup {c} /\ c \notin s
        BY <1>3, <1>8, <3>1
      <4>2. IsFiniteSet(s) /\ Cardinality(s) \in Nat
        BY WritersCount
      <4>3. Cardinality(s \cup {c}) = Cardinality(s) + 1
        <5> HIDE DEF s
        <5> QED
          BY <4>1, <4>2, FS_AddElement
      <4>4. payloads[i].refs = (IF i \in held THEN 1 ELSE 0) + Cardinality(s)
        BY <1>3, <1>4 DEF Leased
      <4>5. payloads'[j] = new
        BY <1>3, <1>4, <1>6, <3>1
      <4> HIDE DEF s
      <4> QED
        BY <1>5, <3>1, <4>1, <4>2, <4>3, <4>4, <4>5
    <3>2. CASE j # i
      <4>1. {d \in Conns : [w EXCEPT ![c] = i][d] = j} = {d \in Conns : w[d] = j}
        BY <1>3, <1>8, <3>2, IdsFinite
      <4>2. payloads'[j] = payloads[j]
        BY <1>4, <1>6, <3>2
      <4>3. (\E d \in Conns : [w EXCEPT ![c] = i][d] = j) => \E d \in Conns : w[d] = j
        BY <1>8, <3>2
      <4> QED
        BY <1>4, <4>1, <4>2, <4>3 DEF Leased
    <3> QED
      BY <3>1, <3>2
  <2> QED
    BY <1>7, <2>1, <2>2 DEF Leased
<1>10. (retained = Bytes(Live))'
  <2> DEFINE p == payloads'
             all == LiveOf(p)
  <2>1. all = LiveOf(payloads)
    BY <1>3, <1>4, <1>5, <1>6 DEF LiveOf
  <2>2. \A x \in all : payloads[x].size = p[x].size
    BY <1>3, <1>4, <1>5, <1>6 DEF LiveOf
  <2>3. all \in SUBSET LiveOf(payloads)
    BY <2>1
  <2>4. IsFiniteSet(all)
    <3> HIDE DEF all
    <3> QED
      BY <1>4, <2>3, LiveSizes
  <2>5. Total(payloads, all) = Total(p, all)
    <3> HIDE DEF p, all
    <3> QED
      BY <2>2, <2>4, TotalSame
  <2>6. retained = Total(payloads, LiveOf(payloads))
    BY BytesTotal DEF PublisherInv, LeaseInv, Live, LiveOf
  <2> QED
    BY <1>2, <2>1, <2>5, <2>6, BytesAfter
<1>11. \A d \in Conns : subs'[d].writing # 0 => \E n \in DOMAIN writers' : writers'[n] = d
  <2>1. \A n \in DOMAIN writers : n \in DOMAIN writers' /\ writers'[n] = writers[n]
    BY <1>2, <1>4
  <2>2. Len(writers) + 1 \in DOMAIN writers' /\ writers'[Len(writers) + 1] = c
    BY <1>2, <1>4
  <2>3. \A d \in Conns : d # c => subs'[d] = subs[d]
    BY <1>1, <1>4
  <2> QED
    BY <2>1, <2>2, <2>3 DEF PublisherInv, LeaseInv
<1>12. Distinct(history', full', work'.id) /\ retained' <= RetainedBytes /\ writers' \in Seq(Conns)
  BY <1>2, <1>4 DEF PublisherInv, LeaseInv
<1> QED
  BY <1>9, <1>10, <1>11, <1>12 DEF LeaseInv, RetainedBytes

\* The other writers stay in the list.
LEMMA WritersLeft ==
  ASSUME writers \in Seq(Conns), NEW n \in DOMAIN writers
  PROVE  /\ RemoveAt(writers, n) \in Seq(Conns)
         /\ \A m \in DOMAIN writers : m # n => \E k \in DOMAIN RemoveAt(writers, n) : RemoveAt(writers, n)[k] = writers[m]
<1> DEFINE a == SubSeq(writers, 1, n - 1)
           b == SubSeq(writers, n + 1, Len(writers))
<1>1. n \in 1 .. Len(writers) /\ Len(writers) \in Nat
  OBVIOUS
<1>2. /\ a \in Seq(Conns) /\ Len(a) = n - 1 /\ \A k \in 1 .. (n - 1) : a[k] = writers[k]
  BY <1>1
<1>3. b \in Seq(Conns) /\ Len(b) = Len(writers) - n
  BY <1>1
<1>4. ASSUME NEW k \in 1 .. (Len(writers) - n) PROVE b[k] = writers[k + n]
  BY <1>1
<1> HIDE DEF a, b
<1>5. /\ a \o b \in Seq(Conns) /\ Len(a \o b) = Len(writers) - 1
      /\ \A k \in 1 .. (Len(writers) - 1) : (a \o b)[k] = IF k <= n - 1 THEN a[k] ELSE b[k - (n - 1)]
  BY <1>1, <1>2, <1>3, SMTT(30)
<1>6. RemoveAt(writers, n) = a \o b
  BY DEF RemoveAt, a, b
<1>7. ASSUME NEW m \in DOMAIN writers, m # n
      PROVE  \E k \in DOMAIN (a \o b) : (a \o b)[k] = writers[m]
  <2>1. CASE m < n
    <3>1. m \in 1 .. (n - 1) /\ m \in 1 .. (Len(writers) - 1)
      BY <1>1, <1>7, <2>1
    <3> QED
      BY <1>2, <1>5, <3>1
  <2>2. CASE m > n
    <3> DEFINE k == m - 1
    <3>1. k \in 1 .. (Len(writers) - 1) /\ ~(k <= n - 1) /\ k - (n - 1) \in 1 .. (Len(writers) - n) /\ (k - (n - 1)) + n = m
      BY <1>1, <1>7, <2>2
    <3>2. b[k - (n - 1)] = writers[m]
      <4> HIDE DEF k
      <4> QED
        BY <3>1, <1>4
    <3>3. (a \o b)[k] = writers[m]
      <4> HIDE DEF k
      <4>1. (a \o b)[k] = b[k - (n - 1)]
        BY <3>1, <1>5
      <4> QED
        BY <4>1, <3>2
    <3>4. k \in DOMAIN (a \o b)
      <4> HIDE DEF k
      <4> QED
        BY <3>1, <1>5
    <3> QED
      BY <3>3, <3>4
  <2> QED
    BY <1>1, <1>7, <2>1, <2>2
<1> QED
  BY <1>5, <1>6, <1>7

\* The end of a write gives its lease back.
LEMMA FinishWriteLeases == ASSUME PublisherInv, NEW c \in Conns, FinishWrite(c) PROVE LeaseInv'
<1> DEFINE held == Held(history, full, work.id)
           w == Writing(subs)
           i == subs[c].writing
<1>1. /\ history' = history /\ full' = full /\ work' = work /\ i # 0
      /\ payloads' = Release({i}) /\ retained' = RetainedWithout({i})
  BY DEF FinishWrite
<1>2. PICK n \in DOMAIN writers : writers[n] = c /\ writers' = RemoveAt(writers, n)
  BY DEF FinishWrite
<1>3. PICK b \in BOOLEAN : subs' = [subs EXCEPT ![c] = [subs[c] EXCEPT !.writing = 0, !.broken = b]]
  BY FinishWriteSub
<1>4. /\ payloads \in [Ids -> Payload \cup {None}] /\ SubsOK(subs) /\ DOMAIN subs = Conns /\ SubOK(subs[c])
      /\ Leased(payloads, held, w) /\ writers \in Seq(Conns)
  BY DEF PublisherInv, TypeInv, SubsOK, LeaseInv
<1>5. i \in Ids /\ payloads[i] \in Payload /\ {i} \in SUBSET LiveOf(payloads)
  BY <1>1, WritingLive
<1>6. Writing(subs') = [w EXCEPT ![c] = 0]
  <2>1. [subs[c] EXCEPT !.writing = 0, !.broken = b].writing = 0
    BY <1>4 DEF SubOK, SubFields
  <2> QED
    BY <1>3, <1>4, <2>1 DEF Writing
<1>7. w \in [Conns -> Ids \cup {0}] /\ w[c] = i
  BY <1>4 DEF Writing, SubsOK, SubOK
<1>8. \A j \in Ids : /\ j # i => payloads'[j] = payloads[j]
                     /\ j = i /\ payloads[j].refs = 1 => payloads'[j] = None
                     /\ j = i /\ payloads[j].refs # 1 => payloads'[j] # None /\ payloads'[j].refs = payloads[j].refs - 1
  <2> DEFINE gone == {i}
  <2>1. gone \in SUBSET LiveOf(payloads) /\ payloads' = Release(gone) /\ \A j : j \in gone <=> j = i
    BY <1>1, <1>5
  <2> HIDE DEF gone, i
  <2> QED
    BY <1>4, <2>1, ReleaseContents
<1> HIDE DEF w, held, i
<1>9. Leased(payloads', Held(history', full', work'.id), Writing(subs'))
  <2>1. Held(history', full', work'.id) = held
    BY <1>1 DEF held
  <2>2. ASSUME NEW j \in Ids
        PROVE  /\ payloads'[j] # None => payloads'[j].refs = (IF j \in held THEN 1 ELSE 0) + Cardinality({d \in Conns : [w EXCEPT ![c] = 0][d] = j})
               /\ (j \in held \/ \E d \in Conns : [w EXCEPT ![c] = 0][d] = j) => payloads'[j] # None
    <3>0. j # 0
      BY IdsFinite
    <3>1. CASE j = i
      <4> DEFINE s == {d \in Conns : w[d] = i}
      <4>1. {d \in Conns : [w EXCEPT ![c] = 0][d] = j} = s \ {c} /\ c \in s
        BY <1>1, <1>7, <3>1
      <4>2. IsFiniteSet(s) /\ Cardinality(s) \in Nat
        BY WritersCount
      <4>3. Cardinality(s \ {c}) = Cardinality(s) - 1
        <5> HIDE DEF s
        <5> QED
          BY <4>1, <4>2, FS_RemoveElement
      <4>4. Cardinality(s \ {c}) \in Nat /\ (Cardinality(s \ {c}) = 0 <=> s \ {c} = {})
        <5> DEFINE v == [w EXCEPT ![c] = 0]
        <5>1. s \ {c} = {d \in Conns : v[d] = j}
          BY <4>1
        <5> HIDE DEF v
        <5>2. Cardinality({d \in Conns : v[d] = j}) \in Nat /\ (Cardinality({d \in Conns : v[d] = j}) = 0 <=> {d \in Conns : v[d] = j} = {})
          BY WritersCount
        <5> HIDE DEF s
        <5> QED
          BY <5>1, <5>2
      <4>5. payloads[i].refs = (IF i \in held THEN 1 ELSE 0) + Cardinality(s)
        BY <1>4, <1>5 DEF Leased, LiveOf
      <4>6. (\E d \in Conns : [w EXCEPT ![c] = 0][d] = j) => s \ {c} # {}
        BY <4>1
      <4> HIDE DEF s
      <4>7. CASE payloads[i].refs = 1
        <5>1. payloads'[j] = None /\ i \notin held /\ s \ {c} = {}
          BY <1>8, <3>1, <4>7, <4>2, <4>3, <4>4, <4>5
        <5> QED
          BY <3>1, <4>6, <5>1
      <4>8. CASE payloads[i].refs # 1
        <5>1. payloads'[j] # None /\ payloads'[j].refs = payloads[i].refs - 1
          BY <1>8, <3>1, <4>8
        <5> QED
          <6>1. payloads[i].refs - 1 = (IF i \in held THEN 1 ELSE 0) + Cardinality(s \ {c})
            BY <4>2, <4>3, <4>5
          <6> QED
            BY <3>1, <4>1, <5>1, <6>1
      <4> QED
        BY <4>7, <4>8
    <3>2. CASE j # i
      <4>1. {d \in Conns : [w EXCEPT ![c] = 0][d] = j} = {d \in Conns : w[d] = j}
        BY <1>7, <3>0, <3>2
      <4>2. payloads'[j] = payloads[j]
        BY <1>8, <3>2
      <4>3. (\E d \in Conns : [w EXCEPT ![c] = 0][d] = j) => \E d \in Conns : w[d] = j
        BY <1>7, <3>0
      <4> QED
        BY <1>4, <4>1, <4>2, <4>3 DEF Leased
    <3> QED
      BY <3>1, <3>2
  <2> QED
    BY <1>6, <2>1, <2>2 DEF Leased
<1>10. (retained = Bytes(Live))' /\ retained' <= RetainedBytes
  <2>1. retained' = Total(payloads', LiveOf(payloads')) /\ retained' <= retained /\ retained' \in Nat
    BY <1>1, <1>4, <1>5, ReleaseBytes DEF PublisherInv, LeaseInv
  <2>2. retained <= RetainedBytes
    BY DEF PublisherInv, LeaseInv
  <2> QED
    BY <2>1, <2>2, BytesAfter, RetainedLimit
<1>11. writers' \in Seq(Conns) /\ \A d \in Conns : subs'[d].writing # 0 => \E m \in DOMAIN writers' : writers'[m] = d
  <2>1. \A d \in Conns : subs'[d].writing = Writing(subs')[d] /\ subs[d].writing = w[d]
    BY DEF Writing, w
  <2>2. writers' \in Seq(Conns) /\ \A m \in DOMAIN writers : m # n => \E k \in DOMAIN writers' : writers'[k] = writers[m]
    BY <1>2, <1>4, WritersLeft
  <2>3. ASSUME NEW d \in Conns, subs'[d].writing # 0 PROVE \E m \in DOMAIN writers' : writers'[m] = d
    <3>1. d # c /\ subs[d].writing # 0
      BY <1>6, <1>7, <2>1, <2>3
    <3>2. PICK m \in DOMAIN writers : writers[m] = d
      BY <3>1 DEF PublisherInv, LeaseInv
    <3>3. m # n
      BY <1>2, <3>1, <3>2
    <3> QED
      BY <2>2, <3>2, <3>3
  <2> QED
    BY <2>2, <2>3
<1>12. Distinct(history', full', work'.id)
  BY <1>1 DEF PublisherInv, LeaseInv
<1> QED
  BY <1>9, <1>10, <1>11, <1>12 DEF LeaseInv, RetainedBytes

\* publish, WaitReleased, CheckFull: nothing is leased.
LEMMA OtherLeases ==
  ASSUME PublisherInv, UNCHANGED <<history, full, payloads, retained, writers>>, work'.id = work.id,
         Writing(subs') = Writing(subs)
  PROVE  LeaseInv'
<1>1. Distinct(history', full', work'.id)
  BY DEF PublisherInv, LeaseInv
<1> QED
  BY <1>1, SameLeases

\* The leases over every step of the publisher.
LEMMA PublisherLeases == ASSUME PublisherInv, PublisherStep PROVE LeaseInv'
<1>1. work.id = 0 <=> work.pc # "install"
  BY DEF PublisherInv, WorkInv
<1>2. CASE Capture \/ EarlyWake
  <2>1. PICK next : Publish(next)
    BY <1>2 DEF Capture, EarlyWake
  <2>2. /\ UNCHANGED <<history, full, payloads, retained, writers, subs>> /\ work.id = 0 /\ work'.id = 0
    <3>1. needFull \in BOOLEAN
      BY DEF PublisherInv, TypeInv
    <3>2. work'.id = 0
      <4>1. CASE work' = [Idle EXCEPT !.pc = "check", !.need = needFull]
        BY <3>1, <4>1, IdleWork
      <4>2. ASSUME NEW kind, NEW size,
                   work' = [pc |-> "admit", need |-> needFull, kind |-> kind, frame |-> next, size |-> size, id |-> 0]
            PROVE  work'.id = 0
        BY <4>2
      <4> QED
        BY <2>1, <4>1, <4>2 DEF Publish
    <3> QED
      BY <1>1, <2>1, <3>2 DEF Publish
  <2> QED
    BY <2>2, OtherLeases
<1>3. CASE WaitReleased \/ PublishFails
  <2>1. UNCHANGED <<history, full, payloads, retained, writers>> /\ work.id = 0
    BY <1>1, <1>3 DEF WaitReleased, PublishFails
  <2>2. Writing(subs') = Writing(subs)
    BY <1>3, BreakOK DEF WaitReleased, PublishFails, PublisherInv, TypeInv
  <2>3. work'.id = 0
    <3>1. work \in Work
      BY DEF PublisherInv, TypeInv
    <3>2. work' = Idle \/ work' = [work EXCEPT !.pc = "admit"]
      BY <1>3 DEF WaitReleased, PublishFails
    <3>3. CASE work' = Idle
      BY <3>3, IdleWork
    <3>4. CASE work' = [work EXCEPT !.pc = "admit"]
      BY <2>1, <3>1, <3>4 DEF Work
    <3> QED
      BY <3>2, <3>3, <3>4
  <2> QED
    BY <2>1, <2>2, <2>3, OtherLeases
<1>4. CASE CheckFull
  <2>1. UNCHANGED <<history, full, payloads, retained, writers, subs>> /\ work.id = 0
    BY <1>1, <1>4 DEF CheckFull
  <2>2. work'.id = 0
    <3>1. work \in Work
      BY DEF PublisherInv, TypeInv
    <3>2. CASE work' = Idle
      BY <3>2, IdleWork
    <3>3. ASSUME NEW size, work' = [work EXCEPT !.pc = "admit", !.kind = "extra", !.frame = frame, !.size = size]
          PROVE  work'.id = 0
      <4> DEFINE u == [work EXCEPT !.pc = "admit", !.kind = "extra"]
      <4>1. u.id = 0 /\ DOMAIN u = DOMAIN work /\ DOMAIN work = {"pc", "need", "kind", "frame", "size", "id"}
        BY <2>1, <3>1 DEF Work
      <4>2. work' = [u EXCEPT !.frame = frame, !.size = size]
        BY <3>3
      <4> HIDE DEF u
      <4> QED
        BY <4>1, <4>2
    <3> QED
      BY <1>4, <3>2, <3>3 DEF CheckFull
  <2> QED
    BY <2>1, <2>2, OtherLeases
<1> QED
  BY <1>2, <1>3, <1>4, ForgetLeases, AdmitLeases, ShedLeases, ReplaceLeases, InstallLeases DEF PublisherStep

\* A handler step that does not begin or end a write.
LEMMA HandlerLeases == ASSUME PublisherInv, NEW c \in Conns, HandlerStep(c) PROVE LeaseInv'
<1>1. SubsOK(subs) /\ SubOK(subs[c]) /\ DOMAIN subs = Conns
  BY DEF PublisherInv, TypeInv, SubsOK
<1>2. CASE StartWrite(c) \/ FinishWrite(c)
  BY <1>2, StartWriteLeases, FinishWriteLeases
<1>3. CASE Register(c) \/ Accept(c) \/ Hello(c) \/ AskFull(c) \/ StartHeartbeat(c) \/ ReadControl(c) \/ Expire(c) \/ Leave(c)
  <2>1. UNCHANGED <<history, full, payloads, retained, writers, work>>
    BY <1>3 DEF Register, Accept, Hello, AskFull, StartHeartbeat, ReadControl, Expire, Leave, publisherVars
  <2>2. (\A d \in Conns : d # c => subs'[d] = subs[d]) /\ subs'[c].writing = subs[c].writing
    <3>1. CASE Register(c)
      BY <1>1, <3>1 DEF Register, SubOK, SubFields
    <3>2. CASE Accept(c)
      BY <1>1, <3>2 DEF Accept, SubOK, SubFields
    <3>3. CASE Hello(c)
      BY <1>1, <3>3 DEF Hello, SubOK, SubFields
    <3>4. CASE AskFull(c)
      BY <3>4 DEF AskFull
    <3>5. CASE StartHeartbeat(c)
      BY <1>1, <3>5 DEF StartHeartbeat, SubOK, SubFields
    <3>6. CASE ReadControl(c)
      <4>1. subs' = [subs EXCEPT ![c] = subs'[c]] /\ subs'[c].writing = subs[c].writing
        BY <3>6, ReadControlSub
      <4> QED
        BY <4>1, <1>1
    <3>7. CASE Expire(c)
      BY <1>1, <3>7 DEF Expire, SubOK, SubFields
    <3>8. CASE Leave(c)
      BY <1>1, <3>8 DEF Leave, NoSubscriber
    <3> QED
      BY <1>3, <3>1, <3>2, <3>3, <3>4, <3>5, <3>6, <3>7, <3>8
  <2>3. Writing(subs') = Writing(subs)
    BY <2>2 DEF Writing
  <2> QED
    BY <2>1, <2>3, OtherLeases
<1> QED
  BY <1>2, <1>3 DEF HandlerStep

\* The leases over every step.
LEMMA StepLeases == ASSUME PublisherInv, Next PROVE LeaseInv'
<1>1. SubsOK(subs)
  BY DEF PublisherInv, TypeInv
<1>2. CASE Advance \/ StopStreams
  <2>1. UNCHANGED <<history, full, payloads, retained, writers, work>>
    BY <1>2 DEF Advance, StopStreams, publisherVars
  <2>2. Writing(subs') = Writing(subs)
    BY <1>1, <1>2, BreakOK DEF Advance, StopStreams
  <2> QED
    BY <2>1, <2>2, OtherLeases
<1>3. ASSUME NEW c \in Conns, ClientStep(c) PROVE LeaseInv'
  <2>1. UNCHANGED <<history, full, payloads, retained, writers, work>>
    BY <1>3 DEF ClientStep, Receive, AnswerHeartbeat, LoseConnection, Disconnect, publisherVars
  <2>2. subs' = subs \/ subs' = Break({c})
    BY <1>3 DEF ClientStep, Receive, AnswerHeartbeat, LoseConnection, Disconnect
  <2> QED
    BY <1>1, <2>1, <2>2, BreakOK, OtherLeases
<1> QED
  BY <1>2, <1>3, PublisherLeases, HandlerLeases DEF Next

-----------------------------------------------------------------------------
(* The theorems.                                                           *)

\* Nothing is published at the start.
LEMMA PublisherInit == Init => PublisherInv
<1> SUFFICES ASSUME Init PROVE PublisherInv
  OBVIOUS
<1>1. /\ history = <<>> /\ full = 0 /\ work = Idle /\ needFull = FALSE /\ frame = None /\ stream = 0 /\ sequence = 0
      /\ streams = 0 /\ retained = 0 /\ writers = <<>> /\ payloads = [i \in Ids |-> None] /\ subs = [c \in Conns |-> NoSubscriber]
      /\ inbox = [c \in Conns |-> <<>>] /\ controls = [c \in Conns |-> <<>>]
  BY DEF Init
<1>2. MaxStream \in Nat /\ MaxCounter \in Nat /\ MaxMessage \in Nat
  BY IdsFinite
<1>3. TypeInv
  <2>1. source \in Frame
    <3>1. 1 \in 1 .. MaxSource /\ 1 \in 1 .. MaxVersion
      BY LimitAssumption
    <3> QED
      BY <3>1 DEF Init, Frame
  <2>2. SubOK(NoSubscriber)
    BY <1>2 DEF SubOK, SubFields, NoSubscriber, NoSent, Sent
  <2>3. SubsOK(subs)
    BY <1>1, <2>2 DEF SubsOK
  <2>4. work \in Work
    BY <1>1, IdleWork
  <2>5. history \in Seq(Ids) /\ full \in Ids \cup {0}
    BY <1>1
  <2>6. payloads \in [Ids -> Payload \cup {None}]
    BY <1>1
  <2>7. needFull \in BOOLEAN /\ frame \in Frame \cup {None} /\ stream \in 0 .. MaxStream /\ sequence \in 0 .. MaxCounter
        /\ streams \in 0 .. MaxStream
    <3>1. 0 \in 0 .. MaxStream /\ 0 \in 0 .. MaxCounter
      BY <1>2
    <3>2. needFull = FALSE
      BY <1>1
    <3> QED
      BY <1>1, <3>1, <3>2
  <2> QED
    BY <2>1, <2>3, <2>4, <2>5, <2>6, <2>7 DEF TypeInv
<1>4. WorkInv
  <2>1. work.pc = "idle" /\ work.id = 0
    BY <1>1, IdleWork
  <2>2. frame = None /\ stream = 0 /\ sequence = 0 /\ streams = 0
    BY <1>1
  <2> QED
    BY <2>1, <2>2 DEF WorkInv
<1>5. LeaseInv
  <2>1. Distinct(history, full, work.id) /\ Held(history, full, work.id) = {}
    BY <1>1, IdleWork, NoHistory
  <2>2. Leased(payloads, {}, Writing(subs))
    <3>1. \A i \in Ids : payloads[i] = None
      BY <1>1
    <3>2. \A c \in Conns : Writing(subs)[c] = 0
      BY <1>1 DEF Writing, NoSubscriber
    <3> QED
      BY <3>1, <3>2, IdsFinite DEF Leased
  <2>3. retained = Bytes(Live)
    <3>1. Live = {}
      BY <1>1 DEF Live
    <3> QED
      BY <1>1, <3>1, BytesTotal, TotalEmpty
  <2>4. retained <= RetainedBytes
    BY <1>1, IdsFinite DEF RetainedBytes
  <2>5. \A c \in Conns : subs[c].writing = 0
    BY <1>1 DEF NoSubscriber
  <2>6. writers \in Seq(Conns)
    BY <1>1
  <2> QED
    BY <2>1, <2>2, <2>3, <2>4, <2>5, <2>6 DEF LeaseInv
<1>6. SocketInv
  <2>1. <<>> \in Seq(Publication \cup Beat) /\ <<>> \in Seq(Ack \cup Beat)
    OBVIOUS
  <2> QED
    BY <1>1, <2>1 DEF SocketInv
<1> QED
  BY <1>3, <1>4, <1>5, <1>6 DEF PublisherInv

\* Stuttering.
LEMMA PublisherStutters == ASSUME PublisherInv, UNCHANGED vars PROVE PublisherInv'
<1>1. UNCHANGED <<source, stopped, needFull, released, subs, writers, frame, stream, sequence, history, full, retained,
                  payloads, streams, work, peers, inbox, controls, shown>>
  BY DEF vars, publisherVars, socketVars
<1>2. LeaseInv'
  BY <1>1, OtherLeases
<1>3. TypeInv' /\ WorkInv' /\ SocketInv'
  BY <1>1 DEF PublisherInv, TypeInv, WorkInv, SocketInv
<1> QED
  BY <1>2, <1>3 DEF PublisherInv

\* The publisher's types, its pending encoding and the leases of its payloads.
THEOREM PublisherInvariant == Spec => []PublisherInv
<1>1. PublisherInv /\ [Next]_vars => PublisherInv'
  BY StepTypes, StepLeases, SocketTypes, PublisherStutters DEF PublisherInv
<1> QED
  BY <1>1, PublisherInit, PTL DEF Spec

\* A payload is counted once for each of its holders.
LEMMA HoldersCounted ==
  ASSUME PublisherInv, NEW i \in Ids
  PROVE  Holders(i) = (IF i \in Held(history, full, work.id) THEN 1 ELSE 0) + Cardinality({c \in Conns : Writing(subs)[c] = i})
<1> DEFINE s == {n \in DOMAIN history : history[n] = i}
           t == {c \in Conns : subs[c].writing = i}
           v == {c \in Conns : Writing(subs)[c] = i}
<1>1. i # 0 /\ Distinct(history, full, work.id)
  BY IdsFinite DEF PublisherInv, LeaseInv
<1>2. Cardinality(s) = IF i \in ToSet(history) THEN 1 ELSE 0
  <2>1. CASE i \in ToSet(history)
    <3>1. PICK n \in DOMAIN history : history[n] = i
      BY <2>1 DEF ToSet
    <3>2. s = {n}
      BY <1>1, <3>1 DEF Distinct
    <3>3. Cardinality({n}) = 1
      BY FS_Singleton
    <3> QED
      BY <2>1, <3>2, <3>3
  <2>2. CASE i \notin ToSet(history)
    <3>1. s = {}
      BY <2>2 DEF ToSet
    <3> QED
      BY <2>2, <3>1, FS_EmptySet
  <2> QED
    BY <2>1, <2>2
<1>3. t = v
  BY DEF Writing
<1>4. Cardinality(t) \in Nat
  <2>1. Cardinality(v) \in Nat
    BY WritersCount
  <2> QED
    BY <1>3, <2>1
<1>5. /\ i \in ToSet(history) => full # i /\ work.id # i
      /\ full = i => work.id # i
  BY <1>1 DEF Distinct, ToSet
<1>6. i \in Held(history, full, work.id) <=> i \in ToSet(history) \/ full = i \/ work.id = i
  BY <1>1 DEF Held
<1>7. Holders(i) = Cardinality(s) + (IF full = i THEN 1 ELSE 0) + (IF work.id = i THEN 1 ELSE 0) + Cardinality(t)
  BY DEF Holders
<1> HIDE DEF s, t
<1>8. Holders(i) = (IF i \in Held(history, full, work.id) THEN 1 ELSE 0) + Cardinality(t)
  BY <1>2, <1>4, <1>5, <1>6, <1>7
<1> QED
  BY <1>3, <1>8

\* release and admitEncoded: every payload is counted once per holder, the
\* retained bytes are those of the live payloads and stay within the budget.
THEOREM RetentionIsAccounted == Spec => []RetentionAccounted
<1>1. PublisherInv => RetentionAccounted
  <2> SUFFICES ASSUME PublisherInv PROVE RetentionAccounted
    OBVIOUS
  <2>1. retained = Bytes(Live) /\ retained <= RetainedBytes
    BY DEF PublisherInv, LeaseInv
  <2>2. ASSUME NEW i \in Live PROVE payloads[i].refs = Holders(i)
    <3>1. i \in Ids /\ payloads[i] # None
      BY DEF Live
    <3>2. payloads[i].refs = (IF i \in Held(history, full, work.id) THEN 1 ELSE 0) + Cardinality({c \in Conns : Writing(subs)[c] = i})
      BY <3>1 DEF PublisherInv, LeaseInv, Leased
    <3> QED
      BY <3>1, <3>2, HoldersCounted
  <2> QED
    BY <2>1, <2>2 DEF RetentionAccounted
<1> QED
  BY <1>1, PublisherInvariant, PTL

\* admitEncoded: an encoding that does not fit after the publisher gave up
\* all it owns has a write to cancel.
THEOREM PressureHasAnOwner == Spec => []PressureHasOwner
<1>1. PublisherInv => PressureHasOwner
  <2> SUFFICES ASSUME PublisherInv, work.pc = "admit", ~Admissible(work.size), writers = <<>> PROVE FALSE
    BY DEF PressureHasOwner
  <2> DEFINE after == Release(Owned)
             w == Writing(subs)
             held == Held(history, full, work.id)
  <2>1. /\ work.id = 0 /\ payloads \in [Ids -> Payload \cup {None}] /\ work.size \in 1 .. MaxMessage
        /\ Leased(payloads, held, w)
    BY DEF PublisherInv, TypeInv, WorkInv, PendingOK, LeaseInv
  <2>2. held = Owned
    BY <2>1 DEF Held, Owned, CachedFull
  <2>3. Owned \in SUBSET Ids /\ Owned \subseteq held /\ Owned \in SUBSET LiveOf(payloads)
    BY <2>2, OwnedHeld
  <2>4. Leased(after, held \ Owned, w) /\ after \in [Ids -> Payload \cup {None}]
    <3> HIDE DEF held, w
    <3> QED
      BY <2>1, <2>3, ReleaseLeased, ReleaseContents
  <2>5. \A c \in Conns : w[c] = 0
    <3>1. DOMAIN writers = {}
      BY NoHistory
    <3> QED
      BY <3>1 DEF PublisherInv, LeaseInv, Writing
  <2> HIDE DEF after, w, held
  <2>6. LiveOf(after) = {}
    <3> SUFFICES ASSUME NEW i \in Ids, after[i] # None PROVE FALSE
      BY DEF LiveOf
    <3>1. {c \in Conns : w[c] = i} = {}
      BY <2>5, IdsFinite
    <3>2. after[i].refs = 0
      BY <2>2, <2>4, <3>1, FS_EmptySet DEF Leased
    <3>3. after[i].refs \in Nat \ {0}
      BY <2>4 DEF Payload
    <3> QED
      BY <3>2, <3>3
  <2>7. RetainedWithout(Owned) = 0
    <3>1. RetainedWithout(Owned) = Total(after, LiveOf(after))
      BY <2>1, <2>3, ReleaseBytes DEF after, PublisherInv, LeaseInv
    <3> QED
      BY <2>6, <3>1, TotalEmpty
  <2>8. Dropped(work.size) = Owned
    BY AllDropped
  <2> QED
    BY <2>1, <2>7, <2>8, RetainedLimit DEF Admissible
<1> QED
  BY <1>1, PublisherInvariant, PTL

-----------------------------------------------------------------------------
(* The invariant.                                                          *)

\* The n-th of h deltas of the history.
DeltaOK(p, n, h, st, sq, f) ==
  /\ p.kind = "delta" /\ p.stream = st /\ p.sequence = (sq - h) + n /\ p.base + 1 = p.sequence
  /\ p.from \in Frame /\ SameChain(p.from, p.frame) /\ SameChain(p.frame, f)
  /\ p.from.version <= p.frame.version /\ p.frame.version <= f.version

\* The history ends with the current frame, each delta starts from the frame
\* before it, and the cached full frame is the current one.
HistoryOK(ps, h, fu, st, sq, f) ==
  /\ sq = 0 => h = <<>> /\ fu = 0
  /\ \A n \in DOMAIN h : DeltaOK(ps[h[n]], n, Len(h), st, sq, f)
  /\ \A n \in DOMAIN h : n > 1 => ps[h[n]].from = ps[h[n - 1]].frame
  /\ h # <<>> => ps[h[Len(h)]].frame = f
  /\ fu # 0 => ps[fu].kind = "full" /\ ps[fu].stream = st /\ ps[fu].sequence = sq /\ ps[fu].frame = f

\* The pending payload is the encoding of the pending frame.
PendingPayload(p, w, f, st, sq, n) ==
  /\ p.kind = (IF w.kind = "delta" THEN "delta" ELSE "full")
  /\ p.stream = (IF w.kind = "reset" THEN n ELSE st)
  /\ p.sequence = (IF w.kind = "reset" THEN 1 ELSE IF w.kind = "extra" THEN sq ELSE sq + 1)
  /\ w.kind = "delta" => p.base = sq /\ p.from = f
  /\ p.frame = w.frame

\* The publisher's frames get newer.
Newest == IF frame # None THEN frame.version ELSE IF work.frame # None THEN work.frame.version ELSE source.version
VersionsOK ==
  /\ work.pc \in {"admit", "wait", "install"} <=> work.frame # None
  /\ frame # None => frame.version <= source.version
  /\ work.frame # None => work.frame.version <= source.version
  /\ (frame # None /\ work.frame # None) => frame.version <= work.frame.version

ChainInv ==
  /\ HistoryOK(payloads, history, full, stream, sequence, frame)
  /\ work.pc = "install" => PendingPayload(payloads[work.id], work, frame, stream, sequence, streams)
  /\ VersionsOK

\* Where the client is when the k-th message arrives.
After(peer, in, k) == IF k > 1 /\ ~IsBeat(in[k - 1]) THEN in[k - 1] ELSE peer
Latest(in, sh, k) == IF k > 1 /\ ~IsBeat(in[k - 1]) THEN in[k - 1].frame ELSE sh

\* The message follows a place.
Follows(e, at, latest) ==
  /\ e.kind = "delta" => /\ at.stream = e.stream /\ at.sequence = e.base /\ e.sequence = at.sequence + 1
                         /\ at.frame = e.from /\ SameChain(e.from, e.frame)
  /\ latest # None => latest.version <= e.frame.version

\* One connection seen by its client: the messages on the way can be applied
\* one after the other.
Linked(peer, in, sh, newest) ==
  /\ \A k \in DOMAIN in : k > 1 => ~IsBeat(in[k])
  /\ \A k \in DOMAIN in : ~IsBeat(in[k]) =>
       /\ Follows(in[k], After(peer, in, k), Latest(in, sh, k))
       /\ in[k].frame.contract = peer.contract
       /\ in[k].frame.version <= newest
  /\ sh # None => sh.version <= newest
  /\ ~peer.on => in = <<>> /\ peer = NoPeer
  /\ (peer.stream = 0 <=> peer.sequence = 0) /\ (peer.sequence # 0 => peer.frame = sh /\ sh # None)

\* The n-th answer that the server waits for.
Waits(s) == IF s.heartbeat # 0 THEN 1 ELSE 0
Expected(s, m, n) ==
  IF n <= Waits(s) THEN IsBeat(m) /\ m.token = s.heartbeat
  ELSE /\ ~IsBeat(m) /\ n - Waits(s) \in DOMAIN s.sent
       /\ m.stream = s.sent[n - Waits(s)].stream /\ m.sequence = s.sent[n - Waits(s)].sequence

Earlier(a, b) == a.stream < b.stream \/ (a.stream = b.stream /\ a.sequence < b.sequence)

\* What was sent is in order, after what was acknowledged.
Ordered(s) ==
  /\ \A j, k \in DOMAIN s.sent : j < k => Earlier(s.sent[j], s.sent[k])
  /\ \A k \in DOMAIN s.sent : Earlier(s.lastACK, s.sent[k])
  /\ \A k \in DOMAIN s.sent : s.sent[k].stream < s.stream \/ (s.sent[k].stream = s.stream /\ s.sent[k].sequence <= s.sequence)
  /\ s.lastACK.stream < s.stream \/ (s.lastACK.stream = s.stream /\ s.lastACK.sequence <= s.sequence)

\* One connection seen by its handler: every answer on the way is expected.
Piped(s, peer, in, ctl) ==
  /\ s.pc # "ready" =>
       /\ ctl = <<>> /\ s.stream = 0 /\ s.sequence = 0 /\ s.sent = <<>> /\ s.lastACK = NoSent /\ s.heartbeat = 0 /\ s.writing = 0
  /\ s.pc \in {"accepting", "hello"} => in = <<>> /\ peer.stream = 0 /\ peer.sequence = 0
  /\ s.pc = "accepting" => ~peer.on
  /\ Ordered(s)
  /\ \A n \in DOMAIN ctl : Expected(s, ctl[n], n)
  /\ (s.pc \in {"hello", "ready"} /\ ~s.broken) => peer.on
  /\ (s.pc = "ready" /\ ~s.broken) =>
       /\ s.contract = peer.contract
       /\ Len(ctl) + Len(in) = Waits(s) + Len(s.sent)
       /\ \A n \in DOMAIN in : Expected(s, in[n], Len(ctl) + n)
       /\ s.stream = After(peer, in, Len(in) + 1).stream /\ s.sequence = After(peer, in, Len(in) + 1).sequence

\* The place of a handler in the published frames.
Placed(s, peer, in, ps, h, st, sq, f) ==
  /\ s.stream <= st
  /\ s.stream = st => s.sequence <= sq
  /\ (s.pc = "ready" /\ ~s.broken /\ s.stream = st /\ st # 0) =>
       LET end == After(peer, in, Len(in) + 1)
       IN  /\ s.sequence = sq => end.frame = f
           /\ \A n \in DOMAIN h : ps[h[n]].sequence = s.sequence + 1 => ps[h[n]].from = end.frame

ConnInv ==
  /\ peers \in [Conns -> Peer] /\ shown \in [Conns -> Frame \cup {None}]
  /\ \A c \in Conns :
       /\ Linked(peers[c], inbox[c], shown[c], Newest)
       /\ Piped(subs[c], peers[c], inbox[c], controls[c])
       /\ Placed(subs[c], peers[c], inbox[c], payloads, history, stream, sequence, frame)

Inv == PublisherInv /\ ChainInv /\ ConnInv

-----------------------------------------------------------------------------
(* Payloads keep their contents while anyone holds them.                   *)

SameContents(p, q) ==
  /\ q.kind = p.kind /\ q.stream = p.stream /\ q.sequence = p.sequence /\ q.base = p.base
  /\ q.from = p.from /\ q.frame = p.frame

\* A release changes nothing but the references.
LEMMA ReleaseSame ==
  ASSUME PublisherInv, NEW gone \in SUBSET LiveOf(payloads), NEW i \in Ids, Release(gone)[i] # None
  PROVE  payloads[i] # None /\ SameContents(payloads[i], Release(gone)[i])
<1>1. payloads \in [Ids -> Payload \cup {None}]
  BY DEF PublisherInv, TypeInv
<1>2. CASE i \notin gone
  <2>1. Release(gone)[i] = payloads[i]
    BY <1>2 DEF Release
  <2> QED
    BY <2>1 DEF SameContents
<1>3. CASE i \in gone
  <2>1. payloads[i] \in Payload /\ payloads[i] # None
    BY <1>1, <1>3 DEF LiveOf
  <2>2. Release(gone)[i] = [payloads[i] EXCEPT !.refs = @ - 1]
    BY <1>1, <1>3, ReleaseContents
  <2> DEFINE p == payloads[i]
             q == [p EXCEPT !.refs = @ - 1]
  <2>3. q.kind = p.kind /\ q.stream = p.stream /\ q.sequence = p.sequence /\ q.base = p.base /\ q.from = p.from /\ q.frame = p.frame
    BY <2>1 DEF Payload
  <2>4. SameContents(p, q)
    BY <2>3 DEF SameContents
  <2> QED
    BY <2>1, <2>2, <2>4
<1> QED
  BY <1>2, <1>3

\* The payloads over every step.
LEMMA StepPayloads ==
  ASSUME PublisherInv, Next, NEW i \in Ids, payloads'[i] # None
  PROVE  \/ Admit /\ work'.id = i /\ payloads'[i] = Encoding
         \/ payloads[i] # None /\ SameContents(payloads[i], payloads'[i])
<1>1. payloads \in [Ids -> Payload \cup {None}]
  BY DEF PublisherInv, TypeInv
<1>2. CASE payloads' = payloads
  BY <1>2 DEF SameContents
<1>3. ASSUME NEW gone \in SUBSET LiveOf(payloads), payloads' = Release(gone)
      PROVE  payloads[i] # None /\ SameContents(payloads[i], payloads'[i])
  BY <1>3, ReleaseSame
<1>4. CASE Forget \/ EndRun \/ InstallFull
  <2>1. payloads' = Release(Owned) /\ Owned \in SUBSET LiveOf(payloads)
    BY <1>4, OwnedHeld DEF Forget, EndRun, InstallFull
  <2> QED
    BY <1>3, <2>1
<1>5. CASE InstallDelta
  <2>1. payloads' = Release(CachedFull) /\ CachedFull \in SUBSET LiveOf(payloads)
    BY <1>5, OwnedHeld DEF InstallDelta
  <2> QED
    BY <1>3, <2>1
<1>6. Dropped(work.size) \in SUBSET LiveOf(payloads)
  <2>1. history \in Seq(Ids)
    BY DEF PublisherInv, TypeInv
  <2> QED
    BY <2>1, DroppedOwned, OwnedHeld
<1>7. CASE Shed
  BY <1>3, <1>6, <1>7 DEF Shed
<1>8. CASE ReplaceLarge
  <2>1. payloads' = Release({work.id}) /\ work.id # 0
    BY <1>8 DEF ReplaceLarge, PublisherInv, WorkInv
  <2>2. {work.id} \in SUBSET LiveOf(payloads)
    BY <2>1, OwnedHeld
  <2> QED
    BY <1>3, <2>1, <2>2
<1>9. CASE Admit
  <2> DEFINE after == Release(Dropped(work.size))
             id == Min({j \in Ids : after[j] = None})
  <2>1. id \in Ids
    BY <1>9, FreeId DEF Admit
  <2>2. payloads' = [after EXCEPT ![id] = Encoding] /\ work' = [work EXCEPT !.pc = "install", !.id = id]
    BY <1>9 DEF Admit
  <2>3. DOMAIN after = Ids
    BY DEF Release
  <2>4. work'.id = id
    <3> HIDE DEF id
    <3> QED
      BY <2>2 DEF PublisherInv, TypeInv, Work
  <2> HIDE DEF id, after
  <2>5. CASE i = id
    BY <1>9, <2>1, <2>2, <2>3, <2>4, <2>5
  <2>6. CASE i # id
    <3>1. after[i] # None /\ payloads'[i] = after[i]
      BY <2>2, <2>3, <2>6
    <3> QED
      BY <1>6, <3>1, ReleaseSame DEF after
  <2> QED
    BY <2>5, <2>6
<1>10. ASSUME NEW c \in Conns, StartWrite(c) PROVE payloads[i] # None /\ SameContents(payloads[i], payloads'[i])
  <2>1. PICK j \in NextPayload(c) : payloads' = [payloads EXCEPT ![j].refs = @ + 1]
    BY <1>10 DEF StartWrite
  <2>2. j \in Ids /\ payloads[j] \in Payload /\ payloads[j] # None
    BY ChosenPayload
  <2>3. CASE i = j
    <3>1. payloads'[i] = [payloads[i] EXCEPT !.refs = payloads[i].refs + 1]
      BY <1>1, <2>1, <2>3
    <3> QED
      BY <2>2, <2>3, <3>1 DEF SameContents, Payload
  <2>4. CASE i # j
    BY <1>1, <2>1, <2>4 DEF SameContents
  <2> QED
    BY <2>3, <2>4
<1>11. ASSUME NEW c \in Conns, FinishWrite(c) PROVE payloads[i] # None /\ SameContents(payloads[i], payloads'[i])
  <2>1. payloads' = Release({subs[c].writing}) /\ {subs[c].writing} \in SUBSET LiveOf(payloads)
    BY <1>11, WritingLive DEF FinishWrite
  <2> QED
    BY <1>3, <2>1
<1>12. CASE Advance \/ StopStreams
  BY <1>2, <1>12 DEF Advance, StopStreams, publisherVars
<1>13. CASE Capture \/ EarlyWake \/ WaitReleased \/ PublishFails \/ CheckFull \/ InstallExtra
  BY <1>2, <1>13 DEF Capture, EarlyWake, Publish, WaitReleased, PublishFails, CheckFull, InstallExtra
<1>14. ASSUME NEW c \in Conns, HandlerStep(c) \/ ClientStep(c), ~StartWrite(c), ~FinishWrite(c)
       PROVE  payloads' = payloads
  BY <1>14 DEF HandlerStep, ClientStep, Register, Accept, Hello, AskFull, StartHeartbeat, ReadControl, Expire, Leave,
     Receive, AnswerHeartbeat, LoseConnection, Disconnect, publisherVars
<1> QED
  BY <1>2, <1>4, <1>5, <1>7, <1>8, <1>9, <1>10, <1>11, <1>12, <1>13, <1>14 DEF Next, PublisherStep

\* What the publisher holds after a step it held before, but for an admission.
LEMMA HeldContents ==
  ASSUME PublisherInv, Next, ~Admit, PublisherInv', NEW i \in Held(history', full', work'.id)
  PROVE  i \in Ids /\ SameContents(payloads[i], payloads'[i])
<1>1. i \in Ids
  BY DEF Held, ToSet, PublisherInv, TypeInv, Work
<1>2. payloads'[i] # None
  BY <1>1 DEF PublisherInv, LeaseInv, Leased
<1> QED
  BY <1>1, <1>2, StepPayloads

-----------------------------------------------------------------------------
(* The chain of published frames.                                          *)

\* Histories with the same contents.
LEMMA HistorySame ==
  ASSUME NEW ps, NEW qs, NEW h, NEW fu, NEW st, NEW sq, NEW f, HistoryOK(ps, h, fu, st, sq, f),
         \A n \in DOMAIN h : SameContents(ps[h[n]], qs[h[n]]), fu # 0 => SameContents(ps[fu], qs[fu]),
         h # <<>> => Len(h) \in DOMAIN h,
         \A n \in DOMAIN h : n > 1 => n - 1 \in DOMAIN h
  PROVE  HistoryOK(qs, h, fu, st, sq, f)
BY DEF HistoryOK, DeltaOK, SameContents

\* Indexes of a sequence.
LEMMA Indexes ==
  ASSUME NEW S, NEW h \in Seq(S)
  PROVE  /\ h # <<>> => Len(h) \in DOMAIN h
         /\ \A n \in DOMAIN h : n > 1 => n - 1 \in DOMAIN h
         /\ \A n \in DOMAIN h : n \in Nat /\ n >= 1 /\ n <= Len(h)
OBVIOUS

\* The history and the pending payload stay.
LEMMA SameChainStep ==
  ASSUME PublisherInv, ChainInv, Next, ~Admit, PublisherInv', UNCHANGED <<history, full, stream, sequence, frame>>,
         work'.pc = "install" => UNCHANGED <<work, streams>>
  PROVE  /\ HistoryOK(payloads', history', full', stream', sequence', frame')
         /\ work'.pc = "install" => PendingPayload(payloads'[work'.id], work', frame', stream', sequence', streams')
<1>1. \A i \in Held(history', full', work'.id) : SameContents(payloads[i], payloads'[i])
  BY HeldContents
<1>2. \A n \in DOMAIN history : SameContents(payloads[history[n]], payloads'[history[n]])
  BY <1>1 DEF Held, ToSet
<1>3. full # 0 => SameContents(payloads[full], payloads'[full])
  BY <1>1 DEF Held
<1>4. history \in Seq(Ids)
  BY DEF PublisherInv, TypeInv
<1>5. HistoryOK(payloads', history, full, stream, sequence, frame)
  BY <1>2, <1>3, <1>4, Indexes, HistorySame DEF ChainInv
<1>6. work'.pc = "install" => PendingPayload(payloads'[work'.id], work', frame', stream', sequence', streams')
  <2> SUFFICES ASSUME work'.pc = "install"
               PROVE  PendingPayload(payloads'[work.id], work, frame, stream, sequence, streams)
    OBVIOUS
  <2>1. work.id # 0 /\ work' = work /\ work.pc = "install"
    BY DEF PublisherInv, WorkInv
  <2>2. SameContents(payloads[work.id], payloads'[work.id])
    BY <1>1, <2>1 DEF Held
  <2>3. PendingPayload(payloads[work.id], work, frame, stream, sequence, streams)
    BY <2>1 DEF ChainInv
  <2> QED
    BY <2>2, <2>3 DEF PendingPayload, SameContents
<1> QED
  BY <1>5, <1>6

\* Forget, EndRun, Shed: nothing is left.
LEMMA EmptyHistory ==
  ASSUME NEW ps, NEW st, NEW sq, NEW f
  PROVE  HistoryOK(ps, <<>>, 0, st, sq, f)
BY DEF HistoryOK

\* The history after an admission.
LEMMA AdmitChain ==
  ASSUME PublisherInv, ChainInv, Admit, PublisherInv', Next
  PROVE  /\ HistoryOK(payloads', history', full', stream', sequence', frame')
         /\ PendingPayload(payloads'[work'.id], work', frame', stream', sequence', streams')
<1> DEFINE n == Evictions(work.size)
           L == Len(history)
<1>1. /\ history' = Kept(n) /\ full' \in {0, full} /\ UNCHANGED <<stream, sequence, frame, streams>>
      /\ history \in Seq(Ids) /\ history' \in Seq(Ids) /\ work.pc = "admit"
  BY DEF Admit, PublisherInv, TypeInv
<1>2. n \in 0 .. L
  BY <1>1, EvictionsFound
<1>3. /\ Len(history') = L - n
      /\ \A k \in 1 .. (L - n) : k + n \in DOMAIN history /\ history'[k] = history[k + n]
  <2> HIDE DEF n
  <2> QED
    BY <1>1, <1>2, HistoryParts
<1> HIDE DEF n
<1>4. L \in Nat /\ n \in Nat /\ n <= L /\ DOMAIN history' = 1 .. (L - n) /\ DOMAIN history = 1 .. L
  BY <1>1, <1>2, <1>3
<1>5. /\ work'.pc = "install" /\ work'.id \in Ids /\ work'.id # 0
      /\ work'.kind = work.kind /\ work'.frame = work.frame
  <2>1. work'.pc = "install" /\ work'.kind = work.kind /\ work'.frame = work.frame
    BY DEF Admit, PublisherInv, TypeInv, Work
  <2> QED
    BY <2>1 DEF PublisherInv, TypeInv, WorkInv, Work
<1>6. \A k \in DOMAIN history' : history'[k] \in Ids /\ history'[k] # work'.id /\ payloads'[history'[k]] # None
  <2>1. \A k \in DOMAIN history' : history'[k] \in Ids
    BY <1>1
  <2> QED
    BY <2>1, ZenonT(30) DEF PublisherInv, LeaseInv, Leased, Held, ToSet, Distinct
<1>7. full' # 0 => full' \in Ids /\ full' # work'.id /\ payloads'[full'] # None
  BY DEF PublisherInv, TypeInv, LeaseInv, Leased, Held, ToSet, Distinct
<1>8. \A k \in DOMAIN history' : SameContents(payloads[history'[k]], payloads'[history'[k]])
  BY <1>6, StepPayloads
<1>9. full' # 0 => SameContents(payloads[full'], payloads'[full'])
  BY <1>7, StepPayloads
<1>10. sequence \in Nat
  BY IdsFinite DEF PublisherInv, TypeInv
<1>11. HistoryOK(payloads, history', full', stream, sequence, frame)
  <2>0. HistoryOK(payloads, history, full, stream, sequence, frame)
    BY DEF ChainInv
  <2>1. ASSUME NEW k \in DOMAIN history'
        PROVE  /\ DeltaOK(payloads[history'[k]], k, Len(history'), stream, sequence, frame)
               /\ k > 1 => payloads[history'[k]].from = payloads[history'[k - 1]].frame
    <3>1. k \in 1 .. (L - n) /\ k + n \in DOMAIN history /\ history'[k] = history[k + n] /\ k \in Nat
      BY <1>3, <1>4
    <3>2. DeltaOK(payloads[history[k + n]], k + n, L, stream, sequence, frame)
      BY <2>0, <3>1 DEF HistoryOK
    <3>3. (sequence - L) + (k + n) = (sequence - (L - n)) + k
      BY <1>4, <1>10, <3>1
    <3>4. DeltaOK(payloads[history'[k]], k, Len(history'), stream, sequence, frame)
      BY <1>3, <3>1, <3>2, <3>3 DEF DeltaOK
    <3>5. ASSUME k > 1 PROVE payloads[history'[k]].from = payloads[history'[k - 1]].frame
      <4>1. k - 1 \in 1 .. (L - n) /\ (k - 1) + n = (k + n) - 1 /\ k + n > 1
        BY <1>4, <3>1, <3>5
      <4>2. history'[k - 1] = history[(k + n) - 1]
        BY <1>3, <4>1
      <4> QED
        BY <2>0, <3>1, <4>1, <4>2 DEF HistoryOK
    <3> QED
      BY <3>4, <3>5
  <2>2. sequence = 0 => history' = <<>> /\ full' = 0
    <3> SUFFICES ASSUME sequence = 0 PROVE history' = <<>> /\ full' = 0
      OBVIOUS
    <3>1. history = <<>> /\ full = 0
      BY <2>0 DEF HistoryOK
    <3>2. L = 0
      BY <3>1
    <3> QED
      BY <1>1, <1>3, <1>4, <3>1, <3>2
  <2>3. history' # <<>> => payloads[history'[Len(history')]].frame = frame
    <3> SUFFICES ASSUME history' # <<>> PROVE payloads[history'[Len(history')]].frame = frame
      OBVIOUS
    <3>1. Len(history') \in 1 .. (L - n) /\ Len(history') + n = L /\ history # <<>>
      BY <1>1, <1>3, <1>4
    <3>2. history'[Len(history')] = history[L]
      BY <1>3, <3>1
    <3> QED
      BY <2>0, <3>1, <3>2 DEF HistoryOK
  <2>4. full' # 0 => full' = full
    BY <1>1
  <2> HIDE DEF L
  <2> QED
    BY <2>0, <2>1, <2>2, <2>3, <2>4 DEF HistoryOK
<1>12. HistoryOK(payloads', history', full', stream', sequence', frame')
  BY <1>1, <1>8, <1>9, <1>11, Indexes, HistorySame
<1>13. payloads'[work'.id] = Encoding
  <2>1. payloads'[work'.id] # None
    BY <1>5 DEF PublisherInv, LeaseInv, Leased, Held
  <2> DEFINE after == Release(Dropped(work.size))
             id == Min({j \in Ids : after[j] = None})
  <2>2. payloads' = [after EXCEPT ![id] = Encoding] /\ work' = [work EXCEPT !.pc = "install", !.id = id]
    BY DEF Admit
  <2>3. DOMAIN after = Ids /\ id \in Ids
    BY <1>1, FreeId DEF Release
  <2> HIDE DEF id, after
  <2>4. work'.id = id
    BY <2>2 DEF PublisherInv, TypeInv, Work
  <2> QED
    BY <2>2, <2>3, <2>4
<1>14. PendingPayload(Encoding, work', frame, stream, sequence, streams)
  <2>1. work.kind \in Kinds
    BY DEF PublisherInv, TypeInv, Work
  <2> QED
    BY <1>5, <2>1 DEF PendingPayload, Encoding, NextStream, NextSequence, Kinds
<1> QED
  BY <1>1, <1>12, <1>13, <1>14

\* The history is live.
LEMMA HistoryLive ==
  ASSUME PublisherInv, NEW n \in DOMAIN history
  PROVE  /\ history[n] \in Ids /\ history[n] \in Held(history, full, work.id) /\ history[n] \in ToSet(history)
         /\ payloads[history[n]] \in Payload
<1>1. history[n] \in Ids /\ history[n] \in ToSet(history)
  BY DEF PublisherInv, TypeInv, ToSet
<1>2. history[n] \in Held(history, full, work.id)
  BY <1>1 DEF Held
<1>3. history[n] \in LiveOf(payloads)
  BY <1>2, OwnedHeld
<1> QED
  BY <1>1, <1>2, <1>3 DEF LiveOf, PublisherInv, TypeInv

\* The install of a delta puts one more link at the end.
LEMMA DeltaChain ==
  ASSUME PublisherInv, ChainInv, InstallDelta, PublisherInv', Next
  PROVE  HistoryOK(payloads', history', full', stream', sequence', frame')
<1> DEFINE L == Len(history)
           id == work.id
<1>1. /\ history' = Append(history, id) /\ full' = 0 /\ stream' = stream /\ sequence' = sequence + 1 /\ frame' = work.frame
      /\ work.pc = "install" /\ work.kind = "delta" /\ ~Admit
  BY DEF InstallDelta, NextSequence, Admit
<1>2. /\ history \in Seq(Ids) /\ id \in Ids /\ work.frame \in Frame /\ frame \in Frame /\ sequence \in Nat /\ sequence # 0
      /\ SameChain(frame, work.frame) /\ frame.version <= work.frame.version /\ frame.version \in Nat /\ work.frame.version \in Nat
  <2>1. history \in Seq(Ids) /\ id \in Ids /\ sequence \in Nat
    BY <1>1, IdsFinite DEF PublisherInv, TypeInv, WorkInv, Work
  <2>2. work.frame \in Frame /\ sequence # 0 /\ SameChain(frame, work.frame)
    BY <1>1 DEF PublisherInv, WorkInv, PendingOK
  <2>3. frame \in Frame /\ frame # None /\ work.frame # None
    BY <2>2, NoneAssumption DEF PublisherInv, TypeInv, WorkInv
  <2>4. frame.version <= work.frame.version
    BY <2>3 DEF ChainInv, VersionsOK
  <2>5. MaxVersion \in Nat
    BY LimitAssumption
  <2> QED
    BY <2>1, <2>2, <2>3, <2>4, <2>5 DEF Frame
<1>3. /\ DOMAIN history' = 1 .. (L + 1) /\ DOMAIN history = 1 .. L /\ L \in Nat /\ Len(history') = L + 1
      /\ \A n \in 1 .. L : history'[n] = history[n]
      /\ history'[L + 1] = id
  BY <1>1, <1>2
<1>4. PendingPayload(payloads[id], work, frame, stream, sequence, streams) /\ HistoryOK(payloads, history, full, stream, sequence, frame)
  BY <1>1 DEF ChainInv
<1>5. /\ payloads[id].kind = "delta" /\ payloads[id].stream = stream /\ payloads[id].sequence = sequence + 1
      /\ payloads[id].base = sequence /\ payloads[id].from = frame /\ payloads[id].frame = work.frame
  BY <1>1, <1>4 DEF PendingPayload
<1>6. DeltaOK(payloads[id], L + 1, L + 1, stream, sequence + 1, work.frame)
  <2>1. (sequence + 1 - (L + 1)) + (L + 1) = sequence + 1
    BY <1>2, <1>3
  <2>2. SameChain(work.frame, work.frame)
    BY DEF SameChain
  <2> QED
    BY <1>2, <1>5, <2>1, <2>2 DEF DeltaOK
<1>7. ASSUME NEW n \in 1 .. L
      PROVE  DeltaOK(payloads[history[n]], n, L + 1, stream, sequence + 1, work.frame)
  <2>1. DeltaOK(payloads[history[n]], n, L, stream, sequence, frame)
    BY <1>3, <1>4 DEF HistoryOK
  <2>2. (sequence + 1 - (L + 1)) + n = (sequence - L) + n
    BY <1>2, <1>3
  <2>3. payloads[history[n]].frame.version \in Nat
    <3>2. payloads[history[n]] \in Payload
      BY <1>3, HistoryLive
    <3>3. MaxVersion \in Nat
      BY LimitAssumption
    <3> QED
      BY <3>2, <3>3 DEF Payload, Frame
  <2>4. SameChain(payloads[history[n]].frame, work.frame)
    BY <1>2, <2>1 DEF DeltaOK, SameChain
  <2>5. payloads[history[n]].frame.version <= work.frame.version
    BY <1>2, <2>1, <2>3 DEF DeltaOK
  <2> DEFINE p == payloads[history[n]]
  <2>6. p.sequence = (sequence - L) + n
    BY <2>1 DEF DeltaOK
  <2>7. p.sequence = (sequence + 1 - (L + 1)) + n
    BY <2>2, <2>6
  <2>8. p.kind = "delta" /\ p.stream = stream /\ p.base + 1 = p.sequence /\ p.from \in Frame /\ SameChain(p.from, p.frame)
        /\ p.from.version <= p.frame.version
    BY <2>1 DEF DeltaOK
  <2>9. SameChain(p.frame, work.frame) /\ p.frame.version <= work.frame.version
    BY <2>4, <2>5
  <2>0. L \in Nat /\ n \in Nat /\ sequence \in Nat
    BY <1>2, <1>3
  <2> HIDE DEF p, L
  <2>10. DeltaOK(p, n, L + 1, stream, sequence + 1, work.frame)
    <3> DEFINE f == work.frame
               sq == sequence + 1
    <3>1. p.sequence = (sq - (L + 1)) + n /\ SameChain(p.frame, f) /\ p.frame.version <= f.version
      BY <2>0, <2>7, <2>9
    <3> HIDE DEF f, sq
    <3>2. DeltaOK(p, n, L + 1, stream, sq, f)
      BY <2>8, <3>1 DEF DeltaOK
    <3> QED
      BY <3>2 DEF f, sq
  <2> QED
    BY <2>10 DEF p
<1>8. HistoryOK(payloads, history', 0, stream, sequence + 1, work.frame)
  <2>1. \A n \in DOMAIN history' : DeltaOK(payloads[history'[n]], n, Len(history'), stream, sequence + 1, work.frame)
    <3> HIDE DEF L, id
    <3>1. ASSUME NEW n \in DOMAIN history' PROVE n \in 1 .. L \/ n = L + 1
      BY <1>3
    <3> QED
      BY <1>3, <1>6, <1>7, <3>1
  <2>2. ASSUME NEW n \in DOMAIN history', n > 1
        PROVE  payloads[history'[n]].from = payloads[history'[n - 1]].frame
    <3>1. CASE n = L + 1
      <4>1. n - 1 = L /\ L \in 1 .. L /\ history # <<>>
        BY <1>2, <1>3, <2>2, <3>1
      <4>2. history'[n - 1] = history[L] /\ history'[n] = id
        BY <1>3, <3>1, <4>1
      <4>3. payloads[history[L]].frame = frame
        BY <1>4, <4>1 DEF HistoryOK
      <4> HIDE DEF L, id
      <4> QED
        BY <1>5, <4>2, <4>3
    <3>2. CASE n # L + 1
      <4>1. n \in 1 .. L /\ n - 1 \in 1 .. L
        BY <1>3, <2>2, <3>2
      <4>2. history'[n - 1] = history[n - 1] /\ history'[n] = history[n]
        BY <1>3, <4>1
      <4> QED
        BY <1>3, <1>4, <2>2, <4>1, <4>2 DEF HistoryOK
    <3> QED
      BY <3>1, <3>2
  <2>3. payloads[history'[Len(history')]].frame = work.frame
    BY <1>3, <1>5
  <2>4. sequence + 1 # 0
    BY <1>2
  <2> QED
    BY <2>1, <2>2, <2>3, <2>4 DEF HistoryOK
<1>9. \A n \in DOMAIN history' : SameContents(payloads[history'[n]], payloads'[history'[n]])
  <2>1. \A n \in DOMAIN history' : history'[n] \in Held(history', full', work'.id)
    BY DEF Held, ToSet
  <2> QED
    BY <1>1, <2>1, HeldContents
<1>10. history' \in Seq(Ids)
  BY DEF PublisherInv, TypeInv
<1> HIDE DEF L, id
<1> QED
  BY <1>1, <1>8, <1>9, <1>10, Indexes, HistorySame

\* The installs of a full frame.
LEMMA FullChain ==
  ASSUME PublisherInv, ChainInv, InstallFull \/ InstallExtra, PublisherInv', Next
  PROVE  HistoryOK(payloads', history', full', stream', sequence', frame')
<1>1. /\ full' = work.id /\ work.id # 0 /\ work.pc = "install" /\ ~Admit
      /\ PendingPayload(payloads[work.id], work, frame, stream, sequence, streams)
      /\ PendingOK(work, frame, stream, sequence, streams, full)
      /\ work.kind \in {"extra", "reset", "large"}
  BY DEF InstallFull, InstallExtra, Admit, PublisherInv, WorkInv, ChainInv
<1>2. SameContents(payloads[work.id], payloads'[work.id])
  <2>1. full' \in Held(history', full', work'.id)
    BY <1>1 DEF Held
  <2> QED
    BY <1>1, <2>1, HeldContents
<1>3. sequence \in Nat
  BY IdsFinite DEF PublisherInv, TypeInv
<1>4. CASE InstallFull
  <2>1. /\ history' = <<>> /\ frame' = work.frame /\ stream' = NextStream /\ sequence' = NextSequence
        /\ work.kind \in {"reset", "large"}
    BY <1>4 DEF InstallFull
  <2>2. sequence' # 0
    BY <1>1, <1>3, <2>1 DEF NextSequence
  <2>3. /\ payloads'[work.id].kind = "full" /\ payloads'[work.id].stream = stream' /\ payloads'[work.id].sequence = sequence'
        /\ payloads'[work.id].frame = frame'
    BY <1>1, <1>2, <2>1 DEF PendingPayload, SameContents, NextStream, NextSequence
  <2> QED
    BY <1>1, <2>1, <2>2, <2>3 DEF HistoryOK
<1>5. CASE InstallExtra
  <2>1. UNCHANGED <<history, stream, sequence, frame>> /\ work.kind = "extra"
    BY <1>5 DEF InstallExtra
  <2>2. sequence # 0 /\ work.frame = frame
    BY <1>1, <2>1 DEF PendingOK
  <2>3. /\ payloads'[work.id].kind = "full" /\ payloads'[work.id].stream = stream /\ payloads'[work.id].sequence = sequence
        /\ payloads'[work.id].frame = frame
    BY <1>1, <1>2, <2>1, <2>2 DEF PendingPayload, SameContents
  <2>4. \A n \in DOMAIN history : SameContents(payloads[history[n]], payloads'[history[n]])
    <3>1. \A n \in DOMAIN history' : history'[n] \in Held(history', full', work'.id)
      BY DEF Held, ToSet
    <3> QED
      BY <1>1, <2>1, <3>1, HeldContents
  <2>5. HistoryOK(payloads, history, 0, stream, sequence, frame)
    BY DEF ChainInv, HistoryOK
  <2>6. history \in Seq(Ids)
    BY DEF PublisherInv, TypeInv
  <2>7. HistoryOK(payloads', history, 0, stream, sequence, frame)
    BY <2>4, <2>5, <2>6, Indexes, HistorySame
  <2> QED
    BY <1>1, <2>1, <2>2, <2>3, <2>7 DEF HistoryOK
<1> QED
  BY <1>4, <1>5

-----------------------------------------------------------------------------
(* Frames get newer.                                                       *)

\* Versions are numbers.
LEMMA Versions ==
  /\ None \notin Frame
  /\ \A f \in Frame : f.version \in Nat /\ f.version >= 1 /\ f.contract \in Contracts
<1>1. MaxVersion \in Nat
  BY LimitAssumption
<1> QED
  BY <1>1, NoneAssumption DEF Frame

\* The versions over every step, and the newest frame.
LEMMA VersionStep ==
  ASSUME PublisherInv, ChainInv, Next, PublisherInv'
  PROVE  VersionsOK' /\ Newest \in Nat /\ Newest' \in Nat /\ Newest <= Newest'
<1> DEFINE coding == work.pc \in {"admit", "wait", "install"}
<1>1. /\ source \in Frame /\ source' \in Frame /\ frame \in Frame \cup {None} /\ frame' \in Frame \cup {None}
      /\ work \in Work /\ work' \in Work
      /\ work.frame \in Frame \cup {None} /\ work'.frame \in Frame \cup {None}
      /\ work.pc \in {"idle", "admit", "wait", "install", "check", "done"}
  BY DEF PublisherInv, TypeInv, Work
<1>2. VersionsOK
  BY DEF ChainInv
<1>3. Newest \in Nat /\ Newest' \in Nat
  BY <1>1, Versions DEF Newest
<1> SUFFICES VersionsOK' /\ Newest <= Newest'
  BY <1>3
<1>4. ASSUME UNCHANGED <<frame, work>>, source'.version >= source.version
      PROVE  VersionsOK' /\ Newest <= Newest'
  BY <1>1, <1>2, <1>4, Versions DEF VersionsOK, Newest
<1>5. CASE Advance
  <2>1. source'.version = source.version + 1 /\ UNCHANGED <<frame, work>>
    BY <1>5 DEF Advance, publisherVars
  <2>2. source'.version >= source.version
    BY <1>1, <2>1, Versions
  <2> QED
    BY <2>1, <2>2, <1>4
<1>6. ASSUME UNCHANGED source PROVE source'.version >= source.version
  BY <1>1, <1>6, Versions
<1>7. CASE StopStreams
  BY <1>4, <1>6, <1>7 DEF StopStreams, publisherVars
<1>8. ASSUME NEW c \in Conns, HandlerStep(c) \/ ClientStep(c)
      PROVE  VersionsOK' /\ Newest <= Newest'
  <2>1. UNCHANGED <<source, frame, work>>
    BY <1>8 DEF HandlerStep, ClientStep, Register, Accept, Hello, StartWrite, AskFull, FinishWrite, StartHeartbeat,
       ReadControl, Expire, Leave, Receive, AnswerHeartbeat, LoseConnection, Disconnect, publisherVars
  <2> QED
    BY <1>4, <1>6, <2>1
<1>9. CASE Forget
  <2>1. UNCHANGED <<source, work>> /\ frame' = None /\ work.pc = "idle"
    BY <1>9 DEF Forget
  <2> QED
    BY <1>1, <1>2, <2>1, Versions DEF VersionsOK, Newest
<1>10. ASSUME UNCHANGED <<source, frame>>, work'.pc \in {"idle", "check", "done"}, work'.frame = None
       PROVE  VersionsOK' /\ Newest <= Newest'
  BY <1>1, <1>2, <1>10, Versions DEF VersionsOK, Newest
<1>11. ASSUME UNCHANGED <<source, frame>>, work'.pc \in {"admit", "wait", "install"}, work.pc \in {"admit", "wait", "install"},
              work'.frame = work.frame
       PROVE  VersionsOK' /\ Newest <= Newest'
  BY <1>1, <1>2, <1>11, Versions DEF VersionsOK, Newest
<1>12. CASE EndRun
  BY <1>10, <1>12, IdleWork DEF EndRun
<1>13. ASSUME NEW next \in Frame, Publish(next), next.version <= source.version, frame # None => frame.version <= next.version,
              frame = None => next = source
       PROVE  VersionsOK' /\ Newest <= Newest'
  <2>1. UNCHANGED <<source, frame>> /\ work.pc = "idle"
    BY <1>13 DEF Publish
  <2>2. CASE work' = [Idle EXCEPT !.pc = "check", !.need = needFull]
    <3>1. needFull \in BOOLEAN
      BY DEF PublisherInv, TypeInv
    <3> QED
      BY <1>10, <2>1, <2>2, <3>1, IdleWork
  <2>3. ASSUME NEW kind, NEW size,
               work' = [pc |-> "admit", need |-> needFull, kind |-> kind, frame |-> next, size |-> size, id |-> 0]
        PROVE  VersionsOK' /\ Newest <= Newest'
    <3>1. work'.pc = "admit" /\ work'.frame = next
      BY <2>3
    <3> QED
      BY <1>1, <1>2, <1>13, <2>1, <3>1, Versions DEF VersionsOK, Newest
  <2> QED
    BY <1>13, <2>2, <2>3 DEF Publish
<1>14. CASE Capture
  BY <1>1, <1>2, <1>13, <1>14, Versions DEF Capture, VersionsOK
<1>15. CASE EarlyWake
  <2>1. frame # None /\ frame \in Frame
    BY <1>1, <1>15 DEF EarlyWake, PublisherInv, WorkInv
  <2> QED
    BY <1>2, <1>13, <1>15, <2>1, Versions DEF EarlyWake, VersionsOK
<1>16. CASE Admit
  <2>1. UNCHANGED <<source, frame>> /\ work.pc = "admit"
    BY <1>16 DEF Admit
  <2>2. work'.pc = "install" /\ work'.frame = work.frame
    BY <1>1, <1>16 DEF Admit, Work
  <2> QED
    BY <1>11, <2>1, <2>2
<1>17. CASE Shed
  <2>1. UNCHANGED <<source, frame>> /\ work.pc = "admit" /\ work'.pc = "wait" /\ work'.frame = work.frame
    BY <1>1, <1>17 DEF Shed, Work
  <2> QED
    BY <1>11, <2>1
<1>18. CASE WaitReleased \/ PublishFails
  <2>1. UNCHANGED <<source, frame>>
    BY <1>18 DEF WaitReleased, PublishFails
  <2>2. CASE work' = Idle
    BY <1>10, <2>1, <2>2, IdleWork
  <2>3. CASE work.pc = "wait" /\ work' = [work EXCEPT !.pc = "admit"]
    <3>1. work'.pc = "admit" /\ work'.frame = work.frame
      BY <1>1, <2>3 DEF Work
    <3> QED
      BY <1>11, <2>1, <2>3, <3>1
  <2> QED
    BY <1>18, <2>2, <2>3 DEF WaitReleased, PublishFails
<1>19. CASE ReplaceLarge
  <2>1. PICK size \in FullSizes : work' = [work EXCEPT !.pc = "admit", !.kind = "large", !.size = size, !.id = 0]
    BY <1>19 DEF ReplaceLarge
  <2>2. work'.pc = "admit" /\ work'.frame = work.frame
    <3> DEFINE u == [work EXCEPT !.pc = "admit", !.kind = "large"]
    <3>1. u.pc = "admit" /\ u.frame = work.frame /\ DOMAIN u = {"pc", "need", "kind", "frame", "size", "id"}
      BY <1>1 DEF Work
    <3>2. work' = [u EXCEPT !.size = size, !.id = 0]
      BY <2>1
    <3> HIDE DEF u
    <3> QED
      BY <3>1, <3>2
  <2>3. UNCHANGED <<source, frame>> /\ work.pc = "install"
    BY <1>19 DEF ReplaceLarge
  <2> QED
    BY <1>11, <2>2, <2>3
<1>20. CASE InstallDelta \/ InstallFull
  <2>1. source' = source /\ frame' = work.frame /\ work.pc = "install"
    BY <1>20 DEF InstallDelta, InstallFull
  <2>2. work'.pc = "check" /\ work'.frame = None
    <3>1. work.need \in BOOLEAN
      BY <1>1 DEF Work
    <3> QED
      BY <1>20, <3>1, IdleWork DEF InstallDelta, InstallFull
  <2>3. work.frame \in Frame
    BY <1>1, <1>2, <2>1 DEF VersionsOK
  <2> QED
    BY <1>1, <1>2, <2>1, <2>2, <2>3, Versions DEF VersionsOK, Newest
<1>21. CASE CheckFull
  <2>1. UNCHANGED <<source, frame>> /\ work.pc = "check" /\ frame \in Frame
    BY <1>1, <1>21 DEF CheckFull, PublisherInv, WorkInv
  <2>2. CASE work' = Idle
    BY <1>10, <2>1, <2>2, IdleWork
  <2>3. ASSUME NEW size, work' = [work EXCEPT !.pc = "admit", !.kind = "extra", !.frame = frame, !.size = size]
        PROVE  VersionsOK' /\ Newest <= Newest'
    <3>1. work'.pc = "admit" /\ work'.frame = frame
      <4> DEFINE u == [work EXCEPT !.pc = "admit", !.kind = "extra"]
      <4>1. u.pc = "admit" /\ DOMAIN u = {"pc", "need", "kind", "frame", "size", "id"}
        BY <1>1 DEF Work
      <4>2. work' = [u EXCEPT !.frame = frame, !.size = size]
        BY <2>3
      <4> HIDE DEF u
      <4> QED
        BY <4>1, <4>2
    <3> QED
      BY <1>1, <1>2, <2>1, <3>1, Versions DEF VersionsOK, Newest
  <2> QED
    BY <1>21, <2>2, <2>3 DEF CheckFull
<1>22. CASE InstallExtra
  BY <1>10, <1>22, IdleWork DEF InstallExtra
<1> QED
  BY <1>3, <1>5, <1>7, <1>8, <1>9, <1>12, <1>14, <1>15, <1>16, <1>17, <1>18, <1>19, <1>20, <1>21, <1>22 DEF Next, PublisherStep

\* The chain over every step.
LEMMA ChainStep == ASSUME PublisherInv, ChainInv, Next, PublisherInv' PROVE ChainInv'
<1> SUFFICES /\ HistoryOK(payloads', history', full', stream', sequence', frame')
             /\ work'.pc = "install" => PendingPayload(payloads'[work'.id], work', frame', stream', sequence', streams')
  BY VersionStep DEF ChainInv
<1>1. work \in Work /\ needFull \in BOOLEAN
  BY DEF PublisherInv, TypeInv
<1>2. CASE Admit
  BY <1>2, AdmitChain
<1>3. CASE Forget \/ EndRun \/ Shed
  <2>1. history' = <<>> /\ full' = 0
    BY <1>3 DEF Forget, EndRun, Shed
  <2>2. work'.pc # "install"
    BY <1>1, <1>3, IdleWork DEF Forget, EndRun, Shed, Work
  <2> QED
    BY <2>1, <2>2, EmptyHistory
<1>4. CASE InstallDelta
  <2>1. work'.pc = "check"
    BY <1>1, <1>4, IdleWork DEF InstallDelta, Work
  <2> QED
    BY <1>4, <2>1, DeltaChain
<1>5. CASE InstallFull \/ InstallExtra
  <2>1. work'.pc # "install"
    BY <1>1, <1>5, IdleWork DEF InstallFull, InstallExtra, Work
  <2> QED
    BY <1>5, <2>1, FullChain
<1>6. ASSUME UNCHANGED <<history, full, stream, sequence, frame>>, ~Admit,
             work'.pc = "install" => UNCHANGED <<work, streams>>
      PROVE  /\ HistoryOK(payloads', history', full', stream', sequence', frame')
             /\ work'.pc = "install" => PendingPayload(payloads'[work'.id], work', frame', stream', sequence', streams')
  BY <1>6, SameChainStep
<1>7. CASE Advance \/ StopStreams
  BY <1>2, <1>6, <1>7 DEF Advance, StopStreams, publisherVars
<1>8. ASSUME NEW c \in Conns, HandlerStep(c) \/ ClientStep(c)
      PROVE  UNCHANGED <<history, full, stream, sequence, frame, work, streams>>
  BY <1>8 DEF HandlerStep, ClientStep, Register, Accept, Hello, StartWrite, AskFull, FinishWrite, StartHeartbeat,
       ReadControl, Expire, Leave, Receive, AnswerHeartbeat, LoseConnection, Disconnect, publisherVars
<1>9. CASE Capture \/ EarlyWake
  <2>1. PICK next : Publish(next)
    BY <1>9 DEF Capture, EarlyWake
  <2>2. UNCHANGED <<history, full, stream, sequence, frame>>
    BY <2>1 DEF Publish
  <2>3. work'.pc # "install"
    <3>1. CASE work' = [Idle EXCEPT !.pc = "check", !.need = needFull]
      BY <1>1, <3>1, IdleWork
    <3>2. ASSUME NEW kind, NEW size,
                 work' = [pc |-> "admit", need |-> needFull, kind |-> kind, frame |-> next, size |-> size, id |-> 0]
          PROVE  work'.pc # "install"
      BY <3>2
    <3> QED
      BY <2>1, <3>1, <3>2 DEF Publish
  <2> QED
    BY <1>2, <1>6, <2>2, <2>3
<1>10. CASE WaitReleased \/ PublishFails \/ ReplaceLarge \/ CheckFull
  <2>1. UNCHANGED <<history, full, stream, sequence, frame>>
    BY <1>10 DEF WaitReleased, PublishFails, ReplaceLarge, CheckFull
  <2>2. work'.pc # "install"
    <3>1. CASE work' = Idle
      BY <3>1, IdleWork
    <3>2. CASE WaitReleased /\ work' = [work EXCEPT !.pc = "admit"]
      BY <1>1, <3>2 DEF Work
    <3> DEFINE fields == {"pc", "need", "kind", "frame", "size", "id"}
    <3>3. DOMAIN work = fields
      BY <1>1 DEF Work
    <3>4. ASSUME NEW k, NEW z, work' = [work EXCEPT !.pc = "admit", !.kind = k, !.size = z, !.id = 0]
          PROVE  work'.pc = "admit"
      <4> DEFINE u == [work EXCEPT !.pc = "admit", !.kind = k]
      <4>1. u.pc = "admit" /\ DOMAIN u = fields
        BY <3>3
      <4>2. work' = [u EXCEPT !.size = z, !.id = 0]
        BY <3>4
      <4> HIDE DEF u
      <4> QED
        BY <4>1, <4>2
    <3>5. ASSUME NEW k, NEW z, NEW f, work' = [work EXCEPT !.pc = "admit", !.kind = k, !.frame = f, !.size = z]
          PROVE  work'.pc = "admit"
      <4> DEFINE u == [work EXCEPT !.pc = "admit", !.kind = k]
      <4>1. u.pc = "admit" /\ DOMAIN u = fields
        BY <3>3
      <4>2. work' = [u EXCEPT !.frame = f, !.size = z]
        BY <3>5
      <4> HIDE DEF u
      <4> QED
        BY <4>1, <4>2
    <3>6. CASE ReplaceLarge
      <4>1. PICK z \in FullSizes : work' = [work EXCEPT !.pc = "admit", !.kind = "large", !.size = z, !.id = 0]
        BY <3>6 DEF ReplaceLarge
      <4>2. work'.pc = "admit"
        BY <3>4, <4>1
      <4> QED
        BY <4>2
    <3>7. CASE CheckFull /\ work' # Idle
      <4>1. PICK z \in FullSizes : work' = [work EXCEPT !.pc = "admit", !.kind = "extra", !.frame = frame, !.size = z]
        BY <3>7 DEF CheckFull
      <4>2. work'.pc = "admit"
        BY <3>5, <4>1
      <4> QED
        BY <4>2
    <3> QED
      BY <1>10, <3>1, <3>2, <3>6, <3>7 DEF WaitReleased, PublishFails
  <2> QED
    BY <1>2, <1>6, <2>1, <2>2
<1> QED
  BY <1>2, <1>3, <1>4, <1>5, <1>6, <1>7, <1>8, <1>9, <1>10 DEF Next, PublisherStep

-----------------------------------------------------------------------------
(* The publisher's steps seen by a connection.                             *)

\* The handler of a connection whose socket may have been closed.
SameView(s, t) ==
  /\ t.pc = s.pc /\ t.contract = s.contract /\ t.stream = s.stream /\ t.sequence = s.sequence
  /\ t.sent = s.sent /\ t.lastACK = s.lastACK /\ t.heartbeat = s.heartbeat
  /\ s.broken => t.broken
  /\ t.writing \in {0, s.writing}

\* A closed socket changes nothing for the messages under way.
LEMMA ViewKept ==
  ASSUME NEW s, NEW t, SameView(s, t), NEW peer, NEW in, NEW ctl, Piped(s, peer, in, ctl)
  PROVE  /\ Piped(t, peer, in, ctl)
         /\ \A ps, h, st, sq, f : Placed(s, peer, in, ps, h, st, sq, f) => Placed(t, peer, in, ps, h, st, sq, f)
<1>1. Ordered(t)
  BY DEF SameView, Piped, Ordered
<1>2. Waits(t) = Waits(s) /\ \A m, n : Expected(s, m, n) => Expected(t, m, n)
  BY DEF SameView, Waits, Expected
<1>3. Piped(t, peer, in, ctl)
  BY <1>1, <1>2 DEF SameView, Piped
<1>4. ASSUME NEW ps, NEW h, NEW st, NEW sq, NEW f, Placed(s, peer, in, ps, h, st, sq, f)
      PROVE  Placed(t, peer, in, ps, h, st, sq, f)
  BY <1>4 DEF SameView, Placed
<1> QED
  BY <1>3, <1>4

\* A break keeps the view.
LEMMA BreakView ==
  ASSUME SubsOK(subs), NEW cs, NEW c \in Conns
  PROVE  SameView(subs[c], subs[c]) /\ SameView(subs[c], Break(cs)[c])
<1>1. SubOK(subs[c]) /\ (Break(cs)[c] = subs[c] \/ Break(cs)[c] = [subs[c] EXCEPT !.broken = TRUE])
  BY BreakOK DEF SubsOK
<1> QED
  BY <1>1 DEF SameView, SubOK, SubFields

\* The same history with the same contents.
LEMMA PlacedSame ==
  ASSUME NEW s, NEW peer, NEW in, NEW ps, NEW qs, NEW h, NEW g, NEW st, NEW sq, NEW f,
         Placed(s, peer, in, ps, h, st, sq, f),
         \A k \in DOMAIN g : \E n \in DOMAIN h : g[k] = h[n] /\ SameContents(ps[h[n]], qs[h[n]])
  PROVE  Placed(s, peer, in, qs, g, st, sq, f)
<1>1. ASSUME NEW k \in DOMAIN g, qs[g[k]].sequence = s.sequence + 1
      PROVE  \E n \in DOMAIN h : ps[h[n]].sequence = s.sequence + 1 /\ ps[h[n]].from = qs[g[k]].from
  BY <1>1 DEF SameContents
<1> QED
  BY <1>1 DEF Placed

\* A newer frame of the publisher is newer than what was sent.
LEMMA LinkedMore ==
  ASSUME NEW peer, NEW in \in Seq(Publication \cup Beat), NEW sh \in Frame \cup {None}, NEW m \in Nat, NEW n \in Nat, m <= n,
         Linked(peer, in, sh, m)
  PROVE  Linked(peer, in, sh, n)
<1>1. ASSUME NEW k \in DOMAIN in, ~IsBeat(in[k]) PROVE in[k].frame.version \in Nat
  <2>1. in[k] \in Publication
    BY <1>1 DEF Beat, IsBeat
  <2> QED
    BY <2>1, Versions DEF Publication
<1>2. sh # None => sh.version \in Nat
  BY Versions
<1>3. \A k \in DOMAIN in : ~IsBeat(in[k]) => in[k].frame.version <= n
  BY <1>1 DEF Linked
<1>4. sh # None => sh.version <= n
  BY <1>2 DEF Linked
<1> QED
  BY <1>3, <1>4 DEF Linked

\* Handlers that are off are nowhere.
LEMMA OffPlaced ==
  ASSUME PublisherInv, NEW c \in Conns, subs[c].pc = "off", Piped(subs[c], peers[c], inbox[c], controls[c]),
         NEW st \in Nat, NEW sq \in Nat, NEW ps, NEW h, NEW f
  PROVE  Placed(subs[c], peers[c], inbox[c], ps, h, st, sq, f)
BY DEF Piped, Placed

\* Where the handlers are in the published frames after a step of the publisher.
LEMMA PublisherPlaces ==
  ASSUME PublisherInv, ChainInv, ConnInv, Next, PublisherInv', NEW c \in Conns,
         Advance \/ StopStreams \/ PublisherStep
  PROVE  Placed(subs[c], peers[c], inbox[c], payloads', history', stream', sequence', frame')
<1> DEFINE s == subs[c]
           L == Len(history)
<1>1. /\ Piped(s, peers[c], inbox[c], controls[c])
      /\ Placed(s, peers[c], inbox[c], payloads, history, stream, sequence, frame)
  BY DEF ConnInv
<1>2. /\ stream \in Nat /\ sequence \in Nat /\ stream' \in Nat /\ sequence' \in Nat /\ streams \in Nat
      /\ s.stream \in Nat /\ s.sequence \in Nat /\ s.pc \in {"off", "accepting", "hello", "ready"}
      /\ history \in Seq(Ids) /\ history' \in Seq(Ids)
  BY IdsFinite, SMTT(30) DEF PublisherInv, TypeInv, SubsOK, SubOK
<1>3. CASE Forget \/ EndRun
  <2>1. s.pc = "off"
    BY <1>2, <1>3 DEF Forget, EndRun, Clients
  <2> QED
    BY <1>1, <1>2, <2>1, OffPlaced
<1>4. ~Admit => \A n \in DOMAIN history' : SameContents(payloads[history'[n]], payloads'[history'[n]])
  <2>1. \A n \in DOMAIN history' : history'[n] \in Held(history', full', work'.id)
    BY DEF Held, ToSet
  <2> QED
    BY <2>1, HeldContents
<1>5. CASE UNCHANGED <<history, stream, sequence, frame>> /\ ~Admit
  BY <1>1, <1>4, <1>5, PlacedSame
<1>6. CASE Shed
  <2>1. history' = <<>> /\ UNCHANGED <<stream, sequence, frame>>
    BY <1>6 DEF Shed
  <2> QED
    BY <1>1, <2>1 DEF Placed
<1>7. CASE Admit
  <2>1. /\ UNCHANGED <<stream, sequence, frame>> /\ history' = Kept(Evictions(work.size))
    BY <1>7 DEF Admit
  <2>2. Evictions(work.size) \in 0 .. L
    BY <1>2, EvictionsFound
  <2>3. \A k \in DOMAIN history' : k + Evictions(work.size) \in DOMAIN history /\ history'[k] = history[k + Evictions(work.size)]
    BY <1>2, <2>1, <2>2, HistoryParts
  <2>4. ASSUME NEW k \in DOMAIN history' PROVE SameContents(payloads[history'[k]], payloads'[history'[k]])
    <3>1. history'[k] \in Ids
      BY <1>2
    <3>2. history'[k] # work'.id /\ payloads'[history'[k]] # None
      BY <3>1, ZenonT(30) DEF PublisherInv, LeaseInv, Leased, Held, ToSet, Distinct
    <3> QED
      BY <3>1, <3>2, StepPayloads
  <2> QED
    BY <1>1, <2>1, <2>3, <2>4, PlacedSame
<1>8. CASE InstallDelta
  <2>1. /\ history' = Append(history, work.id) /\ stream' = stream /\ sequence' = sequence + 1 /\ frame' = work.frame
        /\ work.pc = "install" /\ work.kind = "delta" /\ ~Admit /\ work.id # 0
    BY <1>8 DEF InstallDelta, NextSequence, Admit, PublisherInv, WorkInv
  <2>2. payloads[work.id].sequence = sequence + 1 /\ payloads[work.id].from = frame
    BY <2>1 DEF ChainInv, PendingPayload
  <2>3. DOMAIN history' = 1 .. (L + 1) /\ DOMAIN history = 1 .. L /\ L \in Nat /\ history'[L + 1] = work.id
        /\ \A n \in 1 .. L : history'[n] = history[n]
    BY <1>2, <2>1 DEF PublisherInv, TypeInv, Work
  <2>4. ASSUME s.pc = "ready", ~s.broken, s.stream = stream, stream # 0,
               NEW n \in DOMAIN history', payloads'[history'[n]].sequence = s.sequence + 1
        PROVE  payloads'[history'[n]].from = After(peers[c], inbox[c], Len(inbox[c]) + 1).frame
    <3>1. payloads'[history'[n]].from = payloads[history'[n]].from /\ payloads[history'[n]].sequence = s.sequence + 1
      BY <1>4, <2>1, <2>4 DEF SameContents
    <3>2. CASE n = L + 1
      <4>1. s.sequence = sequence
        BY <1>2, <2>2, <2>3, <3>1, <3>2
      <4> QED
        BY <1>1, <2>2, <2>3, <2>4, <3>1, <3>2, <4>1 DEF Placed
    <3>3. CASE n # L + 1
      <4>1. n \in DOMAIN history /\ history'[n] = history[n]
        BY <2>3, <3>3
      <4> QED
        BY <1>1, <2>4, <3>1, <4>1 DEF Placed
    <3> QED
      BY <3>2, <3>3
  <2>5. s.stream <= stream' /\ (s.stream = stream' => s.sequence <= sequence' /\ s.sequence # sequence')
    BY <1>1, <1>2, <2>1 DEF Placed
  <2> QED
    BY <2>1, <2>4, <2>5 DEF Placed
<1>9. CASE InstallFull
  <2>1. /\ history' = <<>> /\ stream' = NextStream /\ sequence' = NextSequence /\ frame' = work.frame
        /\ work.pc = "install" /\ work.kind \in {"reset", "large"}
    BY <1>9 DEF InstallFull
  <2>2. s.stream <= stream' /\ (s.stream = stream' => s.sequence <= sequence' /\ s.sequence # sequence')
    <3>1. CASE work.kind = "reset"
      <4>1. stream' = streams /\ stream < streams
        BY <2>1, <3>1 DEF NextStream, PublisherInv, WorkInv, PendingOK
      <4> QED
        BY <1>1, <1>2, <4>1 DEF Placed
    <3>2. CASE work.kind = "large"
      <4>1. stream' = stream /\ sequence' = sequence + 1
        BY <2>1, <3>2 DEF NextStream, NextSequence
      <4> QED
        BY <1>1, <1>2, <4>1 DEF Placed
    <3> QED
      BY <2>1, <3>1, <3>2
  <2> QED
    BY <2>1, <2>2 DEF Placed
<1>10. CASE Advance \/ StopStreams
  <2>1. UNCHANGED <<history, stream, sequence, frame, work>>
    BY <1>10 DEF Advance, StopStreams, publisherVars
  <2>2. ~Admit
    <3>1. Admit => work.pc = "admit" /\ work'.pc = "install"
      BY DEF Admit, PublisherInv, TypeInv, Work
    <3> QED
      BY <2>1, <3>1
  <2> QED
    BY <1>5, <2>1, <2>2
<1>11. CASE Capture \/ EarlyWake \/ WaitReleased \/ PublishFails \/ ReplaceLarge \/ CheckFull \/ InstallExtra
  <2>1. UNCHANGED <<history, stream, sequence, frame>>
    BY <1>11 DEF Capture, EarlyWake, Publish, WaitReleased, PublishFails, ReplaceLarge, CheckFull, InstallExtra
  <2> QED
    BY <1>5, <1>7, <2>1
<1> QED
  BY <1>3, <1>6, <1>7, <1>8, <1>9, <1>10, <1>11 DEF PublisherStep

\* Steps of the publisher, of its session and of Close.
LEMMA PublisherConns ==
  ASSUME PublisherInv, ChainInv, ConnInv, Next, PublisherInv', Advance \/ StopStreams \/ PublisherStep
  PROVE  ConnInv'
<1>1. UNCHANGED socketVars
  BY DEF Advance, StopStreams, PublisherStep, Forget, Capture, EarlyWake, Publish, Admit, Shed, WaitReleased, PublishFails,
     ReplaceLarge, InstallDelta, InstallFull, CheckFull, InstallExtra, EndRun
<1>2. UNCHANGED <<peers, inbox, controls, shown>>
  BY <1>1 DEF socketVars
<1>3. subs' = subs \/ \E cs : subs' = Break(cs)
  BY DEF Advance, StopStreams, PublisherStep, Forget, Capture, EarlyWake, Publish, Admit, Shed, WaitReleased, PublishFails,
     ReplaceLarge, InstallDelta, InstallFull, CheckFull, InstallExtra, EndRun
<1>4. SubsOK(subs)
  BY DEF PublisherInv, TypeInv
<1>5. Newest \in Nat /\ Newest' \in Nat /\ Newest <= Newest'
  BY VersionStep
<1>6. ASSUME NEW c \in Conns
      PROVE  /\ Linked(peers[c], inbox[c], shown[c], Newest')
             /\ Piped(subs'[c], peers[c], inbox[c], controls[c])
             /\ Placed(subs'[c], peers[c], inbox[c], payloads', history', stream', sequence', frame')
  <2>1. /\ inbox[c] \in Seq(Publication \cup Beat) /\ shown[c] \in Frame \cup {None}
        /\ Linked(peers[c], inbox[c], shown[c], Newest) /\ Piped(subs[c], peers[c], inbox[c], controls[c])
    BY DEF ConnInv, PublisherInv, SocketInv
  <2>2. SameView(subs[c], subs'[c])
    BY <1>3, <1>4, BreakView
  <2>3. Linked(peers[c], inbox[c], shown[c], Newest')
    <3> DEFINE m == Newest
               n == Newest'
    <3>1. m \in Nat /\ n \in Nat /\ m <= n /\ Linked(peers[c], inbox[c], shown[c], m)
      BY <1>5, <2>1
    <3> HIDE DEF m, n
    <3>2. Linked(peers[c], inbox[c], shown[c], n)
      BY <2>1, <3>1, LinkedMore
    <3> QED
      BY <3>2 DEF n
  <2>4. Placed(subs[c], peers[c], inbox[c], payloads', history', stream', sequence', frame')
    BY PublisherPlaces
  <2> QED
    BY <2>1, <2>2, <2>3, <2>4, ViewKept
<1>7. peers \in [Conns -> Peer] /\ shown \in [Conns -> Frame \cup {None}]
  BY DEF ConnInv
<1> QED
  BY <1>2, <1>6, <1>7 DEF ConnInv

-----------------------------------------------------------------------------
(* The steps of one connection.                                            *)

\* One more answer and one message less.
LEMMA Counting ==
  /\ \A m \in Nat, l \in Nat, w \in Nat, k \in Nat : m + l = w + k => (m + 1) + (l - 1) = w + k
  /\ \A m \in Nat, l \in Nat : \A n \in 1 .. (l - 1) : n + 1 \in 1 .. l /\ m + (n + 1) = (m + 1) + n
OBVIOUS

\* The client takes a message and answers it.
Answers(peer, next, in, sh, sh2, a) ==
  /\ next.on /\ next.contract = peer.contract
  /\ \/ IsBeat(in[1]) /\ next = peer /\ sh2 = sh /\ IsBeat(a) /\ a.token = in[1].token
     \/ /\ ~IsBeat(in[1]) /\ next.stream = in[1].stream /\ next.sequence = in[1].sequence /\ next.frame = in[1].frame
        /\ sh2 = in[1].frame /\ ~IsBeat(a) /\ a.stream = in[1].stream /\ a.sequence = in[1].sequence

\* The message, the answer and the two ends of the connection.
Taken(s, peer, next, in, ctl, ctl2, a, sh, sh2, newest) ==
  /\ SubOK(s) /\ in \in Seq(Publication \cup Beat) /\ in # <<>>
  /\ ctl \in Seq(Ack \cup Beat) /\ a \in Ack \cup Beat
  /\ sh \in Frame \cup {None} /\ sh2 \in Frame \cup {None} /\ newest \in Nat
  /\ Linked(peer, in, sh, newest) /\ Piped(s, peer, in, ctl) /\ peer.on
  /\ Answers(peer, next, in, sh, sh2, a)
  /\ ctl2 = IF s.pc = "ready" /\ ~s.broken THEN Append(ctl, a) ELSE ctl

\* What is on the way, message by message.
LEMMA Consume ==
  ASSUME NEW s, NEW peer, NEW next, NEW in, NEW ctl, NEW ctl2, NEW a, NEW sh, NEW sh2, NEW newest,
         Taken(s, peer, next, in, ctl, ctl2, a, sh, sh2, newest)
  PROVE  /\ Linked(next, Tail(in), sh2, newest)
         /\ Piped(s, next, Tail(in), ctl2)
         /\ \A ps, h, st, sq, f : Placed(s, peer, in, ps, h, st, sq, f) => Placed(s, next, Tail(in), ps, h, st, sq, f)
<1> SUFFICES ASSUME SubOK(s), in \in Seq(Publication \cup Beat), in # <<>>,
         ctl \in Seq(Ack \cup Beat), a \in Ack \cup Beat,
         sh \in Frame \cup {None}, sh2 \in Frame \cup {None}, newest \in Nat,
         Linked(peer, in, sh, newest), Piped(s, peer, in, ctl), peer.on, next.on, next.contract = peer.contract,
         \/ IsBeat(in[1]) /\ next = peer /\ sh2 = sh /\ IsBeat(a) /\ a.token = in[1].token
         \/ /\ ~IsBeat(in[1]) /\ next.stream = in[1].stream /\ next.sequence = in[1].sequence /\ next.frame = in[1].frame
            /\ sh2 = in[1].frame /\ ~IsBeat(a) /\ a.stream = in[1].stream /\ a.sequence = in[1].sequence,
         ctl2 = IF s.pc = "ready" /\ ~s.broken THEN Append(ctl, a) ELSE ctl
    PROVE  /\ Linked(next, Tail(in), sh2, newest)
           /\ Piped(s, next, Tail(in), ctl2)
           /\ \A ps, h, st, sq, f : Placed(s, peer, in, ps, h, st, sq, f) => Placed(s, next, Tail(in), ps, h, st, sq, f)
  BY DEF Taken, Answers
<1> DEFINE L == Len(in)
           T == Tail(in)
           M == Len(ctl)
<1>1. /\ L \in Nat /\ L >= 1 /\ DOMAIN in = 1 .. L /\ DOMAIN T = 1 .. (L - 1) /\ Len(T) = L - 1
      /\ \A k \in 1 .. (L - 1) : T[k] = in[k + 1] /\ k + 1 \in DOMAIN in
      /\ M \in Nat /\ DOMAIN ctl = 1 .. M
  OBVIOUS
<1>0. L \in Nat /\ L >= 1 /\ M \in Nat
  OBVIOUS
<1>2. in[1] \in Publication \cup Beat
  BY <1>1
<1>3. \A k \in 1 .. (L - 1) : ~IsBeat(T[k])
  BY <1>1 DEF Linked
<1>4. ~IsBeat(in[1]) => in[1].frame \in Frame /\ in[1].stream \in 1 .. MaxStream /\ in[1].sequence \in 1 .. MaxCounter
  BY <1>2 DEF IsBeat, Beat, Publication
<1> HIDE DEF T, L, M
<1>5. ASSUME NEW k \in 1 .. L
      PROVE  /\ After(next, T, k).stream = After(peer, in, k + 1).stream
             /\ After(next, T, k).sequence = After(peer, in, k + 1).sequence
             /\ After(next, T, k).frame = After(peer, in, k + 1).frame
             /\ Latest(T, sh2, k) = Latest(in, sh, k + 1)
  <2>1. CASE k = 1
    BY <2>1, <1>1 DEF After, Latest
  <2>2. CASE k > 1
    <3>0. k - 1 \in 1 .. (L - 1) /\ (k - 1) + 1 = k /\ (k + 1) - 1 = k /\ k + 1 > 1
      BY <1>0, <2>2
    <3>1. T[k - 1] = in[k] /\ ~IsBeat(in[k])
      <4>1. T[k - 1] = in[(k - 1) + 1] /\ ~IsBeat(T[k - 1])
        BY <1>1, <1>3, <3>0
      <4> QED
        BY <3>0, <4>1
    <3> QED
      BY <2>2, <3>0, <3>1 DEF After, Latest
  <2> QED
    BY <1>1, <2>1, <2>2
<1>6. Linked(next, T, sh2, newest)
  <2>1. ASSUME NEW k \in DOMAIN T
        PROVE  /\ Follows(T[k], After(next, T, k), Latest(T, sh2, k))
               /\ T[k].frame.contract = next.contract
               /\ T[k].frame.version <= newest
    <3>1. k \in 1 .. (L - 1) /\ k \in 1 .. L /\ T[k] = in[k + 1] /\ k + 1 \in DOMAIN in /\ ~IsBeat(in[k + 1])
      BY <1>1, <1>3
    <3>2. /\ Follows(in[k + 1], After(peer, in, k + 1), Latest(in, sh, k + 1))
          /\ in[k + 1].frame.contract = peer.contract /\ in[k + 1].frame.version <= newest
      BY <3>1 DEF Linked
    <3> QED
      BY <1>5, <3>1, <3>2 DEF Follows
  <2>2. sh2 # None => sh2.version <= newest
    <3>1. (sh # None => sh.version <= newest) /\ (~IsBeat(in[1]) => in[1].frame.version <= newest)
      BY <1>1 DEF Linked
    <3> QED
      BY <3>1
  <2>3. (next.stream = 0 <=> next.sequence = 0) /\ (next.sequence # 0 => next.frame = sh2 /\ sh2 # None)
    <3>1. CASE IsBeat(in[1])
      BY <3>1 DEF Linked
    <3>2. CASE ~IsBeat(in[1])
      BY <1>4, <3>2, NoneAssumption
    <3> QED
      BY <3>1, <3>2
  <2> QED
    BY <1>1, <1>3, <2>1, <2>2, <2>3 DEF Linked
<1>7. Piped(s, next, T, ctl2)
  <2>1. s.pc \in {"off", "accepting", "hello", "ready"} /\ s.sent \in Seq(Sent)
    BY DEF SubOK
  <2>2. s.pc \notin {"accepting", "hello"}
    BY DEF Piped
  <2>3. CASE s.pc # "ready" \/ s.broken
    BY <2>1, <2>2, <2>3 DEF Piped
  <2>4. CASE s.pc = "ready" /\ ~s.broken
    <3>1. /\ s.contract = peer.contract
          /\ M + L = Waits(s) + Len(s.sent)
          /\ \A n \in 1 .. L : Expected(s, in[n], M + n)
          /\ s.stream = After(peer, in, L + 1).stream /\ s.sequence = After(peer, in, L + 1).sequence
          /\ \A n \in 1 .. M : Expected(s, ctl[n], n)
      BY <1>1, <2>4 DEF Piped, M, L
    <3>2. ctl2 = Append(ctl, a) /\ Len(ctl2) = M + 1 /\ DOMAIN ctl2 = 1 .. (M + 1) /\ ctl2[M + 1] = a /\ \A n \in 1 .. M : ctl2[n] = ctl[n]
      BY <2>4 DEF M
    <3>3. Expected(s, a, M + 1)
      <4>1. Expected(s, in[1], M + 1)
        BY <1>1, <3>1
      <4> QED
        BY <4>1 DEF Expected
    <3>4. \A n \in DOMAIN ctl2 : Expected(s, ctl2[n], n)
      <4> SUFFICES ASSUME NEW n \in 1 .. (M + 1) PROVE Expected(s, ctl2[n], n)
        BY <3>2
      <4>1. n \in 1 .. M \/ n = M + 1
        BY <1>1
      <4> QED
        BY <3>1, <3>2, <3>3, <4>1
    <3>5. Len(ctl2) + Len(T) = Waits(s) + Len(s.sent)
      <4> DEFINE w == Waits(s)
                 N == Len(s.sent)
      <4>1. w \in Nat
        BY DEF Waits
      <4>4. N \in Nat
        BY <2>1
      <4>5. M + L = w + N
        BY <3>1
      <4>2. Len(ctl2) = M + 1 /\ Len(T) = L - 1
        BY <1>1, <3>2
      <4> HIDE DEF w, N
      <4>3. Len(ctl2) + Len(T) = w + N
        <5>1. (M + 1) + (L - 1) = w + N
          BY <1>0, <4>1, <4>4, <4>5, Counting
        <5> QED
          BY <4>2, <5>1
      <4> QED
        BY <4>3 DEF w, N
    <3>6. ASSUME NEW n \in DOMAIN T PROVE Expected(s, T[n], Len(ctl2) + n)
      <4>0. n \in 1 .. (L - 1) /\ Len(ctl2) = M + 1
        BY <1>1, <3>2
      <4>1. n + 1 \in 1 .. L /\ T[n] = in[n + 1] /\ M + (n + 1) = Len(ctl2) + n
        <5>1. n + 1 \in 1 .. L /\ M + (n + 1) = Len(ctl2) + n
          <6>1. n + 1 \in 1 .. L /\ M + (n + 1) = (M + 1) + n
            BY <1>0, <4>0, Counting
          <6> QED
            BY <4>0, <6>1
        <5> QED
          BY <1>1, <4>0, <5>1
      <4>2. Expected(s, in[n + 1], M + (n + 1))
        BY <3>1, <4>1
      <4> QED
        BY <4>1, <4>2
    <3>7. s.stream = After(next, T, Len(T) + 1).stream /\ s.sequence = After(next, T, Len(T) + 1).sequence
      <4>1. Len(T) + 1 = L /\ L \in 1 .. L
        BY <1>1
      <4> QED
        BY <1>5, <3>1, <4>1
    <3> QED
      BY <2>4, <3>1, <3>4, <3>5, <3>6, <3>7 DEF Piped
  <2> QED
    BY <2>3, <2>4
<1>8. ASSUME NEW ps, NEW h, NEW st, NEW sq, NEW f, Placed(s, peer, in, ps, h, st, sq, f)
      PROVE  Placed(s, next, T, ps, h, st, sq, f)
  <2>1. Len(T) + 1 = L /\ L \in 1 .. L
    BY <1>1
  <2>2. After(next, T, Len(T) + 1).frame = After(peer, in, Len(in) + 1).frame
    BY <1>5, <2>1 DEF L
  <2> QED
    BY <1>8, <2>2 DEF Placed
<1> QED
  BY <1>6, <1>7, <1>8 DEF T

\* What a step of one connection leaves alone.
LEMMA OtherConns ==
  ASSUME PublisherInv, ChainInv, ConnInv, Next, PublisherInv', NEW c \in Conns, HandlerStep(c) \/ ClientStep(c),
         peers' \in [Conns -> Peer], shown' \in [Conns -> Frame \cup {None}],
         \A d \in Conns \ {c} : /\ subs'[d] = subs[d] /\ peers'[d] = peers[d] /\ inbox'[d] = inbox[d]
                                /\ controls'[d] = controls[d] /\ shown'[d] = shown[d],
         Linked(peers'[c], inbox'[c], shown'[c], Newest),
         Piped(subs'[c], peers'[c], inbox'[c], controls'[c]),
         Placed(subs'[c], peers'[c], inbox'[c], payloads, history, stream, sequence, frame)
  PROVE  ConnInv'
<1>1. UNCHANGED <<source, frame, stream, sequence, history, full, streams, work>>
  BY DEF HandlerStep, ClientStep, Register, Accept, Hello, StartWrite, AskFull, FinishWrite, StartHeartbeat,
     ReadControl, Expire, Leave, Receive, AnswerHeartbeat, LoseConnection, Disconnect, publisherVars
<1>2. Newest' = Newest
  BY <1>1 DEF Newest
<1>3. ~Admit
  <2>1. Admit => work.pc = "admit" /\ work'.pc = "install"
    BY DEF Admit, PublisherInv, TypeInv, Work
  <2> QED
    BY <1>1, <2>1
<1>4. \A n \in DOMAIN history : SameContents(payloads[history[n]], payloads'[history[n]])
  <2>1. \A n \in DOMAIN history : history[n] \in Held(history', full', work'.id)
    BY <1>1 DEF Held, ToSet
  <2> QED
    BY <1>3, <2>1, HeldContents
<1>5. ASSUME NEW d \in Conns
      PROVE  /\ Linked(peers'[d], inbox'[d], shown'[d], Newest)
             /\ Piped(subs'[d], peers'[d], inbox'[d], controls'[d])
             /\ Placed(subs'[d], peers'[d], inbox'[d], payloads', history, stream, sequence, frame)
  <2>1. /\ Linked(peers'[d], inbox'[d], shown'[d], Newest)
        /\ Piped(subs'[d], peers'[d], inbox'[d], controls'[d])
        /\ Placed(subs'[d], peers'[d], inbox'[d], payloads, history, stream, sequence, frame)
    <3>1. CASE d = c
      BY <3>1
    <3>2. CASE d # c
      <4>1. /\ subs'[d] = subs[d] /\ peers'[d] = peers[d] /\ inbox'[d] = inbox[d]
            /\ controls'[d] = controls[d] /\ shown'[d] = shown[d]
        BY <3>2
      <4> QED
        BY <4>1 DEF ConnInv
    <3> QED
      BY <3>1, <3>2
  <2> QED
    BY <1>4, <2>1, PlacedSame
<1> QED
  BY <1>1, <1>2, <1>5 DEF ConnInv

\* The types of one connection.
LEMMA ConnTypes ==
  ASSUME PublisherInv, ConnInv, NEW c \in Conns
  PROVE  /\ SubsOK(subs) /\ SubOK(subs[c]) /\ DOMAIN subs = Conns
         /\ peers \in [Conns -> Peer] /\ peers[c] \in Peer
         /\ shown \in [Conns -> Frame \cup {None}] /\ shown[c] \in Frame \cup {None}
         /\ DOMAIN inbox = Conns /\ inbox[c] \in Seq(Publication \cup Beat)
         /\ DOMAIN controls = Conns /\ controls[c] \in Seq(Ack \cup Beat)
         /\ Linked(peers[c], inbox[c], shown[c], Newest)
         /\ Piped(subs[c], peers[c], inbox[c], controls[c])
         /\ Placed(subs[c], peers[c], inbox[c], payloads, history, stream, sequence, frame)
         /\ source \in Frame /\ Newest \in Nat
<1>1. SubsOK(subs) /\ inbox \in [Conns -> Seq(Publication \cup Beat)] /\ controls \in [Conns -> Seq(Ack \cup Beat)]
      /\ source \in Frame /\ frame \in Frame \cup {None} /\ work.frame \in Frame \cup {None}
  BY DEF PublisherInv, TypeInv, SocketInv, Work
<1>2. Newest \in Nat
  BY <1>1, Versions DEF Newest
<1> QED
  BY <1>1, <1>2 DEF SubsOK, ConnInv

\* The step of a client that takes a message.
Takes(c, next, sh2, a) ==
  /\ a \in Ack \cup Beat /\ next \in Peer /\ sh2 \in Frame \cup {None}
  /\ Answers(peers[c], next, inbox[c], shown[c], sh2, a)
  /\ controls' = IF subs[c].pc = "ready" /\ ~subs[c].broken THEN [controls EXCEPT ![c] = Append(@, a)] ELSE controls
  /\ peers' = [peers EXCEPT ![c] = next] /\ shown' = [shown EXCEPT ![c] = sh2]

\* The client takes a message from its socket.
LEMMA ReceiveConn ==
  ASSUME PublisherInv, ChainInv, ConnInv, Next, PublisherInv', NEW c \in Conns,
         (Receive(c) /\ ~Disconnect(c)) \/ AnswerHeartbeat(c)
  PROVE  ConnInv'
<1> DEFINE in == inbox[c]
           e == Head(in)
           s == subs[c]
           In == Publication \cup Beat
           Out == Ack \cup Beat
<1>1. /\ SubOK(s) /\ peers \in [Conns -> Peer] /\ peers[c] \in Peer
      /\ shown \in [Conns -> Frame \cup {None}] /\ shown[c] \in Frame \cup {None}
      /\ DOMAIN inbox = Conns /\ in \in Seq(In) /\ DOMAIN controls = Conns /\ controls[c] \in Seq(Out)
      /\ Linked(peers[c], in, shown[c], Newest) /\ Piped(s, peers[c], in, controls[c])
      /\ Placed(s, peers[c], in, payloads, history, stream, sequence, frame)
      /\ source \in Frame /\ Newest \in Nat
  BY ConnTypes
<1>2. /\ peers[c].on /\ in # <<>> /\ subs' = subs
      /\ inbox' = [inbox EXCEPT ![c] = Tail(@)]
  BY DEF Receive, AnswerHeartbeat
<1>3. e = in[1] /\ e \in In /\ in[1] \in In /\ 1 \in DOMAIN in
  <2> HIDE DEF In
  <2> QED
    BY <1>1, <1>2
<1>4. ASSUME NEW a, NEW next, NEW sh2, Takes(c, next, sh2, a)
      PROVE  ConnInv'
  <2>10. /\ a \in Ack \cup Beat /\ next \in Peer /\ sh2 \in Frame \cup {None}
         /\ Answers(peers[c], next, inbox[c], shown[c], sh2, a)
         /\ peers' = [peers EXCEPT ![c] = next] /\ shown' = [shown EXCEPT ![c] = sh2]
    BY <1>4 DEF Takes
  <2>11. controls' = IF s.pc = "ready" /\ ~s.broken THEN [controls EXCEPT ![c] = Append(controls[c], a)] ELSE controls
    BY <1>4 DEF Takes
  <2>12. controls'[c] = IF s.pc = "ready" /\ ~s.broken THEN Append(controls[c], a) ELSE controls[c]
    <3> HIDE DEF s
    <3> QED
      BY <1>1, <2>11
  <2>13. inbox'[c] = Tail(in)
    BY <1>1, <1>2
  <2>0. /\ controls'[c] = IF s.pc = "ready" /\ ~s.broken THEN Append(controls[c], a) ELSE controls[c]
        /\ inbox'[c] = Tail(in)
    BY <2>12, <2>13
  <2>1. /\ peers'[c] = next /\ shown'[c] = sh2
        /\ peers' \in [Conns -> Peer] /\ shown' \in [Conns -> Frame \cup {None}]
    BY <1>1, <2>10
  <2>2. \A d \in Conns \ {c} : /\ subs'[d] = subs[d] /\ peers'[d] = peers[d] /\ inbox'[d] = inbox[d]
                               /\ controls'[d] = controls[d] /\ shown'[d] = shown[d]
    BY <1>1, <1>2, <2>10, <2>11
  <2> DEFINE n == Newest
             ctl2 == controls'[c]
             p == peers[c]
  <2>3. n \in Nat /\ Linked(p, in, shown[c], n) /\ p.on
        /\ ctl2 = IF s.pc = "ready" /\ ~s.broken THEN Append(controls[c], a) ELSE controls[c]
    BY <1>1, <1>2, <2>0
  <2>4. /\ Answers(p, next, in, shown[c], sh2, a)
        /\ Piped(s, p, in, controls[c]) /\ Placed(s, p, in, payloads, history, stream, sequence, frame)
    BY <1>1, <2>10
  <2>8. in \in Seq(Publication \cup Beat) /\ in # <<>> /\ SubOK(s) /\ controls[c] \in Seq(Ack \cup Beat)
        /\ a \in Ack \cup Beat /\ shown[c] \in Frame \cup {None} /\ sh2 \in Frame \cup {None}
    BY <1>1, <1>2, <2>10
  <2> HIDE DEF n, ctl2, p, s, e, in, In, Out
  <2>9. Taken(s, p, next, in, controls[c], ctl2, a, shown[c], sh2, n)
    BY <2>3, <2>4, <2>8 DEF Taken
  <2>5. /\ Linked(next, Tail(in), sh2, n)
        /\ Piped(s, next, Tail(in), ctl2)
        /\ \A ps, h, st, sq, f : Placed(s, p, in, ps, h, st, sq, f) => Placed(s, next, Tail(in), ps, h, st, sq, f)
    BY <2>9, Consume
  <2>6. Placed(s, next, Tail(in), payloads, history, stream, sequence, frame)
    BY <2>4, <2>5
  <2>7. HandlerStep(c) \/ ClientStep(c)
    BY DEF ClientStep
  <2> QED
    BY <1>2, <2>0, <2>1, <2>2, <2>5, <2>6, <2>7, OtherConns DEF n, ctl2, s, in
<1>5. CASE Receive(c) /\ ~Disconnect(c)
  <2> DEFINE topology == IF peers[c].topology = e.frame.project THEN peers[c].topology ELSE source.project
             p == peers[c]
             u == [p EXCEPT !.stream = e.stream, !.sequence = e.sequence]
             v == Applied(p, e)
             next == [u EXCEPT !.frame = v, !.topology = topology]
             a == [kind |-> "ack", stream |-> e.stream, sequence |-> e.sequence]
  <2>1. /\ peers' = [peers EXCEPT ![c].stream = e.stream, ![c].sequence = e.sequence,
                                  ![c].frame = Applied(peers[c], e), ![c].topology = topology]
        /\ shown' = [shown EXCEPT ![c] = e.frame]
        /\ controls' = IF s.pc = "ready" /\ ~s.broken THEN [controls EXCEPT ![c] = Append(@, a)] ELSE controls
        /\ e.kind # "heartbeat"
    BY <1>5 DEF Receive
  <2>2. e \in Publication /\ ~IsBeat(in[1])
    BY <1>3, <2>1 DEF Beat, IsBeat
  <2>3. Applied(p, e) = e.frame
    <3>1. Follows(e, After(p, in, 1), Latest(in, shown[c], 1)) /\ After(p, in, 1) = p
      BY <1>1, <1>3, <2>2 DEF Linked, After
    <3> QED
      BY <2>2, <3>1 DEF Follows, Applied, Publication
  <2>4. topology \in 0 .. MaxSource
    BY <1>1 DEF Peer, Frame
  <2>5. e.stream \in 0 .. MaxStream /\ e.sequence \in 0 .. MaxCounter /\ e.frame \in Frame /\ a \in Out
    BY <2>2, IdsFinite DEF Publication, Ack
  <2>6. peers' = [peers EXCEPT ![c] = next]
    BY <1>1, <2>1
  <2> HIDE DEF topology, v
  <2>7. u \in Peer /\ u.stream = e.stream /\ u.sequence = e.sequence /\ u.on = p.on /\ u.contract = p.contract
    BY <1>1, <2>5 DEF Peer
  <2> HIDE DEF u
  <2>8. next \in Peer /\ next.stream = e.stream /\ next.sequence = e.sequence /\ next.on = p.on /\ next.contract = p.contract
        /\ next.frame = e.frame
    BY <2>3, <2>4, <2>5, <2>7 DEF Peer, v
  <2>9. ~IsBeat(a) /\ a.stream = e.stream /\ a.sequence = e.sequence
    BY DEF IsBeat
  <2> HIDE DEF next, a
  <2>10. Answers(p, next, in, shown[c], e.frame, a)
    BY <1>2, <1>3, <2>2, <2>8, <2>9 DEF Answers
  <2>11. Takes(c, next, e.frame, a)
    BY <2>1, <2>5, <2>6, <2>8, <2>10 DEF Takes
  <2> QED
    BY <1>4, <2>11
<1>6. CASE AnswerHeartbeat(c)
  <2>1. /\ e.kind = "heartbeat" /\ peers' = peers /\ shown' = shown
        /\ controls' = IF s.pc = "ready" /\ ~s.broken THEN [controls EXCEPT ![c] = Append(@, e)] ELSE controls
    BY <1>6 DEF AnswerHeartbeat
  <2>2. IsBeat(e) /\ e \in Out /\ e.token = in[1].token
    BY <1>3, <2>1 DEF IsBeat, Publication
  <2>3. peers' = [peers EXCEPT ![c] = peers[c]] /\ shown' = [shown EXCEPT ![c] = shown[c]]
    BY <1>1, <2>1
  <2> QED
    <3>1. Answers(peers[c], peers[c], in, shown[c], shown[c], e)
      BY <1>2, <1>3, <2>2 DEF Answers
    <3>2. Takes(c, peers[c], shown[c], e)
      BY <1>1, <2>1, <2>2, <2>3, <3>1 DEF Takes
    <3> QED
      BY <1>4, <3>2
<1> QED
  BY <1>5, <1>6

\* The answer that a handler reads next is the one it waits for.
LEMMA HeadExpected ==
  ASSUME PublisherInv, ConnInv, NEW c \in Conns, subs[c].pc = "ready", controls[c] # <<>>
  PROVE  LET m == Head(controls[c])
             s == subs[c]
         IN  /\ ~InvalidControl(c, m)
             /\ s.heartbeat # 0 => m.kind = "heartbeat"
             /\ s.heartbeat = 0 => m.kind # "heartbeat" /\ ~Repeated(c, m) /\ SentIndexes(c, m) # {} /\ Min(SentIndexes(c, m)) = 1
                                   /\ 1 \in DOMAIN s.sent
<1> DEFINE m == Head(controls[c])
           s == subs[c]
<1>1. /\ SubsOK(subs) /\ SubOK(s) /\ controls[c] \in Seq(Ack \cup Beat) /\ Piped(s, peers[c], inbox[c], controls[c])
  BY ConnTypes
<1>2. m = controls[c][1] /\ 1 \in DOMAIN controls[c] /\ m \in Ack \cup Beat
  <2> DEFINE Out == Ack \cup Beat
  <2>1. controls[c] \in Seq(Out)
    BY <1>1
  <2> HIDE DEF Out
  <2>2. m = controls[c][1] /\ 1 \in DOMAIN controls[c] /\ m \in Out
    BY <2>1
  <2> QED
    BY <2>2 DEF Out
<1>3. Expected(s, m, 1)
  BY <1>1, <1>2 DEF Piped
<1> HIDE DEF m
<1>4. CASE s.heartbeat # 0
  <2>1. IsBeat(m) /\ m.token = s.heartbeat
    BY <1>3, <1>4 DEF Expected, Waits
  <2> QED
    BY <1>4, <2>1 DEF IsBeat, InvalidControl, m
<1>5. CASE s.heartbeat = 0
  <2>1. ~IsBeat(m) /\ 1 \in DOMAIN s.sent /\ m.stream = s.sent[1].stream /\ m.sequence = s.sent[1].sequence
    BY <1>3, <1>5 DEF Expected, Waits
  <2>2. 1 \in SentIndexes(c, m)
    BY <2>1 DEF SentIndexes
  <2>3. Min(SentIndexes(c, m)) = 1
    <3> DEFINE i == Min(SentIndexes(c, m))
    <3>1. i \in 1 .. Len(s.sent) /\ i <= 1
      BY <1>1, <2>2, SentFound
    <3>2. Len(s.sent) \in Nat
      BY <1>1 DEF SubOK
    <3> HIDE DEF i
    <3>3. i = 1
      BY <3>1, <3>2
    <3> QED
      BY <3>3 DEF i
  <2>4. ~Repeated(c, m)
    <3>1. Earlier(s.lastACK, s.sent[1])
      BY <1>1, <2>1 DEF Piped, Ordered
    <3>2. s.lastACK \in Sent /\ s.sent[1] \in Sent
      BY <1>1, <2>1 DEF SubOK
    <3>3. s.lastACK.stream \in Nat /\ s.lastACK.sequence \in Nat
      BY <3>2, IdsFinite DEF Sent
    <3> QED
      BY <2>1, <3>1, <3>3 DEF Earlier, Repeated
  <2>5. m.kind # "heartbeat"
    BY <2>1 DEF IsBeat
  <2> HIDE DEF s
  <2>6. ~InvalidControl(c, m)
    BY <2>2, <2>5 DEF InvalidControl
  <2> QED
    BY <1>5, <2>1, <2>2, <2>3, <2>4, <2>5, <2>6 DEF m, s
<1> QED
  BY <1>4, <1>5

\* The handler reads an answer.
LEMMA ReadControlConn ==
  ASSUME PublisherInv, ChainInv, ConnInv, Next, PublisherInv', NEW c \in Conns, ReadControl(c)
  PROVE  ConnInv'
<1> DEFINE s == subs[c]
           t == subs'[c]
           ctl == controls[c]
           in == inbox[c]
           T == Tail(ctl)
           M == Len(ctl)
           m == Head(ctl)
<1>1. /\ SubsOK(subs) /\ SubOK(s) /\ peers \in [Conns -> Peer] /\ shown \in [Conns -> Frame \cup {None}]
      /\ DOMAIN controls = Conns /\ ctl \in Seq(Ack \cup Beat) /\ in \in Seq(Publication \cup Beat)
      /\ Linked(peers[c], in, shown[c], Newest)
      /\ Piped(s, peers[c], in, ctl)
      /\ Placed(s, peers[c], in, payloads, history, stream, sequence, frame)
  BY ConnTypes
<1>2. s.pc = "ready" /\ ~s.broken /\ ctl # <<>> /\ controls' = [controls EXCEPT ![c] = Tail(@)] /\ UNCHANGED <<peers, inbox, shown>>
  BY DEF ReadControl
<1>3. /\ subs' = [subs EXCEPT ![c] = t]
      /\ t.pc = s.pc /\ t.contract = s.contract /\ t.stream = s.stream /\ t.sequence = s.sequence
      /\ \/ s.heartbeat # 0 /\ t.heartbeat = 0 /\ t.sent = s.sent /\ t.lastACK = s.lastACK
         \/ s.heartbeat = 0 /\ t.heartbeat = 0 /\ 1 \in DOMAIN s.sent /\ t.lastACK = s.sent[1] /\ t.sent = SubSeq(s.sent, 2, Len(s.sent))
      /\ t.broken = s.broken
  <2> HIDE DEF s, t
  <2>1. /\ subs' = [subs EXCEPT ![c] = t]
        /\ t.pc = s.pc /\ t.contract = s.contract /\ t.stream = s.stream /\ t.sequence = s.sequence
    BY ReadControlSub DEF s, t
  <2>2. /\ ~InvalidControl(c, m) /\ (s.heartbeat # 0 => m.kind = "heartbeat")
        /\ s.heartbeat = 0 => m.kind # "heartbeat" /\ ~Repeated(c, m) /\ Min(SentIndexes(c, m)) = 1 /\ 1 \in DOMAIN s.sent
    BY <1>2, HeadExpected DEF s
  <2>3. /\ t.broken = s.broken
        /\ \/ m.kind = "heartbeat" /\ t.heartbeat = 0 /\ t.sent = s.sent /\ t.lastACK = s.lastACK
           \/ m.kind # "heartbeat" /\ Repeated(c, m)
           \/ /\ m.kind # "heartbeat" /\ ~Repeated(c, m) /\ t.heartbeat = s.heartbeat
              /\ t.lastACK = s.sent[Min(SentIndexes(c, m))]
              /\ t.sent = SubSeq(s.sent, Min(SentIndexes(c, m)) + 1, Len(s.sent))
    BY <2>2, ReadControlSub DEF s, t
  <2>4. CASE s.heartbeat # 0
    BY <2>1, <2>2, <2>3, <2>4
  <2>5. CASE s.heartbeat = 0
    <3>1. t.heartbeat = 0 /\ t.lastACK = s.sent[1] /\ t.sent = SubSeq(s.sent, 1 + 1, Len(s.sent)) /\ 1 \in DOMAIN s.sent
      BY <2>2, <2>3, <2>5
    <3> QED
      BY <2>1, <2>3, <2>5, <3>1
  <2> QED
    BY <2>4, <2>5
<1>4. /\ M \in Nat /\ M >= 1 /\ DOMAIN ctl = 1 .. M /\ DOMAIN T = 1 .. (M - 1) /\ Len(T) = M - 1
      /\ \A n \in 1 .. (M - 1) : T[n] = ctl[n + 1] /\ n + 1 \in DOMAIN ctl
      /\ s.sent \in Seq(Sent) /\ Len(in) \in Nat
  <2>1. ctl \in Seq(Ack \cup Beat) /\ ctl # <<>> /\ s.sent \in Seq(Sent) /\ Len(in) \in Nat
    BY <1>1, <1>2 DEF SubOK
  <2> HIDE DEF s, in
  <2> QED
    BY <2>1
<1>5. controls'[c] = T
  BY <1>1, <1>2
<1>6. SubOK(t)
  BY ReadControlSub DEF SubsOK
<1> HIDE DEF T, M, m, ctl, in, s, t
\* One answer less, with what it answers.
<1>7. /\ Waits(t) = 0 /\ Len(t.sent) \in Nat
      /\ Waits(s) + Len(s.sent) = 1 + Len(t.sent)
      /\ \A e, n : n \in Nat /\ n >= 1 /\ Expected(s, e, n + 1) => Expected(t, e, n)
      /\ Ordered(t)
  <2>1. CASE s.heartbeat # 0
    <3>1. Waits(s) = 1 /\ Waits(t) = 0 /\ t.sent = s.sent /\ t.lastACK = s.lastACK
      BY <1>3, <2>1 DEF Waits
    <3>2. ASSUME NEW e, NEW n \in Nat, n >= 1, Expected(s, e, n + 1) PROVE Expected(t, e, n)
      <4>1. ~(n + 1 <= 1) /\ ~(n <= 0) /\ (n + 1) - 1 = n /\ n - 0 = n
        BY <3>2
      <4> QED
        BY <3>1, <3>2, <4>1 DEF Expected
    <3>3. Ordered(t)
      BY <1>1, <1>3, <3>1 DEF Piped, Ordered
    <3>4. Len(t.sent) \in Nat
      BY <1>4, <3>1
    <3> QED
      BY <3>1, <3>2, <3>3, <3>4
  <2>2. CASE s.heartbeat = 0
    <3> DEFINE N == Len(s.sent)
    <3>1. Waits(s) = 0 /\ Waits(t) = 0 /\ t.sent = SubSeq(s.sent, 2, N) /\ t.lastACK = s.sent[1] /\ 1 \in DOMAIN s.sent
      BY <1>3, <2>2 DEF Waits
    <3>2. N \in Nat /\ N >= 1 /\ Len(t.sent) = N - 1 /\ DOMAIN s.sent = 1 .. N /\ DOMAIN t.sent = 1 .. (N - 1)
          /\ \A k \in 1 .. (N - 1) : t.sent[k] = s.sent[k + 1] /\ k + 1 \in DOMAIN s.sent
      BY <1>4, <3>1
    <3> HIDE DEF N
    <3>3. ASSUME NEW e, NEW n \in Nat, n >= 1, Expected(s, e, n + 1) PROVE Expected(t, e, n)
      <4>1. ~(n + 1 <= 0) /\ ~(n <= 0) /\ (n + 1) - 0 = n + 1 /\ n - 0 = n
        BY <3>3
      <4>2. ~IsBeat(e) /\ n + 1 \in DOMAIN s.sent /\ e.stream = s.sent[n + 1].stream /\ e.sequence = s.sent[n + 1].sequence
        BY <3>1, <3>3, <4>1 DEF Expected
      <4>3. n \in 1 .. (N - 1)
        BY <3>2, <3>3, <4>2
      <4> QED
        BY <3>1, <3>2, <4>1, <4>2, <4>3 DEF Expected
    <3>4. Ordered(t)
      <4>1. Ordered(s)
        BY <1>1 DEF Piped
      <4>2. \A j, k \in DOMAIN t.sent : j < k => Earlier(t.sent[j], t.sent[k])
        <5> SUFFICES ASSUME NEW j \in 1 .. (N - 1), NEW k \in 1 .. (N - 1), j < k PROVE Earlier(t.sent[j], t.sent[k])
          BY <3>2
        <5>1. j + 1 < k + 1
          BY <3>2
        <5> QED
          BY <3>2, <4>1, <5>1 DEF Ordered
      <4>3. \A k \in DOMAIN t.sent : Earlier(t.lastACK, t.sent[k])
        <5> SUFFICES ASSUME NEW k \in 1 .. (N - 1) PROVE Earlier(s.sent[1], s.sent[k + 1])
          BY <3>1, <3>2
        <5>1. 1 < k + 1 /\ k + 1 \in DOMAIN s.sent
          BY <3>2
        <5> QED
          BY <3>1, <4>1, <5>1 DEF Ordered
      <4>4. \A k \in DOMAIN t.sent : t.sent[k].stream < t.stream \/ (t.sent[k].stream = t.stream /\ t.sent[k].sequence <= t.sequence)
        <5>1. t.stream = s.stream /\ t.sequence = s.sequence
          BY <1>3
        <5>2. ASSUME NEW k \in 1 .. (N - 1)
              PROVE  t.sent[k].stream < t.stream \/ (t.sent[k].stream = t.stream /\ t.sent[k].sequence <= t.sequence)
          <6>1. k + 1 \in DOMAIN s.sent /\ t.sent[k] = s.sent[k + 1]
            BY <3>2
          <6>2. s.sent[k + 1].stream < s.stream \/ (s.sent[k + 1].stream = s.stream /\ s.sent[k + 1].sequence <= s.sequence)
            BY <4>1, <6>1 DEF Ordered
          <6> HIDE DEF s, t
          <6> QED
            BY <5>1, <6>1, <6>2
        <5>3. DOMAIN t.sent = 1 .. (N - 1)
          BY <3>2
        <5> HIDE DEF s, t
        <5> QED
          BY <5>2, <5>3
      <4>5. t.lastACK.stream < t.stream \/ (t.lastACK.stream = t.stream /\ t.lastACK.sequence <= t.sequence)
        BY <1>3, <3>1, <4>1 DEF Ordered
      <4> QED
        BY <4>2, <4>3, <4>4, <4>5 DEF Ordered
    <3>5. Waits(s) + Len(s.sent) = 1 + Len(t.sent) /\ Len(t.sent) \in Nat
      <4>1. Len(s.sent) = N
        BY DEF N
      <4> QED
        BY <3>1, <3>2, <4>1
    <3> QED
      BY <3>1, <3>3, <3>4, <3>5
  <2> QED
    BY <2>1, <2>2
<1>8. Piped(t, peers[c], in, T)
  <2>1. /\ s.contract = peers[c].contract
        /\ M + Len(in) = Waits(s) + Len(s.sent)
        /\ \A n \in DOMAIN in : Expected(s, in[n], M + n)
        /\ \A n \in DOMAIN ctl : Expected(s, ctl[n], n)
        /\ s.stream = After(peers[c], in, Len(in) + 1).stream /\ s.sequence = After(peers[c], in, Len(in) + 1).sequence
        /\ peers[c].on
    BY <1>1, <1>2 DEF Piped, M
  <2>2. \A n \in DOMAIN T : Expected(t, T[n], n)
    <3> SUFFICES ASSUME NEW n \in 1 .. (M - 1) PROVE Expected(t, T[n], n)
      BY <1>4
    <3>1. n \in Nat /\ n >= 1 /\ T[n] = ctl[n + 1] /\ n + 1 \in DOMAIN ctl
      BY <1>4
    <3> QED
      BY <1>7, <2>1, <3>1
  <2>3. ASSUME NEW n \in DOMAIN in PROVE Expected(t, in[n], Len(T) + n)
    <3>1. n \in Nat /\ n >= 1
      BY <1>1
    <3>2. Len(T) + n \in Nat /\ Len(T) + n >= 1 /\ (Len(T) + n) + 1 = M + n
      <4>1. Len(T) = M - 1 /\ M \in Nat /\ M >= 1
        BY <1>4
      <4> QED
        BY <3>1, <4>1
    <3>3. Expected(s, in[n], (Len(T) + n) + 1)
      BY <2>1, <3>2
    <3> QED
      BY <1>7, <3>2, <3>3
  <2>4. Len(T) + Len(in) = Waits(t) + Len(t.sent)
    <3> DEFINE w == Waits(s) + Len(s.sent)
               N == Len(t.sent)
               I == Len(in)
    <3>1. M + I = w /\ w = 1 + N /\ N \in Nat /\ I \in Nat /\ M \in Nat /\ Waits(t) = 0 /\ Len(T) = M - 1
      BY <1>4, <1>7, <2>1
    <3> HIDE DEF w, N, I
    <3>2. Len(T) + I = 0 + N
      BY <3>1
    <3> QED
      BY <3>1, <3>2 DEF N, I
  <2> QED
    BY <1>2, <1>3, <1>7, <2>1, <2>2, <2>3, <2>4 DEF Piped
<1>9. Placed(t, peers[c], in, payloads, history, stream, sequence, frame)
  BY <1>1, <1>3 DEF Placed
<1>10. \A d \in Conns \ {c} : subs'[d] = subs[d] /\ controls'[d] = controls[d]
  BY <1>1, <1>2, <1>3
<1>11. HandlerStep(c) \/ ClientStep(c)
  BY DEF HandlerStep
<1> QED
  BY <1>1, <1>2, <1>5, <1>8, <1>9, <1>10, <1>11, OtherConns DEF in, t

\* The payload that a handler sends next follows what it sent before.
LEMMA NextFollows ==
  ASSUME PublisherInv, ChainInv, NEW c \in Conns, MaySend(c), NEW i \in NextPayload(c),
         NEW peer, NEW in, Placed(subs[c], peer, in, payloads, history, stream, sequence, frame)
  PROVE  LET b == payloads[i]
             s == subs[c]
         IN  /\ sequence # 0 /\ stream # 0 /\ frame \in Frame /\ frame # None /\ frame.contract = s.contract
             /\ b.stream = stream /\ b.sequence <= sequence
             /\ s.stream < stream \/ (s.stream = stream /\ s.sequence < b.sequence)
             /\ \/ b.kind = "full" /\ b.sequence = sequence /\ b.frame = frame
                \/ /\ b.kind = "delta" /\ s.stream = stream /\ b.sequence = s.sequence + 1 /\ b.base = s.sequence
                   /\ b.from \in Frame /\ SameChain(b.from, b.frame) /\ SameChain(b.frame, frame) /\ b.from.version <= b.frame.version
                   /\ (s.pc = "ready" /\ ~s.broken) => b.from = After(peer, in, Len(in) + 1).frame
             /\ b.frame.version <= frame.version /\ b.frame.contract = frame.contract
             /\ b.sequence = sequence => b.frame = frame
             /\ \A n \in DOMAIN history : payloads[history[n]].sequence = b.sequence + 1 => payloads[history[n]].from = b.frame
<1> DEFINE b == payloads[i]
           s == subs[c]
           L == Len(history)
<1>1. /\ sequence \in Nat /\ stream \in Nat /\ s.stream \in Nat /\ s.sequence \in Nat /\ history \in Seq(Ids)
      /\ frame \in Frame \cup {None} /\ L \in Nat /\ DOMAIN history = 1 .. L
  BY IdsFinite DEF PublisherInv, TypeInv, SubsOK, SubOK
<1>2. HistoryOK(payloads, history, full, stream, sequence, frame)
  BY DEF ChainInv
<1>3. sequence # 0
  BY <1>2 DEF HistoryOK, NextPayload, NextDeltas, CachedFull, ToSet
<1>4. stream # 0 /\ frame \in Frame /\ frame # None /\ frame.contract = s.contract /\ frame.version \in Nat
  BY <1>1, <1>3, Versions DEF PublisherInv, WorkInv, MaySend
<1>5. s.stream <= stream /\ (s.stream = stream => s.sequence <= sequence)
  BY DEF Placed
<1>6. CASE i = full /\ NextDeltas(c) = {}
  <2>1. b.kind = "full" /\ b.stream = stream /\ b.sequence = sequence /\ b.frame = frame
    BY <1>2, <1>6, ChosenPayload DEF HistoryOK
  <2>2. ~(s.stream = stream /\ s.sequence = sequence)
    BY DEF MaySend, Current
  <2>3. s.stream < stream \/ (s.stream = stream /\ s.sequence < b.sequence)
    BY <1>1, <1>5, <2>1, <2>2
  <2>4. ASSUME NEW n \in DOMAIN history, payloads[history[n]].sequence = b.sequence + 1 PROVE FALSE
    <3>1. payloads[history[n]].sequence = (sequence - L) + n
      BY <1>2 DEF HistoryOK, DeltaOK
    <3> HIDE DEF L, b
    <3> QED
      BY <1>1, <2>1, <2>4, <3>1
  <2> QED
    BY <1>3, <1>4, <1>1, <2>1, <2>3, <2>4
<1>7. CASE i \in NextDeltas(c)
  <2>1. PICK m \in DOMAIN history : i = history[m]
    BY <1>7 DEF NextDeltas, ToSet
  <2>2. s.stream = stream /\ b.sequence = s.sequence + 1
    BY <1>7 DEF NextDeltas
  <2>3. DeltaOK(b, m, L, stream, sequence, frame)
    BY <1>2, <2>1 DEF HistoryOK
  <2>4. /\ b.kind = "delta" /\ b.stream = stream /\ b.sequence = (sequence - L) + m /\ b.base + 1 = b.sequence
        /\ b.from \in Frame /\ SameChain(b.from, b.frame) /\ SameChain(b.frame, frame)
        /\ b.from.version <= b.frame.version /\ b.frame.version <= frame.version
    BY <2>3 DEF DeltaOK
  <2>5. b.base = s.sequence
    <3>1. b.base \in Nat
      BY ChosenPayload, IdsFinite DEF Payload
    <3> HIDE DEF b
    <3> QED
      BY <1>1, <2>2, <2>4, <3>1
  <2>6. b.sequence <= sequence /\ s.sequence < b.sequence /\ m \in Nat
    <3> HIDE DEF b, L
    <3> QED
      BY <1>1, <2>2, <2>4
  <2>7. b.frame.contract = frame.contract
    BY <2>4 DEF SameChain
  <2>8. (s.pc = "ready" /\ ~s.broken) => b.from = After(peer, in, Len(in) + 1).frame
    BY <1>4, <2>1, <2>2 DEF Placed
  <2>9. b.sequence = sequence => b.frame = frame
    <3> SUFFICES ASSUME b.sequence = sequence PROVE b.frame = frame
      OBVIOUS
    <3>1. m = L /\ history # <<>>
      <4> DEFINE q == b.sequence
      <4>1. q = (sequence - L) + m /\ q = sequence
        BY <2>4
      <4> HIDE DEF q, b, L
      <4>2. m = L
        BY <1>1, <2>6, <4>1
      <4> QED
        BY <4>2, <2>1
    <3> QED
      BY <1>2, <2>1, <3>1 DEF HistoryOK
  <2>10. ASSUME NEW n \in DOMAIN history, payloads[history[n]].sequence = b.sequence + 1
         PROVE  payloads[history[n]].from = b.frame
    <3>1. payloads[history[n]].sequence = (sequence - L) + n
      BY <1>2 DEF HistoryOK, DeltaOK
    <3>2. n = m + 1 /\ n > 1 /\ n - 1 = m
      <4> DEFINE q == b.sequence
                 r == payloads[history[n]].sequence
      <4>1. q = (sequence - L) + m /\ r = (sequence - L) + n /\ r = q + 1
        BY <2>4, <2>10, <3>1
      <4>2. n \in Nat /\ m >= 1
        BY <1>1, <2>1
      <4> HIDE DEF q, r, b, L
      <4> QED
        BY <1>1, <2>6, <4>1, <4>2
    <3> QED
      BY <1>2, <2>1, <3>2 DEF HistoryOK
  <2> HIDE DEF L
  <2> QED
    BY <1>3, <1>4, <2>2, <2>4, <2>5, <2>6, <2>7, <2>8, <2>9, <2>10
<1>8. i \in NextDeltas(c) \/ (i = full /\ NextDeltas(c) = {})
  BY DEF NextPayload, CachedFull
<1> QED
  BY <1>6, <1>7, <1>8

\* The payload under write.
LEMMA SendingWriting == ASSUME NEW s, SubOK(s), NEW i, NEW b PROVE Sending(s, i, b).writing = i
<1> DEFINE n == Sending(s, i, b)
<1>1. /\ DOMAIN n = SubFields
      /\ n.pc = s.pc /\ n.broken = s.broken /\ n.contract = s.contract /\ n.stream = b.stream
      /\ n.sequence = b.sequence /\ n.writing = i /\ n.lastACK = s.lastACK
      /\ n.heartbeat = s.heartbeat /\ n.heartbeats = s.heartbeats /\ n.bytes = s.bytes + b.size
      /\ n.sent = Append(s.sent, [stream |-> b.stream, sequence |-> b.sequence, bytes |-> b.size])
  BY SendingFields
<1> QED
  BY <1>1

\* The handler starts a write.
LEMMA StartWriteConn ==
  ASSUME PublisherInv, ChainInv, ConnInv, Next, PublisherInv', NEW c \in Conns, StartWrite(c)
  PROVE  ConnInv'
<1> DEFINE s == subs[c]
           t == subs'[c]
           in == inbox[c]
           ctl == controls[c]
           p == peers[c]
           sh == shown[c]
           N == Len(s.sent)
           L == Len(in)
<1>1. /\ SubsOK(subs) /\ SubOK(s) /\ DOMAIN subs = Conns
      /\ peers \in [Conns -> Peer] /\ shown \in [Conns -> Frame \cup {None}] /\ sh \in Frame \cup {None}
      /\ DOMAIN inbox = Conns /\ in \in Seq(Publication \cup Beat) /\ ctl \in Seq(Ack \cup Beat)
      /\ Linked(p, in, sh, Newest) /\ Piped(s, p, in, ctl)
      /\ Placed(s, p, in, payloads, history, stream, sequence, frame)
  BY ConnTypes
<1>2. MaySend(c) /\ UNCHANGED <<peers, controls, shown>> /\ s.pc = "ready"
  BY DEF StartWrite, MaySend
<1>3. PICK i \in NextPayload(c) :
        /\ subs' = [subs EXCEPT ![c] = Sending(s, i, payloads[i])] /\ t.writing = i
  BY StartWriteSub
<1> DEFINE b == payloads[i]
           x == [stream |-> b.stream, sequence |-> b.sequence, bytes |-> b.size]
           e == [kind |-> b.kind, stream |-> b.stream, sequence |-> b.sequence, base |-> b.base, from |-> b.from, frame |-> b.frame]
<1>4. /\ t.pc = s.pc /\ t.broken = s.broken /\ t.contract = s.contract /\ t.stream = b.stream /\ t.sequence = b.sequence
      /\ t.lastACK = s.lastACK /\ t.heartbeat = s.heartbeat /\ t.sent = Append(s.sent, x)
  <2>1. t = Sending(s, i, b)
    BY <1>1, <1>3
  <2> HIDE DEF s, t, b
  <2> QED
    BY <1>1, <2>1, SendingFields
<1>5. inbox' = IF p.on /\ ~s.broken THEN [inbox EXCEPT ![c] = Append(@, e)] ELSE inbox
  <2>1. PICK j \in NextPayload(c) :
           /\ subs' = [subs EXCEPT ![c].writing = j, ![c].stream = payloads[j].stream, ![c].sequence = payloads[j].sequence,
                                   ![c].bytes = @ + payloads[j].size,
                                   ![c].sent = Append(@, [stream |-> payloads[j].stream, sequence |-> payloads[j].sequence, bytes |-> payloads[j].size])]
           /\ inbox' = IF peers[c].on /\ ~subs[c].broken
                       THEN [inbox EXCEPT ![c] = Append(@, [kind |-> payloads[j].kind, stream |-> payloads[j].stream, sequence |-> payloads[j].sequence,
                                                            base |-> payloads[j].base, from |-> payloads[j].from, frame |-> payloads[j].frame])]
                       ELSE inbox
    BY DEF StartWrite
  <2>2. subs' = [subs EXCEPT ![c] = Sending(s, j, payloads[j])]
    BY <1>1, <2>1 DEF Sending
  <2>3. t = Sending(s, j, payloads[j])
    BY <1>1, <2>2
  <2>4. t.writing = j
    BY <1>1, <2>3, SendingWriting
  <2> QED
    BY <1>3, <2>1, <2>4
<1>6. /\ sequence # 0 /\ stream # 0 /\ frame \in Frame /\ frame # None /\ frame.contract = s.contract
      /\ b.stream = stream /\ b.sequence <= sequence
      /\ s.stream < stream \/ (s.stream = stream /\ s.sequence < b.sequence)
      /\ \/ b.kind = "full" /\ b.sequence = sequence /\ b.frame = frame
         \/ /\ b.kind = "delta" /\ s.stream = stream /\ b.sequence = s.sequence + 1 /\ b.base = s.sequence
            /\ b.from \in Frame /\ SameChain(b.from, b.frame) /\ SameChain(b.frame, frame) /\ b.from.version <= b.frame.version
            /\ ~s.broken => b.from = After(p, in, L + 1).frame
      /\ b.frame.version <= frame.version /\ b.frame.contract = frame.contract
      /\ b.sequence = sequence => b.frame = frame
      /\ \A n \in DOMAIN history : payloads[history[n]].sequence = b.sequence + 1 => payloads[history[n]].from = b.frame
  BY <1>1, <1>2, NextFollows
<1>7. /\ b \in Payload /\ b.stream \in Nat /\ b.sequence \in Nat /\ s.stream \in Nat /\ s.sequence \in Nat
      /\ s.sent \in Seq(Sent) /\ b.frame \in Frame /\ ~IsBeat(e)
      /\ \A k \in DOMAIN s.sent : s.sent[k].stream \in Nat /\ s.sent[k].sequence \in Nat
      /\ s.lastACK.stream \in Nat /\ s.lastACK.sequence \in Nat
      /\ sequence \in Nat /\ stream \in Nat
  <2>1. b \in Payload /\ b.stream \in Nat /\ b.sequence \in Nat /\ b.frame \in Frame /\ ~IsBeat(e)
    BY ChosenPayload, IdsFinite DEF Payload, IsBeat
  <2>2. s.stream \in Nat /\ s.sequence \in Nat /\ s.sent \in Seq(Sent) /\ s.lastACK \in Sent /\ sequence \in Nat /\ stream \in Nat
    BY <1>1, IdsFinite, SMTT(30) DEF SubOK, PublisherInv, TypeInv
  <2>3. \A y \in Sent : y.stream \in Nat /\ y.sequence \in Nat
    BY IdsFinite DEF Sent
  <2>4. \A k \in DOMAIN s.sent : s.sent[k] \in Sent
    BY <2>2
  <2> QED
    BY <2>1, <2>2, <2>3, <2>4
<1>8. /\ N \in Nat /\ DOMAIN s.sent = 1 .. N /\ DOMAIN t.sent = 1 .. (N + 1) /\ Len(t.sent) = N + 1
      /\ t.sent[N + 1] = x /\ \A k \in 1 .. N : t.sent[k] = s.sent[k]
  BY <1>4, <1>7
<1>9. L \in Nat /\ DOMAIN in = 1 .. L
  BY <1>1
<1> HIDE DEF N, L, in, ctl, s, t, b, p, sh
<1>10. /\ Waits(t) = Waits(s)
       /\ \A m, n : Expected(s, m, n) => Expected(t, m, n)
  <2>1. Waits(t) = Waits(s)
    BY <1>4 DEF Waits
  <2>2. ASSUME NEW m, NEW n, Expected(s, m, n) PROVE Expected(t, m, n)
    <3>1. CASE n <= Waits(s)
      BY <1>4, <2>1, <2>2, <3>1 DEF Expected
    <3>2. CASE ~(n <= Waits(s))
      <4> DEFINE q == n - Waits(s)
      <4>1. ~IsBeat(m) /\ q \in DOMAIN s.sent /\ m.stream = s.sent[q].stream /\ m.sequence = s.sent[q].sequence
        BY <2>2, <3>2 DEF Expected
      <4>2. q \in 1 .. N
        BY <1>8, <4>1
      <4> HIDE DEF q
      <4>3. q \in DOMAIN t.sent /\ t.sent[q] = s.sent[q]
        BY <1>8, <4>2
      <4> QED
        BY <2>1, <3>2, <4>1, <4>3 DEF Expected, q
    <3> QED
      BY <3>1, <3>2
  <2> QED
    BY <2>1, <2>2
<1>11. Ordered(t)
  <2>1. Ordered(s)
    BY <1>1 DEF Piped
  <2> DEFINE now == [stream |-> b.stream, sequence |-> b.sequence]
  <2>2. ASSUME NEW y, y.stream \in Nat, y.sequence \in Nat,
               y.stream < s.stream \/ (y.stream = s.stream /\ y.sequence <= s.sequence)
        PROVE  y.stream < b.stream \/ (y.stream = b.stream /\ y.sequence < b.sequence)
    BY <1>6, <1>7, <2>2
  <2>3. ASSUME NEW k \in 1 .. N
        PROVE  s.sent[k].stream < b.stream \/ (s.sent[k].stream = b.stream /\ s.sent[k].sequence < b.sequence)
    BY <1>7, <1>8, <2>1, <2>2 DEF Ordered
  <2>4. s.lastACK.stream < b.stream \/ (s.lastACK.stream = b.stream /\ s.lastACK.sequence < b.sequence)
    BY <1>7, <2>1, <2>2 DEF Ordered
  <2>5. x.stream = b.stream /\ x.sequence = b.sequence
    OBVIOUS
  <2> HIDE DEF x
  <2>6. \A j, k \in DOMAIN t.sent : j < k => Earlier(t.sent[j], t.sent[k])
    <3> SUFFICES ASSUME NEW j \in 1 .. (N + 1), NEW k \in 1 .. (N + 1), j < k PROVE Earlier(t.sent[j], t.sent[k])
      BY <1>8
    <3>1. j \in 1 .. N /\ (k \in 1 .. N \/ k = N + 1)
      BY <1>8
    <3>2. CASE k \in 1 .. N
      BY <1>8, <2>1, <3>1, <3>2 DEF Ordered
    <3>3. CASE k = N + 1
      BY <1>8, <2>3, <2>5, <3>1, <3>3 DEF Earlier
    <3> QED
      BY <3>1, <3>2, <3>3
  <2>7. \A k \in DOMAIN t.sent : Earlier(t.lastACK, t.sent[k])
    <3> SUFFICES ASSUME NEW k \in 1 .. (N + 1) PROVE Earlier(s.lastACK, t.sent[k])
      BY <1>4, <1>8
    <3>1. k \in 1 .. N \/ k = N + 1
      BY <1>8
    <3>2. CASE k \in 1 .. N
      BY <1>8, <2>1, <3>2 DEF Ordered
    <3>3. CASE k = N + 1
      BY <1>8, <2>4, <2>5, <3>3 DEF Earlier
    <3> QED
      BY <3>1, <3>2, <3>3
  <2>8. \A k \in DOMAIN t.sent : t.sent[k].stream < t.stream \/ (t.sent[k].stream = t.stream /\ t.sent[k].sequence <= t.sequence)
    <3> SUFFICES ASSUME NEW k \in 1 .. (N + 1)
                 PROVE  t.sent[k].stream < b.stream \/ (t.sent[k].stream = b.stream /\ t.sent[k].sequence <= b.sequence)
      BY <1>4, <1>8
    <3>1. k \in 1 .. N \/ k = N + 1
      BY <1>8
    <3>2. CASE k \in 1 .. N
      <4>1. t.sent[k] = s.sent[k] /\ s.sent[k].sequence \in Nat
        BY <1>7, <1>8, <3>2
      <4> QED
        BY <1>7, <2>3, <3>2, <4>1
    <3>3. CASE k = N + 1
      BY <1>7, <1>8, <2>5, <3>3
    <3> QED
      BY <3>1, <3>2, <3>3
  <2>9. t.lastACK.stream < t.stream \/ (t.lastACK.stream = t.stream /\ t.lastACK.sequence <= t.sequence)
    BY <1>4, <1>7, <2>4
  <2> QED
    BY <2>6, <2>7, <2>8, <2>9 DEF Ordered
<1>12. \A d \in Conns \ {c} : subs'[d] = subs[d] /\ inbox'[d] = inbox[d]
  BY <1>1, <1>3, <1>5
<1>13. HandlerStep(c) \/ ClientStep(c)
  BY DEF HandlerStep
<1>14. t.stream <= stream /\ (t.stream = stream => t.sequence <= sequence)
  BY <1>4, <1>6, <1>7
<1>15. CASE s.broken
  <2>1. inbox'[c] = in
    BY <1>5, <1>15 DEF in
  <2>2. Piped(t, p, in, ctl)
    BY <1>1, <1>2, <1>4, <1>10, <1>11, <1>15 DEF Piped
  <2>3. Placed(t, p, in, payloads, history, stream, sequence, frame)
    BY <1>4, <1>14, <1>15 DEF Placed
  <2> QED
    BY <1>1, <1>2, <1>12, <1>13, <2>1, <2>2, <2>3, OtherConns DEF in, ctl, p, sh, t
<1>16. CASE ~s.broken
  <2> DEFINE new == Append(in, e)
  <2>1. /\ p.on /\ s.contract = p.contract
        /\ Len(ctl) + L = Waits(s) + N
        /\ \A n \in DOMAIN in : Expected(s, in[n], Len(ctl) + n)
        /\ \A n \in DOMAIN ctl : Expected(s, ctl[n], n)
        /\ s.stream = After(p, in, L + 1).stream /\ s.sequence = After(p, in, L + 1).sequence
    BY <1>1, <1>2, <1>16 DEF Piped, L, N
  <2>2. inbox'[c] = new
    BY <1>1, <1>5, <1>16, <2>1 DEF in
  <2>3. DOMAIN new = 1 .. (L + 1) /\ Len(new) = L + 1 /\ new[L + 1] = e /\ \A k \in 1 .. L : new[k] = in[k]
    BY <1>1, <1>9 DEF L
  <2>4. /\ e.kind = b.kind /\ e.stream = b.stream /\ e.sequence = b.sequence /\ e.base = b.base /\ e.from = b.from
        /\ e.frame = b.frame
    OBVIOUS
  <2> HIDE DEF e, new
  <2>5. After(p, new, L + 1) = After(p, in, L + 1) /\ Latest(new, sh, L + 1) = Latest(in, sh, L + 1)
    <3>1. L + 1 > 1 => (L + 1) - 1 \in 1 .. L
      BY <1>9
    <3> QED
      BY <2>3, <3>1 DEF After, Latest
  <2>6. After(p, new, (L + 1) + 1) = e
    <3>1. (L + 1) + 1 > 1 /\ ((L + 1) + 1) - 1 = L + 1
      BY <1>9
    <3> QED
      BY <1>7, <2>3, <3>1 DEF After
  <2>7. Newest = frame.version /\ frame.version \in Nat
    BY <1>6, Versions DEF Newest
  <2>8. Follows(e, After(p, in, L + 1), Latest(in, sh, L + 1))
    <3>1. Latest(in, sh, L + 1) # None => Latest(in, sh, L + 1).version <= frame.version
      <4>1. CASE L + 1 > 1 /\ ~IsBeat(in[(L + 1) - 1])
        <5>1. (L + 1) - 1 \in DOMAIN in
          BY <1>9, <4>1
        <5> QED
          BY <1>1, <2>7, <4>1, <5>1 DEF Linked, Latest
      <4>2. CASE ~(L + 1 > 1 /\ ~IsBeat(in[(L + 1) - 1]))
        BY <1>1, <2>7, <4>2 DEF Linked, Latest
      <4> QED
        BY <4>1, <4>2
    <3>2. CASE e.kind = "full"
      BY <1>6, <2>4, <3>1, <3>2 DEF Follows
    <3>3. CASE e.kind = "delta"
      <4>1. /\ s.stream = stream /\ b.sequence = s.sequence + 1 /\ b.base = s.sequence
            /\ SameChain(b.from, b.frame) /\ b.from.version <= b.frame.version /\ b.from = After(p, in, L + 1).frame
        BY <1>6, <1>16, <2>4, <3>3
      <4>2. Latest(in, sh, L + 1) # None => Latest(in, sh, L + 1) = b.from
        <5>1. CASE L + 1 > 1 /\ ~IsBeat(in[(L + 1) - 1])
          BY <4>1, <5>1 DEF After, Latest
        <5>2. CASE ~(L + 1 > 1 /\ ~IsBeat(in[(L + 1) - 1]))
          <6>1. After(p, in, L + 1) = p /\ Latest(in, sh, L + 1) = sh
            BY <5>2 DEF After, Latest
          <6>2. p.stream # 0
            BY <1>6, <2>1, <4>1, <6>1
          <6>3. p.frame = sh
            BY <1>1, <6>2 DEF Linked
          <6> QED
            BY <4>1, <6>1, <6>3
        <5> QED
          BY <5>1, <5>2
      <4>3. e.stream = s.stream /\ e.sequence = s.sequence + 1 /\ e.base = s.sequence /\ e.from = b.from /\ e.frame = b.frame
        BY <1>6, <2>4, <4>1
      <4>4. Latest(in, sh, L + 1) # None => Latest(in, sh, L + 1).version <= e.frame.version
        BY <4>1, <4>2, <4>3
      <4>5. /\ After(p, in, L + 1).stream = e.stream /\ After(p, in, L + 1).sequence = e.base
            /\ e.sequence = After(p, in, L + 1).sequence + 1 /\ After(p, in, L + 1).frame = e.from /\ SameChain(e.from, e.frame)
        BY <2>1, <4>1, <4>3
      <4> QED
        BY <4>4, <4>5 DEF Follows
    <3>4. e.kind \in {"full", "delta"}
      BY <1>6, <2>4
    <3> QED
      BY <3>2, <3>3, <3>4
  <2>9. Linked(p, new, sh, Newest)
    <3>1. ASSUME NEW k \in DOMAIN new, k > 1 PROVE ~IsBeat(new[k])
      <4>1. k \in 1 .. L \/ k = L + 1
        BY <1>9, <2>3
      <4> QED
        BY <1>1, <1>7, <1>9, <2>3, <3>1, <4>1 DEF Linked
    <3>2. ASSUME NEW k \in DOMAIN new, ~IsBeat(new[k])
          PROVE  /\ Follows(new[k], After(p, new, k), Latest(new, sh, k))
                 /\ new[k].frame.contract = p.contract
                 /\ new[k].frame.version <= Newest
      <4>1. CASE k = L + 1
        BY <1>6, <2>1, <2>3, <2>4, <2>5, <2>7, <2>8, <4>1
      <4>2. CASE k # L + 1
        <5>1. k \in 1 .. L /\ new[k] = in[k] /\ k \in DOMAIN in
          BY <1>9, <2>3, <4>2
        <5>2. k > 1 => k - 1 \in 1 .. L
          BY <1>9, <5>1
        <5>3. After(p, new, k) = After(p, in, k) /\ Latest(new, sh, k) = Latest(in, sh, k)
          BY <2>3, <5>2 DEF After, Latest
        <5> QED
          BY <1>1, <3>2, <5>1, <5>3 DEF Linked
      <4> QED
        BY <4>1, <4>2
    <3>3. /\ sh # None => sh.version <= Newest
          /\ (p.stream = 0 <=> p.sequence = 0) /\ (p.sequence # 0 => p.frame = sh /\ sh # None)
      BY <1>1 DEF Linked
    <3> QED
      BY <2>1, <3>1, <3>2, <3>3 DEF Linked
  <2>10. Piped(t, p, new, ctl)
    <3>1. ASSUME NEW n \in DOMAIN new PROVE Expected(t, new[n], Len(ctl) + n)
      <4>1. CASE n \in 1 .. L
        BY <1>9, <1>10, <2>1, <2>3, <4>1
      <4>2. CASE n = L + 1
        <5> DEFINE w == Waits(t)
                   M == Len(ctl)
        <5>1. w \in Nat /\ M \in Nat /\ M + L = w + N
          BY <1>1, <1>10, <2>1 DEF Waits
        <5>2. ~(M + n <= w) /\ (M + n) - w = N + 1
          <6> HIDE DEF w, M
          <6> QED
            BY <1>8, <1>9, <4>2, <5>1
        <5>3. N + 1 \in DOMAIN t.sent /\ t.sent[N + 1].stream = b.stream /\ t.sent[N + 1].sequence = b.sequence
          BY <1>8
        <5>4. new[n] = e
          BY <2>3, <4>2
        <5> QED
          BY <1>7, <2>4, <5>2, <5>3, <5>4 DEF Expected, e
      <4>3. n \in 1 .. L \/ n = L + 1
        BY <1>9, <2>3
      <4> QED
        BY <4>1, <4>2, <4>3
    <3>2. Len(ctl) + Len(new) = Waits(t) + Len(t.sent)
      <4> DEFINE w == Waits(t)
                 M == Len(ctl)
      <4>1. w \in Nat /\ M \in Nat /\ M + L = w + N
        BY <1>1, <1>10, <2>1 DEF Waits
      <4>2. Len(new) = L + 1 /\ Len(t.sent) = N + 1
        BY <1>8, <2>3
      <4> HIDE DEF w, M
      <4>3. M + (L + 1) = w + (N + 1)
        BY <1>8, <1>9, <4>1
      <4> QED
        BY <4>2, <4>3 DEF w, M
    <3>3. t.stream = After(p, new, Len(new) + 1).stream /\ t.sequence = After(p, new, Len(new) + 1).sequence
      BY <1>4, <2>3, <2>4, <2>6
    <3>4. \A n \in DOMAIN ctl : Expected(t, ctl[n], n)
      BY <1>10, <2>1
    <3> QED
      BY <1>2, <1>4, <1>11, <2>1, <3>1, <3>2, <3>3, <3>4 DEF Piped
  <2>11. Placed(t, p, new, payloads, history, stream, sequence, frame)
    <3>1. After(p, new, Len(new) + 1).frame = b.frame
      BY <2>3, <2>4, <2>6
    <3> QED
      BY <1>4, <1>6, <1>14, <3>1 DEF Placed
  <2> QED
    BY <1>1, <1>2, <1>12, <1>13, <2>2, <2>9, <2>10, <2>11, OtherConns DEF ctl, p, sh, t
<1> QED
  BY <1>15, <1>16

\* A handler that has sent nothing and waits for nothing.
Quiet(t, peer, in) ==
  /\ t.pc # "ready" /\ t.stream = 0 /\ t.sequence = 0 /\ t.sent = <<>> /\ t.lastACK = NoSent /\ t.heartbeat = 0 /\ t.writing = 0
  /\ t.pc \in {"accepting", "hello"} => in = <<>> /\ peer.stream = 0 /\ peer.sequence = 0
  /\ t.pc = "accepting" => ~peer.on
  /\ (t.pc = "hello" /\ ~t.broken) => peer.on

\* Its side of the connection.
LEMMA QuietConn ==
  ASSUME PublisherInv, NEW t, NEW peer, NEW in, Quiet(t, peer, in)
  PROVE  /\ Ordered(t) /\ Piped(t, peer, in, <<>>)
         /\ Placed(t, peer, in, payloads, history, stream, sequence, frame)
<1>1. stream \in Nat /\ sequence \in Nat
  BY IdsFinite DEF PublisherInv, TypeInv
<1>2. DOMAIN <<>> = {} /\ NoSent.stream = 0 /\ NoSent.sequence = 0
  BY DEF NoSent
<1>3. Ordered(t)
  BY <1>2 DEF Quiet, Ordered
<1> QED
  BY <1>1, <1>2, <1>3 DEF Quiet, Piped, Placed

\* Nothing is on the way to a client that was shown what the publisher had.
LEMMA EmptyLinked ==
  ASSUME NEW peer, NEW sh, NEW newest, sh # None => sh.version <= newest, ~peer.on => peer = NoPeer,
         peer.stream = 0, peer.sequence = 0
  PROVE  Linked(peer, <<>>, sh, newest)
<1>1. DOMAIN <<>> = {}
  OBVIOUS
<1> QED
  BY <1>1 DEF Linked

\* A handler whose connection does not move.
LEMMA SameConn ==
  ASSUME PublisherInv, ChainInv, ConnInv, Next, PublisherInv', NEW c \in Conns, AskFull(c) \/ FinishWrite(c) \/ Expire(c)
  PROVE  ConnInv'
<1> DEFINE s == subs[c]
           t == subs'[c]
<1>1. /\ SubsOK(subs) /\ SubOK(s) /\ DOMAIN subs = Conns
      /\ peers \in [Conns -> Peer] /\ shown \in [Conns -> Frame \cup {None}]
      /\ Linked(peers[c], inbox[c], shown[c], Newest) /\ Piped(s, peers[c], inbox[c], controls[c])
      /\ Placed(s, peers[c], inbox[c], payloads, history, stream, sequence, frame)
  BY ConnTypes
<1>2. UNCHANGED <<peers, inbox, controls, shown>>
  BY DEF AskFull, FinishWrite, Expire, socketVars
<1>3. SameView(s, t) /\ \A d \in Conns \ {c} : subs'[d] = subs[d]
  <2>1. CASE AskFull(c)
    BY <2>1 DEF AskFull, SameView
  <2>2. CASE FinishWrite(c)
    <3>1. PICK b \in BOOLEAN : (s.broken => b) /\ subs' = [subs EXCEPT ![c] = [s EXCEPT !.writing = 0, !.broken = b]]
      BY <2>2, FinishWriteSub
    <3> DEFINE u == [s EXCEPT !.writing = 0]
               v == [u EXCEPT !.broken = b]
    <3>2. t = v /\ \A d \in Conns \ {c} : subs'[d] = subs[d]
      BY <1>1, <3>1
    <3> HIDE DEF s
    <3>3. DOMAIN u = SubFields /\ SameView(s, u) /\ u.broken = s.broken
      BY <1>1 DEF SubOK, SubFields, SameView
    <3> HIDE DEF u, t
    <3>4. SameView(s, v)
      BY <3>1, <3>3 DEF SubFields, SameView
    <3> QED
      BY <3>2, <3>4
  <2>3. CASE Expire(c)
    <3> DEFINE v == [s EXCEPT !.broken = TRUE]
    <3>1. t = v /\ \A d \in Conns \ {c} : subs'[d] = subs[d]
      BY <1>1, <2>3 DEF Expire
    <3> HIDE DEF s, t
    <3>2. SameView(s, v)
      BY <1>1 DEF SubOK, SubFields, SameView
    <3> QED
      BY <3>1, <3>2
  <2> QED
    BY <2>1, <2>2, <2>3
<1>4. /\ Piped(t, peers[c], inbox[c], controls[c])
      /\ Placed(t, peers[c], inbox[c], payloads, history, stream, sequence, frame)
  BY <1>1, <1>3, ViewKept
<1>5. HandlerStep(c) \/ ClientStep(c)
  BY DEF HandlerStep
<1> QED
  BY <1>1, <1>2, <1>3, <1>4, <1>5, OtherConns

\* A connection is admitted, upgraded and greeted, and a handler returns.
LEMMA QuietSteps ==
  ASSUME PublisherInv, ChainInv, ConnInv, Next, PublisherInv', NEW c \in Conns, Register(c) \/ Accept(c) \/ Leave(c)
  PROVE  ConnInv'
<1> DEFINE s == subs[c]
           t == subs'[c]
           p == peers[c]
           q == peers'[c]
           in == inbox[c]
           sh == shown[c]
           n == Newest
<1>1. /\ SubsOK(subs) /\ SubOK(s) /\ DOMAIN subs = Conns
      /\ peers \in [Conns -> Peer] /\ shown \in [Conns -> Frame \cup {None}]
      /\ DOMAIN controls = Conns
      /\ Linked(p, in, sh, n) /\ Piped(s, p, in, controls[c])
  BY ConnTypes
<1>2. UNCHANGED <<inbox, shown>>
  BY DEF Register, Accept, Leave, socketVars
<1>3. /\ \A d \in Conns \ {c} : subs'[d] = subs[d] /\ peers'[d] = peers[d] /\ controls'[d] = controls[d]
      /\ peers' \in [Conns -> Peer]
      /\ Linked(q, in, sh, n) /\ Quiet(t, q, in) /\ controls'[c] = <<>>
  <2>1. CASE Register(c)
    <3> DEFINE v == [s EXCEPT !.pc = "accepting"]
    <3>1. t = v /\ q = p /\ peers' = peers /\ controls' = controls /\ s.pc = "off" /\ ~p.on
          /\ \A d \in Conns \ {c} : subs'[d] = subs[d]
      BY <1>1, <2>1 DEF Register, socketVars
    <3> HIDE DEF s, t
    <3>2. /\ v.pc = "accepting" /\ v.stream = s.stream /\ v.sequence = s.sequence /\ v.sent = s.sent
          /\ v.lastACK = s.lastACK /\ v.heartbeat = s.heartbeat /\ v.writing = s.writing
      BY <1>1 DEF SubOK, SubFields
    <3> HIDE DEF v
    <3>3. p = NoPeer /\ in = <<>>
      BY <1>1, <3>1 DEF Linked
    <3>4. p.stream = 0 /\ p.sequence = 0
      BY <3>3 DEF NoPeer
    <3>5. Quiet(v, p, in) /\ controls[c] = <<>>
      BY <1>1, <3>1, <3>2, <3>3, <3>4 DEF Piped, Quiet
    <3> QED
      BY <1>1, <3>1, <3>5
  <2>2. CASE Accept(c)
    <3> DEFINE u == [s EXCEPT !.pc = "hello"]
               v == [u EXCEPT !.broken = stopped]
               new == [NoPeer EXCEPT !.on = TRUE]
    <3>1. /\ subs' = [subs EXCEPT ![c] = v] /\ controls' = controls /\ s.pc = "accepting"
          /\ peers' = [peers EXCEPT ![c] = new]
      BY <1>1, <2>2 DEF Accept
    <3>2. /\ t = v /\ q = new /\ \A d \in Conns \ {c} : subs'[d] = subs[d] /\ peers'[d] = peers[d]
      BY <1>1, <3>1
    <3>3. new.on /\ new.stream = 0 /\ new.sequence = 0 /\ new \in Peer
      <4>1. 0 \in 0 .. MaxStream /\ 0 \in 0 .. MaxCounter /\ 0 \in 0 .. MaxSource
        BY LimitAssumption
      <4> QED
        BY <4>1 DEF NoPeer, Peer
    <3> HIDE DEF s, t, new
    <3>4. /\ DOMAIN u = SubFields /\ u.pc = "hello" /\ u.stream = s.stream /\ u.sequence = s.sequence /\ u.sent = s.sent
          /\ u.lastACK = s.lastACK /\ u.heartbeat = s.heartbeat /\ u.writing = s.writing
      BY <1>1 DEF SubOK, SubFields
    <3> HIDE DEF u
    <3>5. /\ v.pc = "hello" /\ v.stream = s.stream /\ v.sequence = s.sequence /\ v.sent = s.sent
          /\ v.lastACK = s.lastACK /\ v.heartbeat = s.heartbeat /\ v.writing = s.writing
      BY <3>4 DEF SubFields
    <3> HIDE DEF v
    <3>6. Quiet(v, new, in) /\ controls[c] = <<>> /\ in = <<>>
      BY <1>1, <3>1, <3>3, <3>5 DEF Piped, Quiet
    <3>7. Linked(new, <<>>, sh, n)
      <4>1. sh # None => sh.version <= n
        BY <1>1 DEF Linked
      <4> HIDE DEF sh, n
      <4> QED
        BY <3>3, <4>1, EmptyLinked
    <3>8. peers' \in [Conns -> Peer]
      BY <1>1, <3>1, <3>3
    <3> QED
      BY <3>1, <3>2, <3>6, <3>7, <3>8
  <2>3. CASE Leave(c)
    <3>1. /\ t = NoSubscriber /\ q = p /\ peers' = peers /\ controls'[c] = <<>>
          /\ \A d \in Conns \ {c} : subs'[d] = subs[d] /\ controls'[d] = controls[d]
      BY <1>1, <2>3 DEF Leave
    <3>2. Quiet(NoSubscriber, p, in)
      BY DEF Quiet, NoSubscriber
    <3> QED
      BY <1>1, <3>1, <3>2
  <2> QED
    BY <2>1, <2>2, <2>3
<1>4. /\ Piped(t, q, in, controls'[c])
      /\ Placed(t, q, in, payloads, history, stream, sequence, frame)
  <2> HIDE DEF t, q, in
  <2> QED
    BY <1>3, QuietConn
<1>5. HandlerStep(c) \/ ClientStep(c)
  BY DEF HandlerStep
<1> QED
  BY <1>1, <1>2, <1>3, <1>4, <1>5, OtherConns

\* The hello: both sides know the contract.
LEMMA HelloConn ==
  ASSUME PublisherInv, ChainInv, ConnInv, Next, PublisherInv', NEW c \in Conns, Hello(c)
  PROVE  ConnInv'
<1> DEFINE s == subs[c]
           p == peers[c]
           in == inbox[c]
           sh == shown[c]
           u == [s EXCEPT !.pc = "ready"]
           t == [u EXCEPT !.contract = source.contract]
           q == [p EXCEPT !.contract = source.contract]
<1>1. /\ SubsOK(subs) /\ SubOK(s) /\ DOMAIN subs = Conns
      /\ peers \in [Conns -> Peer] /\ p \in Peer /\ shown \in [Conns -> Frame \cup {None}]
      /\ Linked(p, in, sh, Newest) /\ Piped(s, p, in, controls[c]) /\ source \in Frame
      /\ Placed(s, p, in, payloads, history, stream, sequence, frame)
  BY ConnTypes
<1>2. /\ s.pc = "hello" /\ ~s.broken /\ UNCHANGED <<inbox, controls, shown>>
      /\ subs' = [subs EXCEPT ![c] = t] /\ peers' = [peers EXCEPT ![c] = q]
  BY <1>1 DEF Hello
<1>3. /\ subs'[c] = t /\ peers'[c] = q
      /\ \A d \in Conns \ {c} : subs'[d] = subs[d] /\ peers'[d] = peers[d]
  BY <1>1, <1>2
<1>4. /\ q \in Peer /\ q.on = p.on /\ q.contract = source.contract /\ q.stream = p.stream /\ q.sequence = p.sequence
  BY <1>1 DEF Peer, Frame
<1>5. peers' \in [Conns -> Peer]
  BY <1>1, <1>2, <1>4
<1> HIDE DEF s
<1>6. /\ DOMAIN u = SubFields /\ u.pc = "ready" /\ u.broken = s.broken /\ u.stream = s.stream /\ u.sequence = s.sequence
      /\ u.sent = s.sent /\ u.lastACK = s.lastACK /\ u.heartbeat = s.heartbeat
  BY <1>1 DEF SubOK, SubFields
<1> HIDE DEF u
<1>7. /\ t.pc = "ready" /\ t.broken = s.broken /\ t.contract = source.contract /\ t.stream = s.stream /\ t.sequence = s.sequence
      /\ t.sent = s.sent /\ t.lastACK = s.lastACK /\ t.heartbeat = s.heartbeat
  BY <1>6 DEF SubFields
<1> HIDE DEF t, q
<1>8. /\ controls[c] = <<>> /\ in = <<>> /\ p.stream = 0 /\ p.sequence = 0 /\ p.on
      /\ t.stream = 0 /\ t.sequence = 0 /\ t.sent = <<>> /\ t.heartbeat = 0 /\ Ordered(s)
  BY <1>1, <1>2, <1>7 DEF Piped
<1>9. Ordered(t)
  BY <1>7, <1>8 DEF Ordered
<1>10. DOMAIN <<>> = {} /\ Len(<<>>) = 0
  OBVIOUS
<1>11. Linked(q, in, sh, Newest)
  <2> DEFINE n == Newest
  <2>1. sh # None => sh.version <= n
    BY <1>1 DEF Linked
  <2> HIDE DEF sh, n
  <2>2. Linked(q, <<>>, sh, n)
    BY <1>4, <1>8, <2>1, EmptyLinked
  <2> QED
    BY <1>8, <2>2 DEF n
<1>12. Piped(t, q, in, controls[c])
  <2>1. Waits(t) = 0
    BY <1>8 DEF Waits
  <2>2. After(q, <<>>, 1) = q
    BY DEF After
  <2> QED
    BY <1>4, <1>7, <1>8, <1>9, <1>10, <2>1, <2>2 DEF Piped
<1>13. Placed(t, q, in, payloads, history, stream, sequence, frame)
  BY <1>1, <1>7, <1>8 DEF Placed
<1>14. HandlerStep(c) \/ ClientStep(c)
  BY DEF HandlerStep
<1> QED
  BY <1>1, <1>2, <1>3, <1>5, <1>11, <1>12, <1>13, <1>14, OtherConns

\* A heartbeat is sent when nothing is on the way.
LEMMA HeartbeatConn ==
  ASSUME PublisherInv, ChainInv, ConnInv, Next, PublisherInv', NEW c \in Conns, StartHeartbeat(c)
  PROVE  ConnInv'
<1> DEFINE s == subs[c]
           p == peers[c]
           in == inbox[c]
           ctl == controls[c]
           sh == shown[c]
           h == s.heartbeats + 1
           u == [s EXCEPT !.heartbeats = h]
           t == [u EXCEPT !.heartbeat = h]
           beat == [kind |-> "heartbeat", token |-> h]
           L == Len(in)
           M == Len(ctl)
<1>1. /\ SubsOK(subs) /\ SubOK(s) /\ DOMAIN subs = Conns
      /\ peers \in [Conns -> Peer] /\ shown \in [Conns -> Frame \cup {None}]
      /\ DOMAIN inbox = Conns /\ in \in Seq(Publication \cup Beat) /\ ctl \in Seq(Ack \cup Beat)
      /\ Linked(p, in, sh, Newest) /\ Piped(s, p, in, ctl)
      /\ Placed(s, p, in, payloads, history, stream, sequence, frame)
  BY ConnTypes
<1>2. /\ s.pc = "ready" /\ ~s.broken /\ s.heartbeat = 0 /\ s.sent = <<>> /\ UNCHANGED <<peers, controls, shown>>
      /\ subs' = [subs EXCEPT ![c] = t]
      /\ inbox' = IF p.on THEN [inbox EXCEPT ![c] = Append(@, beat)] ELSE inbox
  BY <1>1 DEF StartHeartbeat
<1>3. subs'[c] = t /\ \A d \in Conns \ {c} : subs'[d] = subs[d] /\ inbox'[d] = inbox[d]
  BY <1>1, <1>2
<1>4. h \in Nat /\ h # 0
  BY <1>1 DEF SubOK
<1>5. /\ L \in Nat /\ M \in Nat /\ (L = 0 => in = <<>>) /\ (M = 0 => ctl = <<>>)
      /\ p.on /\ s.contract = p.contract /\ M + L = Waits(s) + Len(s.sent) /\ Ordered(s)
      /\ s.stream = After(p, in, L + 1).stream /\ s.sequence = After(p, in, L + 1).sequence
  BY <1>1, <1>2 DEF Piped
<1>6. Waits(s) = 0 /\ Len(s.sent) = 0
  BY <1>2 DEF Waits
<1>7. L = 0 /\ M = 0
  <2> HIDE DEF L, M, s
  <2> QED
    BY <1>5, <1>6
<1>8. in = <<>> /\ ctl = <<>>
  BY <1>5, <1>7
<1>9. inbox'[c] = <<beat>>
  <2>1. inbox' = [inbox EXCEPT ![c] = Append(in, beat)]
    BY <1>2, <1>5
  <2>2. Append(in, beat) = <<beat>>
    BY <1>8
  <2> HIDE DEF in, beat
  <2> QED
    BY <1>1, <2>1, <2>2
<1> HIDE DEF s, h
<1>10. /\ DOMAIN u = SubFields /\ u.pc = s.pc /\ u.broken = s.broken /\ u.contract = s.contract /\ u.stream = s.stream
       /\ u.sequence = s.sequence /\ u.sent = s.sent /\ u.lastACK = s.lastACK
  BY <1>1 DEF SubOK, SubFields
<1> HIDE DEF u
<1>11. /\ t.pc = s.pc /\ t.broken = s.broken /\ t.contract = s.contract /\ t.stream = s.stream
       /\ t.sequence = s.sequence /\ t.sent = s.sent /\ t.lastACK = s.lastACK /\ t.heartbeat = h
  BY <1>10 DEF SubFields
<1> HIDE DEF t
<1>12. /\ DOMAIN <<beat>> = {1} /\ Len(<<beat>>) = 1 /\ <<beat>>[1] = beat /\ IsBeat(beat) /\ beat.token = h
       /\ DOMAIN <<>> = {} /\ Len(<<>>) = 0
  BY DEF IsBeat
<1> DEFINE new == <<beat>>
<1> HIDE DEF beat, new
<1>13. DOMAIN new = {1} /\ Len(new) = 1 /\ new[1] = beat
  BY <1>12 DEF new
<1>14. After(p, new, 2) = p /\ After(p, <<>>, 1) = p
  BY <1>12, <1>13 DEF After
<1>15. Ordered(t)
  BY <1>5, <1>11 DEF Ordered
<1>16. Linked(p, new, sh, Newest)
  BY <1>1, <1>5, <1>12, <1>13 DEF Linked
<1>17. Piped(t, p, new, <<>>)
  <2>1. Waits(t) = 1
    BY <1>4, <1>11 DEF Waits
  <2>2. Expected(t, beat, 1)
    BY <1>11, <1>12, <2>1 DEF Expected
  <2>3. t.stream = After(p, new, Len(new) + 1).stream /\ t.sequence = After(p, new, Len(new) + 1).sequence
    <3>1. s.stream = p.stream /\ s.sequence = p.sequence
      BY <1>5, <1>7, <1>8, <1>14
    <3> QED
      BY <1>11, <1>13, <1>14, <3>1
  <2>4. Len(<<>>) + Len(new) = Waits(t) + Len(t.sent)
    BY <1>2, <1>11, <1>12, <1>13, <2>1
  <2>5. \A n \in DOMAIN new : Expected(t, new[n], Len(<<>>) + n)
    BY <1>12, <1>13, <2>2
  <2> QED
    BY <1>2, <1>5, <1>11, <1>12, <1>15, <2>3, <2>4, <2>5 DEF Piped
<1>18. Placed(t, p, new, payloads, history, stream, sequence, frame)
  <2>1. After(p, new, Len(new) + 1) = After(p, in, Len(in) + 1)
    BY <1>7, <1>8, <1>13, <1>14
  <2> QED
    BY <1>1, <1>11, <2>1 DEF Placed
<1>19. HandlerStep(c) \/ ClientStep(c)
  BY DEF HandlerStep
<1> QED
  BY <1>1, <1>2, <1>3, <1>8, <1>9, <1>16, <1>17, <1>18, <1>19, OtherConns DEF new

\* The client gives the connection up.
LEMMA DisconnectConn ==
  ASSUME PublisherInv, ChainInv, ConnInv, Next, PublisherInv', NEW c \in Conns, ClientStep(c), Disconnect(c)
  PROVE  ConnInv'
<1> DEFINE s == subs[c]
           t == subs'[c]
           sh == shown[c]
<1>1. /\ SubsOK(subs) /\ SubOK(s) /\ DOMAIN subs = Conns
      /\ peers \in [Conns -> Peer] /\ shown \in [Conns -> Frame \cup {None}]
      /\ DOMAIN inbox = Conns /\ DOMAIN controls = Conns
      /\ Linked(peers[c], inbox[c], sh, Newest) /\ Piped(s, peers[c], inbox[c], controls[c])
      /\ Placed(s, peers[c], inbox[c], payloads, history, stream, sequence, frame)
  BY ConnTypes
<1>2. /\ peers' = [peers EXCEPT ![c] = NoPeer] /\ inbox' = [inbox EXCEPT ![c] = <<>>]
      /\ controls' = [controls EXCEPT ![c] = <<>>] /\ shown' = shown
      /\ subs' = IF s.pc = "off" THEN subs ELSE Break({c})
  BY DEF Disconnect
<1>3. NoPeer \in Peer /\ ~NoPeer.on /\ NoPeer.stream = 0 /\ NoPeer.sequence = 0
  <2>1. 0 \in 0 .. MaxStream /\ 0 \in 0 .. MaxCounter /\ 0 \in 0 .. MaxSource
    BY LimitAssumption
  <2> QED
    BY <2>1 DEF NoPeer, Peer
<1>4. /\ peers'[c] = NoPeer /\ inbox'[c] = <<>> /\ controls'[c] = <<>> /\ peers' \in [Conns -> Peer]
      /\ \A d \in Conns \ {c} : peers'[d] = peers[d] /\ inbox'[d] = inbox[d] /\ controls'[d] = controls[d]
  BY <1>1, <1>2, <1>3
<1>5. \A d \in Conns \ {c} : subs'[d] = subs[d]
  BY <1>2 DEF Break
<1>6. SameView(s, t) /\ (s.pc # "off" => t.broken)
  <2>1. CASE s.pc = "off"
    BY <1>2, <2>1 DEF SameView
  <2>2. CASE s.pc # "off"
    <3> DEFINE v == [s EXCEPT !.broken = TRUE]
    <3>1. t = v
      BY <1>2, <2>2 DEF Break
    <3> HIDE DEF s, t
    <3>2. SameView(s, v) /\ v.broken
      BY <1>1 DEF SubOK, SubFields, SameView
    <3> QED
      BY <3>1, <3>2
  <2> QED
    BY <2>1, <2>2
<1> HIDE DEF s, t
<1>7. Linked(NoPeer, <<>>, sh, Newest)
  <2> DEFINE n == Newest
  <2>1. sh # None => sh.version <= n
    BY <1>1 DEF Linked
  <2> HIDE DEF sh, n
  <2>2. Linked(NoPeer, <<>>, sh, n)
    BY <1>3, <2>1, EmptyLinked
  <2> QED
    BY <2>2 DEF n
<1>8. Piped(t, NoPeer, <<>>, <<>>)
  <2>1. Ordered(t)
    BY <1>1, <1>6 DEF Piped, SameView, Ordered
  <2>2. DOMAIN <<>> = {} /\ (t.pc \in {"hello", "ready"} => t.broken)
    BY <1>6 DEF SameView
  <2>3. t.pc # "ready" =>
          /\ t.stream = 0 /\ t.sequence = 0 /\ t.sent = <<>> /\ t.lastACK = NoSent /\ t.heartbeat = 0 /\ t.writing = 0
    BY <1>1, <1>6 DEF Piped, SameView
  <2> QED
    BY <1>3, <2>1, <2>2, <2>3 DEF Piped
<1>9. Placed(t, NoPeer, <<>>, payloads, history, stream, sequence, frame)
  BY <1>1, <1>6 DEF Placed, SameView
<1> QED
  BY <1>1, <1>2, <1>4, <1>5, <1>7, <1>8, <1>9, OtherConns DEF s, t

\* Every step keeps the connections in order.
LEMMA ConnStep == ASSUME PublisherInv, ChainInv, ConnInv, Next, PublisherInv' PROVE ConnInv'
<1>1. CASE Advance \/ StopStreams \/ PublisherStep
  BY <1>1, PublisherConns
<1>2. ASSUME NEW c \in Conns, HandlerStep(c) PROVE ConnInv'
  BY <1>2, QuietSteps, HelloConn, StartWriteConn, SameConn, HeartbeatConn, ReadControlConn DEF HandlerStep
<1>3. ASSUME NEW c \in Conns, ClientStep(c) PROVE ConnInv'
  <2>1. CASE Disconnect(c)
    BY <1>3, <2>1, DisconnectConn
  <2>2. CASE ~Disconnect(c)
    <3>1. Receive(c) \/ AnswerHeartbeat(c)
      BY <1>3, <2>2 DEF ClientStep, LoseConnection
    <3> QED
      BY <2>2, <3>1, ReceiveConn
  <2> QED
    BY <2>1, <2>2
<1> QED
  BY <1>1, <1>2, <1>3 DEF Next

-----------------------------------------------------------------------------
(* The theorems.                                                           *)

\* The initial states.
LEMMA StreamInit == Init => Inv
<1> SUFFICES ASSUME Init PROVE Inv
  OBVIOUS
<1>1. PublisherInv
  BY PublisherInit
<1>2. /\ source \in Frame /\ frame = None /\ stream = 0 /\ sequence = 0 /\ history = <<>> /\ full = 0 /\ work = Idle
      /\ subs = [c \in Conns |-> NoSubscriber] /\ peers = [c \in Conns |-> NoPeer]
      /\ inbox = [c \in Conns |-> <<>>] /\ controls = [c \in Conns |-> <<>>] /\ shown = [c \in Conns |-> None]
  BY <1>1 DEF Init, PublisherInv, TypeInv
<1>3. work.pc = "idle" /\ work.frame = None /\ DOMAIN <<>> = {}
  BY <1>2 DEF Idle
<1>4. ChainInv
  <2>1. HistoryOK(payloads, history, full, stream, sequence, frame)
    BY <1>2, <1>3 DEF HistoryOK
  <2>2. VersionsOK
    BY <1>2, <1>3 DEF VersionsOK
  <2> QED
    BY <1>3, <2>1, <2>2 DEF ChainInv
<1>5. NoPeer \in Peer /\ ~NoPeer.on /\ NoPeer.stream = 0 /\ NoPeer.sequence = 0
  <2>1. 0 \in 0 .. MaxStream /\ 0 \in 0 .. MaxCounter /\ 0 \in 0 .. MaxSource
    BY LimitAssumption
  <2> QED
    BY <2>1 DEF NoPeer, Peer
<1>6. Linked(NoPeer, <<>>, None, Newest)
  BY <1>3, <1>5 DEF Linked
<1>7. Quiet(NoSubscriber, NoPeer, <<>>)
  BY DEF Quiet, NoSubscriber
<1>8. /\ Piped(NoSubscriber, NoPeer, <<>>, <<>>)
      /\ Placed(NoSubscriber, NoPeer, <<>>, payloads, history, stream, sequence, frame)
  BY <1>1, <1>7, QuietConn
<1>9. peers \in [Conns -> Peer] /\ shown \in [Conns -> Frame \cup {None}]
  BY <1>2, <1>5
<1>10. ConnInv
  BY <1>2, <1>6, <1>8, <1>9 DEF ConnInv
<1> QED
  BY <1>1, <1>4, <1>10 DEF Inv

\* Stuttering.
LEMMA StreamStutters == ASSUME Inv, UNCHANGED vars PROVE Inv'
<1>1. UNCHANGED <<source, stopped, needFull, released, subs, writers, frame, stream, sequence, history, full, retained,
                  payloads, streams, work, peers, inbox, controls, shown>>
  BY DEF vars, publisherVars, socketVars
<1>2. PublisherInv'
  BY PublisherStutters DEF Inv
<1>3. ChainInv'
  BY <1>1 DEF Inv, ChainInv, VersionsOK
<1>4. ConnInv'
  BY <1>1 DEF Inv, ConnInv, Newest
<1> QED
  BY <1>2, <1>3, <1>4 DEF Inv

\* The publisher, its history and every connection, after every step.
THEOREM StreamInvariant == Spec => []Inv
<1>1. ASSUME Inv, Next PROVE Inv'
  <2>1. PublisherInv'
    BY <1>1, StepTypes, StepLeases, SocketTypes DEF Inv, PublisherInv
  <2>2. ChainInv'
    BY <1>1, <2>1, ChainStep DEF Inv
  <2>3. ConnInv'
    BY <1>1, <2>1, ConnStep DEF Inv
  <2> QED
    BY <2>1, <2>2, <2>3 DEF Inv
<1>2. Inv /\ [Next]_vars => Inv'
  BY <1>1, StreamStutters
<1> QED
  BY <1>2, StreamInit, PTL DEF Spec

\* nextPayload and ApplyStream: a client never has to refuse what the server
\* sends, and every delta meets the frame it was made from.
THEOREM PublicationsAreApplied == Spec => []PublicationsApply
<1>1. Inv => PublicationsApply
  <2> SUFFICES ASSUME Inv, NEW c \in Conns, peers[c].on, inbox[c] # <<>>, Head(inbox[c]).kind # "heartbeat"
               PROVE  Acceptable(c, Head(inbox[c])) /\ Applied(peers[c], Head(inbox[c])) # Corrupt
    BY DEF PublicationsApply
  <2> DEFINE in == inbox[c]
             e == Head(in)
             p == peers[c]
             sh == shown[c]
  <2>1. in \in Seq(Publication \cup Beat) /\ Linked(p, in, sh, Newest) /\ sh \in Frame \cup {None}
    BY ConnTypes DEF Inv
  <2>2. 1 \in DOMAIN in /\ e = in[1] /\ e \in Publication /\ ~IsBeat(e)
    <3>1. 1 \in DOMAIN in /\ e = in[1] /\ in[1] \in Publication \cup Beat
      <4> DEFINE S == Publication \cup Beat
      <4>1. in \in Seq(S) /\ in # <<>>
        BY <2>1
      <4> HIDE DEF S, in
      <4>2. 1 \in DOMAIN in /\ e = in[1] /\ in[1] \in S
        BY <4>1
      <4> QED
        BY <4>2 DEF S
    <3> QED
      BY <3>1 DEF Beat, IsBeat
  <2>3. After(p, in, 1) = p /\ Latest(in, sh, 1) = sh
    BY DEF After, Latest
  <2>4. Follows(e, p, sh) /\ e.frame.contract = p.contract
    BY <2>1, <2>2, <2>3 DEF Linked
  <2>5. e.frame \in Frame /\ e.kind \in {"delta", "full"} /\ e.frame.version \in Nat
        /\ (sh # None => sh.version \in Nat)
    BY <2>1, <2>2, Versions DEF Publication
  <2>6. ~Stale(c, e)
    BY <2>4, <2>5 DEF Follows, Stale
  <2>7. Applied(p, e) = e.frame
    BY <2>4, <2>5 DEF Follows, Applied
  <2>8. e.frame # Corrupt
    <3>1. e.frame.project # 0 /\ Corrupt.project = 0
      BY <2>5 DEF Frame, Corrupt
    <3> QED
      BY <3>1
  <2>9. Applies(p, e)
    <3>1. e.kind = "delta" => SameChain(p.frame, e.frame)
      BY <2>4 DEF Follows
    <3> QED
      BY <2>4, <3>1 DEF Follows, Applies
  <2> QED
    BY <2>4, <2>6, <2>7, <2>8, <2>9 DEF Acceptable
<1> QED
  BY <1>1, StreamInvariant, PTL

\* control: the server never refuses an answer of a client that follows the
\* protocol.
THEOREM ControlsAreAccepted == Spec => []ControlsAccepted
<1>1. Inv => ControlsAccepted
  <2> SUFFICES ASSUME Inv, NEW c \in Conns, subs[c].pc = "ready", controls[c] # <<>>
               PROVE  ~InvalidControl(c, Head(controls[c]))
    BY DEF ControlsAccepted
  <2> QED
    BY HeadExpected DEF Inv
<1> QED
  BY <1>1, StreamInvariant, PTL

-----------------------------------------------------------------------------
(* The types of the specification.  The credit of a subscriber is a sum    *)
(* that is kept by additions and subtractions: it stays a number because   *)
(* it is the sum of the messages that no acknowledgment covers yet.        *)

\* g gives the bytes of the first messages of q.
Sums(g, q) ==
  /\ g \in [0 .. Len(q) -> Nat] /\ g[0] = 0
  /\ \A n \in 1 .. Len(q) : g[n] = g[n - 1] + q[n].bytes

\* The bytes of a subscriber are those of the messages it has not acknowledged.
IsSub(s) == s = [x \in SubFields |-> s[x]]
Credited(s) ==
  /\ IsSub(s)
  /\ s.broken \in BOOLEAN /\ s.heartbeat \in 0 .. MaxHeartbeat /\ s.heartbeats \in 0 .. MaxHeartbeat
  /\ \E g : Sums(g, s.sent) /\ s.bytes = g[Len(s.sent)]

Credits(b) == b = [c \in Conns |-> b[c]] /\ \A c \in Conns : Credited(b[c])

\* The invariant of the credit of every connection.
CreditInv ==
  /\ stopped \in BOOLEAN /\ released \in BOOLEAN
  /\ Credits(subs)

\* The fold of control over the messages that an acknowledgment covers.
IsFold(q, f) == f = [s \in SUBSET DOMAIN q |-> IF s = {} THEN 0 ELSE f[s \ {Max(s)}] + q[Max(s)].bytes]
FoldOf(q) == CHOOSE f : IsFold(q, f)
Covered(q) == FoldLeft(LAMBDA n, s : n + s.bytes, 0, q)

\* The fold over a list is that function at all of its indexes.
LEMMA CoveredFold == ASSUME NEW q PROVE Covered(q) = FoldOf(q)[DOMAIN q]
BY DEF Covered, FoldLeft, MapThenFoldSet, FoldOf, IsFold

\* What IsFold says of one set.
LEMMA FoldEquation ==
  ASSUME NEW q, NEW f, IsFold(q, f)
  PROVE  \A s \in SUBSET DOMAIN q : f[s] = IF s = {} THEN 0 ELSE f[s \ {Max(s)}] + q[Max(s)].bytes
<1> DEFINE g == [s \in SUBSET DOMAIN q |-> IF s = {} THEN 0 ELSE f[s \ {Max(s)}] + q[Max(s)].bytes]
<1>1. f = g
  BY DEF IsFold
<1>2. \A s \in SUBSET DOMAIN q : g[s] = IF s = {} THEN 0 ELSE f[s \ {Max(s)}] + q[Max(s)].bytes
  OBVIOUS
<1> HIDE DEF g
<1> QED
  BY <1>1, <1>2

\* The largest index of a set of indexes.
LEMMA MaxMember ==
  ASSUME NEW N \in Nat, NEW s \in SUBSET (1 .. N), s # {}
  PROVE  Max(s) \in s
<1> DEFINE Turned == {N - k : k \in s}
<1>1. Turned \in SUBSET Nat /\ Turned # {}
  <2>1. \A k \in s : N - k \in Nat
    OBVIOUS
  <2>2. \A x \in Turned : x \in Nat
    BY <2>1
  <2>3. PICK k \in s : TRUE
    OBVIOUS
  <2>4. N - k \in Turned
    BY <2>3
  <2> QED
    BY <2>2, <2>4
<1>2. Min(Turned) \in Turned /\ \A y \in Turned : Min(Turned) <= y
  <2> HIDE DEF Turned
  <2> QED
    BY <1>1, LeastMember
<1>3. PICK k \in s : Min(Turned) = N - k
  BY <1>2
<1>4. \A j \in s : N - k <= N - j
  BY <1>2, <1>3
<1>5. \A j \in s : k >= j
  <2> SUFFICES ASSUME NEW j \in s PROVE k >= j
    OBVIOUS
  <2>1. N - k <= N - j /\ k \in Nat /\ j \in Nat
    BY <1>4
  <2> QED
    BY <2>1
<1> QED
  BY <1>5 DEF Max

\* The messages of a list have their fold: Total gives the sums of all its subsets.
LEMMA FoldExists ==
  ASSUME NEW q \in Seq(Sent)
  PROVE  IsFold(q, FoldOf(q))
<1> DEFINE D == DOMAIN q
           p == [x \in D |-> [size |-> q[x].bytes]]
           t == [s \in SUBSET D |-> Total(p, s)]
           v(s) == IF s = {} THEN 0 ELSE t[s \ {Max(s)}] + q[Max(s)].bytes
<1>1. D = 1 .. Len(q) /\ Len(q) \in Nat /\ IsFiniteSet(D)
  BY FS_Interval
<1>2. \A x \in D : p[x].size = q[x].bytes /\ q[x].bytes \in Nat
  <2>1. \A x \in D : q[x] \in Sent
    BY <1>1
  <2> QED
    BY <2>1, IdsFinite DEF Sent
<1> HIDE DEF p
<1>3. ASSUME NEW s \in SUBSET D PROVE Total(p, s) = v(s)
  <2>1. CASE s = {}
    BY <2>1, TotalEmpty
  <2>2. CASE s # {}
    <3>1. Max(s) \in s /\ Max(s) \in D
      BY <1>1, <2>2, MaxMember
    <3>2. IsFiniteSet(s) /\ \A x \in s : p[x].size \in Nat
      BY <1>1, <1>2, FS_Subset
    <3>3. Total(p, s) = p[Max(s)].size + Total(p, s \ {Max(s)})
      BY <3>1, <3>2, TotalRemove
    <3>4. Total(p, s \ {Max(s)}) \in Nat
      <4>1. IsFiniteSet(s \ {Max(s)})
        BY <3>2, FS_Subset
      <4> QED
        BY <3>2, <4>1, TotalNat
    <3>5. s \ {Max(s)} \in SUBSET D
      OBVIOUS
    <3>6. v(s) = Total(p, s \ {Max(s)}) + q[Max(s)].bytes
      BY <2>2, <3>5
    <3> QED
      BY <3>1, <3>3, <3>4, <3>6, <1>2
  <2> QED
    BY <2>1, <2>2
<1>4. IsFold(q, t)
  <2>1. t = [s \in SUBSET D |-> v(s)]
    BY <1>3
  <2> QED
    BY <2>1 DEF IsFold
<1> QED
  BY <1>4 DEF FoldOf

\* The bytes that an acknowledgment of the i-th message covers are those of the first i messages.
LEMMA CoveredBytes ==
  ASSUME NEW q \in Seq(Sent), NEW g, Sums(g, q), NEW i \in 1 .. Len(q)
  PROVE  Covered(SubSeq(q, 1, i)) = g[i]
<1> DEFINE h == SubSeq(q, 1, i)
           f == FoldOf(h)
           Done == {n \in 0 .. i : f[1 .. n] = g[n]}
<1>1. h \in Seq(Sent) /\ DOMAIN h = 1 .. i /\ \A n \in 1 .. i : h[n] = q[n]
  OBVIOUS
<1> HIDE DEF h
<1>2. \A s \in SUBSET DOMAIN h : f[s] = IF s = {} THEN 0 ELSE f[s \ {Max(s)}] + h[Max(s)].bytes
  BY <1>1, FoldExists, FoldEquation
<1> HIDE DEF f
<1>3. 0 \in Done
  <2>1. f[1 .. 0] = 0
    <3>1. 1 .. 0 = {} /\ {} \in SUBSET DOMAIN h
      OBVIOUS
    <3> QED
      BY <1>2, <3>1
  <2> QED
    BY <2>1 DEF Sums
<1>4. ASSUME NEW n \in 0 .. i, n \in Done, n < i PROVE n + 1 \in Done
  <2> DEFINE s == 1 .. n + 1
  <2>1. s \in SUBSET DOMAIN h /\ s # {} /\ s \ {n + 1} = 1 .. n
    <3>1. n \in Nat /\ i \in Nat /\ n + 1 <= i
      BY <1>4
    <3>2. n + 1 \in s /\ s \subseteq 1 .. i
      BY <3>1
    <3>3. \A k : k \in s \ {n + 1} <=> k \in 1 .. n
      BY <3>1
    <3> QED
      BY <1>1, <3>2, <3>3
  <2>2. Max(s) = n + 1
    <3>1. n + 1 \in s /\ \A k \in s : n + 1 >= k
      OBVIOUS
    <3>2. \A x \in s : (\A k \in s : x >= k) => x = n + 1
      BY <3>1
    <3> HIDE DEF s
    <3> QED
      BY <3>1, <3>2 DEF Max
  <2>3. f[s] = f[1 .. n] + h[n + 1].bytes
    <3> HIDE DEF s
    <3> QED
      BY <1>2, <2>1, <2>2
  <2>4. g[n + 1] = g[n] + q[n + 1].bytes /\ h[n + 1] = q[n + 1]
    <3>1. n + 1 \in 1 .. Len(q) /\ n + 1 \in 1 .. i /\ (n + 1) - 1 = n
      BY <1>4
    <3> QED
      BY <1>1, <3>1 DEF Sums
  <2>5. f[1 .. n] = g[n] /\ n + 1 \in 0 .. i
    BY <1>4
  <2> QED
    BY <2>3, <2>4, <2>5
<1>5. i \in Done
  <2>1. i \in Nat /\ i \in 0 .. i
    OBVIOUS
  <2> HIDE DEF Done
  <2> QED
    BY <1>3, <1>4, <2>1, UpTo
<1>6. Covered(h) = f[DOMAIN h]
  BY CoveredFold DEF f
<1> QED
  BY <1>1, <1>5, <1>6 DEF h

\* A subscriber with the same messages under way.
LEMMA CreditSame ==
  ASSUME NEW s, Credited(s), NEW t, IsSub(t), t.sent = s.sent, t.bytes = s.bytes, t.broken \in BOOLEAN,
         t.heartbeat \in 0 .. MaxHeartbeat, t.heartbeats \in 0 .. MaxHeartbeat
  PROVE  Credited(t)
BY DEF Credited

\* A subscriber with one more message under way.
LEMMA CreditMore ==
  ASSUME NEW s, SubOK(s), Credited(s), NEW t, IsSub(t), NEW m \in Sent, t.sent = Append(s.sent, m), t.bytes = s.bytes + m.bytes,
         t.broken = s.broken, t.heartbeat = s.heartbeat, t.heartbeats = s.heartbeats
  PROVE  Credited(t)
<1> DEFINE q == s.sent
           r == t.sent
           N == Len(q)
<1>1. PICK g : Sums(g, q) /\ s.bytes = g[N]
  BY DEF Credited
<1>2. q \in Seq(Sent) /\ N \in Nat /\ r \in Seq(Sent) /\ Len(r) = N + 1 /\ r[N + 1] = m /\ \A n \in 1 .. N : r[n] = q[n]
  <2>1. q \in Seq(Sent) /\ r = Append(q, m)
    BY DEF SubOK
  <2> HIDE DEF q, r
  <2> QED
    BY <2>1
<1>3. m.bytes \in Nat
  BY IdsFinite DEF Sent
<1> DEFINE h == [n \in 0 .. N + 1 |-> IF n = N + 1 THEN g[N] + m.bytes ELSE g[n]]
<1>4. g[N] \in Nat /\ \A n \in 0 .. N : g[n] \in Nat /\ h[n] = g[n]
  <2>1. \A n \in 0 .. N : g[n] \in Nat
    BY <1>1 DEF Sums
  <2>2. \A n \in 0 .. N : n # N + 1 /\ n \in 0 .. N + 1
    BY <1>2
  <2>3. N \in 0 .. N
    BY <1>2
  <2> QED
    BY <2>1, <2>2, <2>3
<1>5. h[N + 1] = g[N] + m.bytes /\ h[N + 1] \in Nat
  BY <1>2, <1>3, <1>4
<1>6. \A n \in 1 .. N + 1 : h[n] = h[n - 1] + r[n].bytes
  <2> SUFFICES ASSUME NEW n \in 1 .. N + 1 PROVE h[n] = h[n - 1] + r[n].bytes
    OBVIOUS
  <2>1. n - 1 \in 0 .. N /\ N \in 0 .. N
    BY <1>2
  <2>2. CASE n = N + 1
    <3>1. h[n - 1] = g[N]
      BY <1>2, <1>4, <2>1, <2>2
    <3> HIDE DEF h
    <3> QED
      BY <1>2, <1>5, <2>2, <3>1
  <2>3. CASE n \in 1 .. N
    <3>1. h[n - 1] = g[n - 1] /\ h[n] = g[n] /\ r[n] = q[n]
      BY <1>2, <1>4, <2>1, <2>3
    <3> HIDE DEF h
    <3> QED
      BY <1>1, <2>3, <3>1 DEF Sums
  <2> QED
    BY <1>2, <2>2, <2>3
<1>7. Sums(h, r)
  <2>1. h \in [0 .. N + 1 -> Nat] /\ h[0] = 0
    <3>1. h[0] = 0
      BY <1>1, <1>2, <1>4 DEF Sums
    <3>2. \A n \in 0 .. N + 1 : h[n] \in Nat
      <4>1. \A n \in 0 .. N + 1 : n = N + 1 \/ n \in 0 .. N
        BY <1>2
      <4> HIDE DEF h
      <4> QED
        BY <1>4, <1>5, <4>1
    <3> QED
      BY <3>1, <3>2
  <2> HIDE DEF h
  <2> QED
    BY <1>2, <1>6, <2>1 DEF Sums
<1>8. t.bytes = h[Len(t.sent)]
  BY <1>1, <1>2, <1>5
<1> HIDE DEF h
<1> QED
  BY <1>7, <1>8 DEF Credited

\* A subscriber whose first i messages are acknowledged: what is left is the sum of the rest.
LEMMA CreditLess ==
  ASSUME NEW s, SubOK(s), Credited(s), NEW i \in 1 .. Len(s.sent), NEW t, IsSub(t), t.sent = SubSeq(s.sent, i + 1, Len(s.sent)),
         t.bytes = s.bytes - Covered(SubSeq(s.sent, 1, i)), t.broken = s.broken, t.heartbeat = s.heartbeat,
         t.heartbeats = s.heartbeats
  PROVE  Credited(t)
<1> DEFINE q == s.sent
           r == t.sent
           N == Len(q)
<1>1. PICK g : Sums(g, q) /\ s.bytes = g[N]
  BY DEF Credited
<1>2. q \in Seq(Sent) /\ N \in Nat /\ i \in 1 .. N /\ r \in Seq(Sent) /\ Len(r) = N - i /\ \A n \in 1 .. N - i : r[n] = q[n + i]
  <2>1. q \in Seq(Sent) /\ r = SubSeq(q, i + 1, Len(q)) /\ i \in 1 .. Len(q)
    BY DEF SubOK
  <2> HIDE DEF q, r
  <2> QED
    BY <2>1
<1>3. t.bytes = g[N] - g[i]
  BY <1>1, <1>2, CoveredBytes
<1>4. \A n \in 0 .. N : g[n] \in Nat
  BY <1>1 DEF Sums
<1>5. \A n \in 0 .. N - i : g[n + i] >= g[i]
  <2> DEFINE Done == {n \in 0 .. N - i : g[n + i] >= g[i]}
  <2>1. N - i \in Nat /\ 0 \in Done
    BY <1>2, <1>4
  <2>2. ASSUME NEW n \in 0 .. N - i, n \in Done, n < N - i PROVE n + 1 \in Done
    <3> DEFINE k == n + i + 1
    <3>1. k \in 1 .. N /\ k - 1 = n + i /\ k = (n + 1) + i /\ n + 1 \in 0 .. N - i
      BY <1>2, <2>2
    <3>2. g[k] = g[n + i] + q[k].bytes
      BY <1>1, <3>1 DEF Sums
    <3>3. q[k].bytes \in Nat
      <4>1. q[k] \in Sent
        BY <1>2, <3>1
      <4> QED
        BY <4>1, IdsFinite DEF Sent
    <3>4. g[k] \in Nat /\ g[n + i] \in Nat /\ g[i] \in Nat /\ g[n + i] >= g[i]
      BY <1>2, <1>4, <2>2, <3>1
    <3>5. g[k] >= g[i]
      <4> DEFINE x == g[k]
                 y == g[n + i]
                 z == g[i]
                 b == q[k].bytes
      <4>1. x = y + b /\ b \in Nat /\ x \in Nat /\ y \in Nat /\ z \in Nat /\ y >= z
        BY <3>2, <3>3, <3>4
      <4> HIDE DEF x, y, z, b
      <4>2. x >= z
        BY <4>1
      <4> QED
        BY <4>2 DEF x, z
    <3> HIDE DEF k
    <3> QED
      BY <3>1, <3>5
  <2>3. \A n \in 0 .. N - i : n \in Done
    <3> HIDE DEF Done
    <3> QED
      BY <2>1, <2>2, UpTo
  <2> QED
    BY <2>3
<1> DEFINE h == [n \in 0 .. N - i |-> g[n + i] - g[i]]
<1>6. \A n \in 0 .. N - i : h[n] = g[n + i] - g[i] /\ h[n] \in Nat
  <2> SUFFICES ASSUME NEW n \in 0 .. N - i PROVE h[n] = g[n + i] - g[i] /\ h[n] \in Nat
    OBVIOUS
  <2>1. n + i \in 0 .. N /\ i \in 0 .. N
    BY <1>2
  <2>2. g[n + i] \in Nat /\ g[i] \in Nat /\ g[n + i] >= g[i]
    BY <1>4, <1>5, <2>1
  <2> QED
    BY <2>2
<1>7. h[0] = 0 /\ h \in [0 .. N - i -> Nat]
  <2>1. 0 \in 0 .. N - i /\ 0 + i = i /\ i \in 0 .. N
    BY <1>2
  <2>2. h[0] = g[0 + i] - g[i] /\ g[i] \in Nat
    BY <1>4, <1>6, <2>1
  <2>3. h[0] = 0
    BY <2>1, <2>2
  <2> QED
    BY <1>6, <2>3
<1>8. \A n \in 1 .. N - i : h[n] = h[n - 1] + r[n].bytes
  <2> SUFFICES ASSUME NEW n \in 1 .. N - i PROVE h[n] = h[n - 1] + r[n].bytes
    OBVIOUS
  <2>1. n \in 0 .. N - i /\ n - 1 \in 0 .. N - i /\ n + i \in 1 .. N /\ (n - 1) + i = (n + i) - 1 /\ r[n] = q[n + i]
        /\ n + i \in 0 .. N /\ (n + i) - 1 \in 0 .. N /\ i \in 0 .. N
    BY <1>2
  <2>2. g[n + i] = g[(n + i) - 1] + q[n + i].bytes
    BY <1>1, <2>1 DEF Sums
  <2>3. h[n] = g[n + i] - g[i] /\ h[n - 1] = g[(n + i) - 1] - g[i]
    BY <1>6, <2>1
  <2>4. g[(n + i) - 1] \in Nat /\ g[i] \in Nat /\ q[n + i].bytes \in Nat
    <3>1. q[n + i] \in Sent
      BY <1>2, <2>1
    <3>2. q[n + i].bytes \in Nat
      BY <3>1, IdsFinite DEF Sent
    <3> HIDE DEF q
    <3> QED
      BY <1>4, <2>1, <3>2
  <2>5. r[n].bytes = q[n + i].bytes
    BY <2>1
  <2> DEFINE x == g[(n + i) - 1]
             y == g[n + i]
             z == g[i]
             b == q[n + i].bytes
             u == h[n]
             v == h[n - 1]
  <2>6. y = x + b /\ u = y - z /\ v = x - z /\ x \in Nat /\ z \in Nat /\ b \in Nat
    BY <2>2, <2>3, <2>4
  <2> HIDE DEF h, x, y, z, b, u, v
  <2>7. u = v + b
    BY <2>6
  <2> QED
    BY <2>5, <2>7 DEF u, v, b
<1>9. Sums(h, r)
  <2> HIDE DEF h
  <2> QED
    BY <1>2, <1>7, <1>8 DEF Sums
<1>10. t.bytes = h[Len(t.sent)]
  <2>1. N - i \in 0 .. N - i /\ (N - i) + i = N
    BY <1>2
  <2> QED
    BY <1>2, <1>3, <1>6, <2>1
<1> HIDE DEF h
<1> QED
  BY <1>9, <1>10 DEF Credited

\* Closed sockets keep their credit.
LEMMA CreditBreak ==
  ASSUME SubsOK(subs), Credits(subs), NEW cs
  PROVE  Credits(Break(cs))
<1> SUFFICES ASSUME NEW c \in Conns PROVE Credited(Break(cs)[c])
  BY DEF Credits, Break
<1>1. SubOK(subs[c]) /\ Credited(subs[c])
  BY DEF SubsOK, Credits
<1>2. CASE Break(cs)[c] = subs[c]
  BY <1>1, <1>2
<1>3. CASE Break(cs)[c] = [subs[c] EXCEPT !.broken = TRUE]
  <2> DEFINE s == subs[c]
             t == [s EXCEPT !.broken = TRUE]
  <2>1. IsSub(t) /\ t.sent = s.sent /\ t.bytes = s.bytes /\ t.broken = TRUE /\ t.heartbeat = s.heartbeat /\ t.heartbeats = s.heartbeats
    BY <1>1 DEF SubOK, SubFields, IsSub
  <2>2. Credited(s) /\ s.heartbeat \in 0 .. MaxHeartbeat /\ s.heartbeats \in 0 .. MaxHeartbeat
    BY <1>1 DEF Credited
  <2> HIDE DEF t, s
  <2>3. Credited(t)
    BY <2>1, <2>2, CreditSame
  <2> QED
    BY <1>3, <2>3 DEF t, s
<1> QED
  BY <1>2, <1>3, BreakOK

\* A step of the handler of one connection.
LEMMA CreditChange ==
  ASSUME SubsOK(subs), Credits(subs), NEW c \in Conns, NEW new, Credited(new),
         subs' = [subs EXCEPT ![c] = new]
  PROVE  Credits(subs')
<1>1. DOMAIN subs = Conns
  BY DEF SubsOK
<1> QED
  BY <1>1 DEF Credits

\* sendAvailable adds what it sends.
LEMMA StartWriteCredit ==
  ASSUME PublisherInv, CreditInv, NEW c \in Conns, StartWrite(c)
  PROVE  Credits(subs')
<1> DEFINE s == subs[c]
<1>1. SubsOK(subs) /\ SubOK(s) /\ Credited(s)
  BY DEF PublisherInv, TypeInv, SubsOK, CreditInv, Credits
<1>2. PICK i \in NextPayload(c) : subs' = [subs EXCEPT ![c] = Sending(s, i, payloads[i])]
  BY StartWriteSub
<1> DEFINE b == payloads[i]
           m == [stream |-> b.stream, sequence |-> b.sequence, bytes |-> b.size]
           t == Sending(s, i, b)
<1>3. b \in Payload /\ i \in Ids
  BY ChosenPayload
<1>4. m \in Sent
  BY <1>3, IdsFinite DEF Payload, Sent
<1>5. IsSub(t) /\ t.sent = Append(s.sent, m) /\ t.bytes = s.bytes + m.bytes /\ t.broken = s.broken /\ t.heartbeat = s.heartbeat
      /\ t.heartbeats = s.heartbeats
  <2>0. IsSub(t)
    BY <1>1 DEF Sending, SubOK, IsSub
  <2> HIDE DEF t, s
  <2>1. /\ t.broken = s.broken /\ t.heartbeat = s.heartbeat /\ t.heartbeats = s.heartbeats /\ t.bytes = s.bytes + b.size
        /\ t.sent = Append(s.sent, m)
    BY <1>1, SendingFields DEF t
  <2> QED
    BY <2>0, <2>1
<1> HIDE DEF t, m, b, s
<1>6. Credited(t)
  BY <1>1, <1>4, <1>5, CreditMore
<1>7. subs' = [subs EXCEPT ![c] = t]
  BY <1>2 DEF t, b
<1> QED
  BY <1>1, <1>6, <1>7, CreditChange DEF CreditInv

\* control gives back what the acknowledgment covers.
LEMMA ReadControlCredit ==
  ASSUME PublisherInv, CreditInv, NEW c \in Conns, ReadControl(c)
  PROVE  Credits(subs')
<1> DEFINE m == Head(controls[c])
           s == subs[c]
           i == Min(SentIndexes(c, m))
           value == IF InvalidControl(c, m) THEN [s EXCEPT !.broken = TRUE]
                    ELSE IF m.kind = "heartbeat" THEN [s EXCEPT !.heartbeat = 0]
                    ELSE IF Repeated(c, m) THEN s
                    ELSE Acknowledged(s, i)
<1>1. SubsOK(subs) /\ SubOK(s) /\ DOMAIN subs = Conns /\ Credited(s)
  BY DEF PublisherInv, TypeInv, SubsOK, CreditInv, Credits
<1>2. subs' = [subs EXCEPT ![c] = value]
  BY <1>1 DEF ReadControl
<1>3. m.kind \in {"ack", "heartbeat"}
  <2>1. controls[c] \in Seq(Ack \cup Beat) /\ controls[c] # <<>>
    BY DEF PublisherInv, SocketInv, ReadControl
  <2>2. m \in Ack \cup Beat
    BY <2>1
  <2> QED
    BY <2>2 DEF Ack, Beat
<1>4. s.broken \in BOOLEAN /\ s.heartbeat \in 0 .. MaxHeartbeat /\ s.heartbeats \in 0 .. MaxHeartbeat /\ 0 \in 0 .. MaxHeartbeat
  BY <1>1, LimitAssumption DEF Credited
<1> HIDE DEF m
<1>5. ASSUME InvalidControl(c, m) PROVE Credited(value)
  <2> DEFINE t == [s EXCEPT !.broken = TRUE]
  <2>1. IsSub(t) /\ t.sent = s.sent /\ t.bytes = s.bytes /\ t.broken = TRUE /\ t.heartbeat = s.heartbeat /\ t.heartbeats = s.heartbeats
    BY <1>1 DEF SubOK, SubFields, IsSub
  <2>2. value = t
    BY <1>5
  <2> HIDE DEF t, s
  <2>3. Credited(t)
    BY <1>1, <1>4, <2>1, CreditSame
  <2> QED
    BY <2>2, <2>3
<1>6. ASSUME ~InvalidControl(c, m) /\ m.kind = "heartbeat" PROVE Credited(value)
  <2> DEFINE t == [s EXCEPT !.heartbeat = 0]
  <2>1. IsSub(t) /\ t.sent = s.sent /\ t.bytes = s.bytes /\ t.broken = s.broken /\ t.heartbeat = 0 /\ t.heartbeats = s.heartbeats
    BY <1>1 DEF SubOK, SubFields, IsSub
  <2>2. value = t
    BY <1>6
  <2> HIDE DEF t, s
  <2>3. Credited(t)
    BY <1>1, <1>4, <2>1, CreditSame
  <2> QED
    BY <2>2, <2>3
<1>7. ASSUME ~InvalidControl(c, m) /\ m.kind # "heartbeat" /\ Repeated(c, m) PROVE Credited(value)
  <2>1. value = s
    BY <1>7
  <2> QED
    BY <1>1, <2>1
<1>8. ASSUME ~InvalidControl(c, m) /\ m.kind # "heartbeat" /\ ~Repeated(c, m) PROVE Credited(value)
  <2>1. SentIndexes(c, m) # {}
    BY <1>3, <1>8 DEF InvalidControl
  <2>2. i \in 1 .. Len(s.sent)
    BY <1>1, <2>1, SentFound
  <2> DEFINE last == s.sent[i]
             rest == SubSeq(s.sent, i + 1, Len(s.sent))
             paid == Covered(SubSeq(s.sent, 1, i))
             u == [s EXCEPT !.bytes = @ - paid]
             v == [u EXCEPT !.lastACK = last]
             t == [v EXCEPT !.sent = rest]
  <2>3. value = t
    BY <1>8 DEF Acknowledged, Covered
  <2>4. DOMAIN s = SubFields
    BY <1>1 DEF SubOK
  <2> HIDE DEF s, last, rest, paid
  <2>5. DOMAIN u = SubFields /\ u.bytes = s.bytes - paid /\ u.broken = s.broken /\ u.heartbeat = s.heartbeat /\ u.heartbeats = s.heartbeats
    BY <2>4 DEF SubFields
  <2> HIDE DEF u
  <2>6. DOMAIN v = SubFields /\ v.bytes = s.bytes - paid /\ v.broken = s.broken /\ v.heartbeat = s.heartbeat /\ v.heartbeats = s.heartbeats
    BY <2>5 DEF SubFields
  <2> HIDE DEF v
  <2>7. IsSub(t) /\ t.sent = rest /\ t.bytes = s.bytes - paid /\ t.broken = s.broken /\ t.heartbeat = s.heartbeat /\ t.heartbeats = s.heartbeats
    BY <2>6 DEF SubFields, IsSub
  <2> HIDE DEF t, i
  <2>8. Credited(t)
    <3>1. t.sent = SubSeq(s.sent, i + 1, Len(s.sent)) /\ t.bytes = s.bytes - Covered(SubSeq(s.sent, 1, i))
      BY <2>7 DEF rest, paid
    <3> QED
      BY <1>1, <2>2, <2>7, <3>1, CreditLess
  <2> QED
    BY <2>3, <2>8
<1>9. Credited(value)
  BY <1>5, <1>6, <1>7, <1>8
<1> HIDE DEF value
<1> QED
  BY <1>1, <1>2, <1>9, CreditChange DEF CreditInv

\* A subscriber is a record of its fields.
LEMMA SubRecord ==
  ASSUME NEW s, IsSub(s)
  PROVE  s = [pc |-> s.pc, broken |-> s.broken, contract |-> s.contract, stream |-> s.stream, sequence |-> s.sequence,
              sent |-> s.sent, bytes |-> s.bytes, lastACK |-> s.lastACK, heartbeat |-> s.heartbeat,
              heartbeats |-> s.heartbeats, writing |-> s.writing]
<1> DEFINE t == [pc |-> s.pc, broken |-> s.broken, contract |-> s.contract, stream |-> s.stream, sequence |-> s.sequence,
                 sent |-> s.sent, bytes |-> s.bytes, lastACK |-> s.lastACK, heartbeat |-> s.heartbeat,
                 heartbeats |-> s.heartbeats, writing |-> s.writing]
<1>1. DOMAIN s = SubFields /\ DOMAIN t = SubFields
  BY DEF IsSub, SubFields
<1>2. \A x \in SubFields : s[x] = t[x]
  BY DEF SubFields
<1>3. t = [x \in SubFields |-> t[x]]
  BY DEF SubFields
<1> HIDE DEF t
<1>4. [x \in SubFields |-> s[x]] = [x \in SubFields |-> t[x]]
  BY <1>2
<1>5. s = t
  BY <1>3, <1>4 DEF IsSub
<1> QED
  BY <1>5 DEF t

\* A connection without a handler has all of its credit.
LEMMA NobodyCredited == Credited(NoSubscriber)
<1> DEFINE g == [n \in 0 .. 0 |-> 0]
<1>1. NoSubscriber.sent = <<>> /\ NoSubscriber.bytes = 0 /\ NoSubscriber.broken = FALSE /\ NoSubscriber.heartbeat = 0
      /\ NoSubscriber.heartbeats = 0
  BY DEF NoSubscriber
<1>5. IsSub(NoSubscriber)
  BY DEF IsSub, NoSubscriber, SubFields
<1>2. g[0] = 0 /\ g \in [0 .. 0 -> Nat] /\ Len(<<>>) = 0 /\ 1 .. 0 = {}
  OBVIOUS
<1> HIDE DEF g
<1>3. Sums(g, <<>>)
  BY <1>2 DEF Sums
<1>4. 0 \in 0 .. MaxHeartbeat
  BY LimitAssumption
<1> QED
  BY <1>1, <1>2, <1>3, <1>4, <1>5 DEF Credited

\* The other steps of a handler send and acknowledge nothing.
LEMMA HandlerCredit ==
  ASSUME PublisherInv, CreditInv, NEW c \in Conns, HandlerStep(c)
  PROVE  Credits(subs')
<1> DEFINE s == subs[c]
<1>1. SubsOK(subs) /\ SubOK(s) /\ DOMAIN subs = Conns /\ DOMAIN s = SubFields /\ Credited(s)
      /\ Credits(subs)
  BY DEF PublisherInv, TypeInv, SubsOK, SubOK, CreditInv, Credits
<1>2. s.broken \in BOOLEAN /\ s.heartbeat \in 0 .. MaxHeartbeat /\ s.heartbeats \in 0 .. MaxHeartbeat /\ MaxHeartbeat \in Nat
      /\ stopped \in BOOLEAN
  BY <1>1, LimitAssumption DEF Credited, CreditInv
<1>3. CASE Register(c)
  <2> DEFINE t == [s EXCEPT !.pc = "accepting"]
  <2>1. IsSub(t) /\ t.sent = s.sent /\ t.bytes = s.bytes /\ t.broken = s.broken /\ t.heartbeat = s.heartbeat /\ t.heartbeats = s.heartbeats
    BY <1>1 DEF SubFields, IsSub
  <2>2. subs' = [subs EXCEPT ![c] = t]
    BY <1>3 DEF Register
  <2> HIDE DEF t, s
  <2>3. Credited(t)
    BY <1>1, <1>2, <2>1, CreditSame
  <2> QED
    BY <1>1, <2>2, <2>3, CreditChange
<1>4. CASE Accept(c)
  <2> DEFINE u == [s EXCEPT !.pc = "hello"]
             t == [u EXCEPT !.broken = stopped]
  <2>1. DOMAIN u = SubFields /\ u.sent = s.sent /\ u.bytes = s.bytes /\ u.heartbeat = s.heartbeat /\ u.heartbeats = s.heartbeats
    BY <1>1 DEF SubFields
  <2>2. subs' = [subs EXCEPT ![c] = t]
    BY <1>1, <1>4 DEF Accept
  <2> HIDE DEF u
  <2>3. IsSub(t) /\ t.sent = s.sent /\ t.bytes = s.bytes /\ t.broken = stopped /\ t.heartbeat = s.heartbeat /\ t.heartbeats = s.heartbeats
    BY <2>1 DEF SubFields, IsSub
  <2> HIDE DEF t, s
  <2>4. t.broken \in BOOLEAN
    BY <1>2, <2>3
  <2>5. Credited(t)
    BY <1>1, <1>2, <2>3, <2>4, CreditSame
  <2> QED
    BY <1>1, <2>2, <2>5, CreditChange
<1>5. CASE Hello(c)
  <2> DEFINE u == [s EXCEPT !.pc = "ready"]
             t == [u EXCEPT !.contract = source.contract]
  <2>1. DOMAIN u = SubFields /\ u.sent = s.sent /\ u.bytes = s.bytes /\ u.heartbeat = s.heartbeat /\ u.heartbeats = s.heartbeats
        /\ u.broken = s.broken
    BY <1>1 DEF SubFields
  <2>2. subs' = [subs EXCEPT ![c] = t]
    BY <1>1, <1>5 DEF Hello
  <2> HIDE DEF u
  <2>3. IsSub(t) /\ t.sent = s.sent /\ t.bytes = s.bytes /\ t.broken = s.broken /\ t.heartbeat = s.heartbeat /\ t.heartbeats = s.heartbeats
    BY <2>1 DEF SubFields, IsSub
  <2> HIDE DEF t, s
  <2>4. Credited(t)
    BY <1>1, <1>2, <2>3, CreditSame
  <2> QED
    BY <1>1, <2>2, <2>4, CreditChange
<1>6. CASE StartWrite(c)
  BY <1>6, StartWriteCredit
<1>7. CASE AskFull(c)
  BY <1>1, <1>7 DEF AskFull
<1>8. CASE FinishWrite(c)
  <2>1. PICK b \in BOOLEAN : subs' = [subs EXCEPT ![c] = [s EXCEPT !.writing = 0, !.broken = b]]
    BY <1>8, FinishWriteSub
  <2> DEFINE u == [s EXCEPT !.writing = 0]
             t == [u EXCEPT !.broken = b]
  <2>2. DOMAIN u = SubFields /\ u.sent = s.sent /\ u.bytes = s.bytes /\ u.heartbeat = s.heartbeat /\ u.heartbeats = s.heartbeats
    BY <1>1 DEF SubFields
  <2>3. subs' = [subs EXCEPT ![c] = t]
    BY <2>1
  <2> HIDE DEF u
  <2>4. IsSub(t) /\ t.sent = s.sent /\ t.bytes = s.bytes /\ t.broken = b /\ t.heartbeat = s.heartbeat /\ t.heartbeats = s.heartbeats
    BY <2>2 DEF SubFields, IsSub
  <2> HIDE DEF t, s
  <2>5. t.broken \in BOOLEAN
    BY <2>4
  <2>6. Credited(t)
    BY <1>1, <1>2, <2>4, <2>5, CreditSame
  <2> QED
    BY <1>1, <2>3, <2>6, CreditChange
<1>9. CASE StartHeartbeat(c)
  <2> DEFINE n == s.heartbeats + 1
             u == [s EXCEPT !.heartbeats = n]
             t == [u EXCEPT !.heartbeat = n]
  <2>1. DOMAIN u = SubFields /\ u.sent = s.sent /\ u.bytes = s.bytes /\ u.broken = s.broken /\ u.heartbeats = n
    BY <1>1 DEF SubFields
  <2>2. subs' = [subs EXCEPT ![c] = t] /\ s.heartbeats < MaxHeartbeat
    BY <1>1, <1>9 DEF StartHeartbeat
  <2>3. n \in 0 .. MaxHeartbeat
    <3> HIDE DEF s
    <3> QED
      BY <1>2, <2>2
  <2> HIDE DEF u, n
  <2>4. IsSub(t) /\ t.sent = s.sent /\ t.bytes = s.bytes /\ t.broken = s.broken /\ t.heartbeat = n /\ t.heartbeats = n
    BY <2>1 DEF SubFields, IsSub
  <2> HIDE DEF t, s
  <2>5. Credited(t)
    BY <1>1, <1>2, <2>3, <2>4, CreditSame
  <2> QED
    BY <1>1, <2>2, <2>5, CreditChange
<1>10. CASE ReadControl(c)
  BY <1>10, ReadControlCredit
<1>11. CASE Expire(c)
  <2> DEFINE t == [s EXCEPT !.broken = TRUE]
  <2>1. IsSub(t) /\ t.sent = s.sent /\ t.bytes = s.bytes /\ t.broken = TRUE /\ t.heartbeat = s.heartbeat /\ t.heartbeats = s.heartbeats
    BY <1>1 DEF SubFields, IsSub
  <2>2. subs' = [subs EXCEPT ![c] = t]
    BY <1>11 DEF Expire
  <2> HIDE DEF t, s
  <2>3. Credited(t)
    BY <1>1, <1>2, <2>1, CreditSame
  <2> QED
    BY <1>1, <2>2, <2>3, CreditChange
<1>12. CASE Leave(c)
  <2>1. Credited(NoSubscriber)
    BY NobodyCredited
  <2>2. subs' = [subs EXCEPT ![c] = NoSubscriber]
    BY <1>12 DEF Leave
  <2> QED
    BY <1>1, <2>1, <2>2, CreditChange
<1> QED
  BY <1>3, <1>4, <1>5, <1>6, <1>7, <1>8, <1>9, <1>10, <1>11, <1>12 DEF HandlerStep

\* Every step keeps the credit of the subscribers.
LEMMA CreditStep == ASSUME PublisherInv, CreditInv, [Next]_vars PROVE CreditInv'
<1>1. SubsOK(subs) /\ Credits(subs)
  BY DEF PublisherInv, TypeInv, CreditInv
<1>2. stopped \in BOOLEAN /\ released \in BOOLEAN
  BY DEF CreditInv
<1>3. stopped' \in BOOLEAN /\ released' \in BOOLEAN
  <2>1. ASSUME NEW c \in Conns, HandlerStep(c) \/ ClientStep(c) PROVE stopped' = stopped /\ (released' = released \/ released' = TRUE)
    <3>1. CASE HandlerStep(c)
      BY <3>1 DEF HandlerStep, Register, Accept, Hello, StartWrite, AskFull, FinishWrite, StartHeartbeat, ReadControl, Expire, Leave
    <3>2. CASE ClientStep(c)
      BY <3>2 DEF ClientStep, Receive, AnswerHeartbeat, LoseConnection, Disconnect
    <3> QED
      BY <2>1, <3>1, <3>2
  <2>2. ASSUME PublisherStep PROVE stopped' = stopped /\ (released' = released \/ released' = FALSE)
    <3>1. CASE Forget \/ Capture \/ EarlyWake \/ Admit \/ Shed \/ PublishFails
      BY <3>1 DEF Forget, Capture, EarlyWake, Publish, Admit, Shed, PublishFails
    <3>2. CASE WaitReleased
      BY <3>2 DEF WaitReleased
    <3>3. CASE ReplaceLarge \/ InstallDelta \/ InstallFull \/ CheckFull \/ InstallExtra \/ EndRun
      BY <3>3 DEF ReplaceLarge, InstallDelta, InstallFull, CheckFull, InstallExtra, EndRun
    <3> QED
      BY <2>2, <3>1, <3>2, <3>3 DEF PublisherStep
  <2>3. CASE Advance
    BY <1>2, <2>3 DEF Advance
  <2>4. CASE StopStreams
    BY <1>2, <2>4 DEF StopStreams
  <2>5. CASE UNCHANGED vars
    BY <1>2, <2>5 DEF vars
  <2> QED
    BY <1>2, <2>1, <2>2, <2>3, <2>4, <2>5 DEF Next
<1>4. Credits(subs')
  <2>1. (\E cs : subs' = Break(cs)) \/ subs' = subs => Credits(subs')
    BY <1>1, CreditBreak
  <2>2. CASE PublisherStep
    <3>1. CASE Forget \/ Capture \/ EarlyWake \/ Admit
      BY <2>1, <3>1 DEF Forget, Capture, EarlyWake, Publish, Admit
    <3>2. CASE Shed \/ PublishFails \/ WaitReleased
      BY <2>1, <3>2 DEF Shed, PublishFails, WaitReleased
    <3>3. CASE ReplaceLarge \/ InstallDelta \/ InstallFull \/ CheckFull \/ InstallExtra \/ EndRun
      BY <2>1, <3>3 DEF ReplaceLarge, InstallDelta, InstallFull, CheckFull, InstallExtra, EndRun
    <3> QED
      BY <2>2, <3>1, <3>2, <3>3 DEF PublisherStep
  <2>3. CASE Advance \/ StopStreams \/ UNCHANGED vars
    BY <2>1, <2>3 DEF Advance, StopStreams, vars
  <2>4. ASSUME NEW c \in Conns, ClientStep(c) PROVE Credits(subs')
    BY <2>1, <2>4 DEF ClientStep, Receive, AnswerHeartbeat, LoseConnection, Disconnect
  <2> QED
    BY <2>2, <2>3, <2>4, HandlerCredit DEF Next
<1> QED
  BY <1>3, <1>4 DEF CreditInv

\* The invariant of the types.
THEOREM CreditInvariant == Spec => []CreditInv
<1>1. Init => CreditInv
  <2> SUFFICES ASSUME Init PROVE CreditInv
    OBVIOUS
  <2>1. subs = [c \in Conns |-> NoSubscriber]
    BY DEF Init
  <2> QED
    BY <2>1, NobodyCredited DEF Init, CreditInv, Credits
<1>2. PublisherInv /\ CreditInv /\ [Next]_vars => CreditInv'
  BY CreditStep
<1> QED
  BY <1>1, <1>2, PublisherInvariant, PTL DEF Spec

\* The types of the specification: with the retained bytes and the credit of every subscriber, which only
\* additions and subtractions keep, never below zero.
THEOREM TypesHold == Spec => []TypeOK
<1>1. Inv /\ CreditInv => TypeOK
  <2> SUFFICES ASSUME Inv, CreditInv PROVE TypeOK
    OBVIOUS
  <2>1. PublisherInv
    BY DEF Inv
  <2>2. subs \in [Conns -> Subscriber]
    <3> SUFFICES ASSUME NEW c \in Conns PROVE subs[c] \in Subscriber
      <4>1. subs = [c \in Conns |-> subs[c]]
        BY DEF CreditInv, Credits
      <4> QED
        BY <4>1
    <3> DEFINE s == subs[c]
    <3>1. SubOK(s) /\ Credited(s)
      BY <2>1 DEF PublisherInv, TypeInv, SubsOK, CreditInv, Credits
    <3>2. s = [pc |-> s.pc, broken |-> s.broken, contract |-> s.contract, stream |-> s.stream, sequence |-> s.sequence,
               sent |-> s.sent, bytes |-> s.bytes, lastACK |-> s.lastACK, heartbeat |-> s.heartbeat,
               heartbeats |-> s.heartbeats, writing |-> s.writing]
      BY SubRecord, <3>1 DEF Credited
    <3> HIDE DEF s
    <3>3. s.bytes \in Nat
      <4>1. PICK g : Sums(g, s.sent) /\ s.bytes = g[Len(s.sent)]
        BY <3>1 DEF Credited
      <4>2. Len(s.sent) \in 0 .. Len(s.sent)
        BY <3>1 DEF SubOK
      <4> QED
        BY <4>1, <4>2 DEF Sums
    <3>4. s \in Subscriber
      BY <3>1, <3>2, <3>3 DEF SubOK, Credited, Subscriber
    <3> QED
      BY <3>4 DEF s
  <2>3. retained \in Nat
    BY <2>1, RetainedLimit
  <2>4. peers \in [Conns -> Peer] /\ shown \in [Conns -> Frame \cup {None}]
    BY DEF Inv, ConnInv
  <2>5. writers \in Seq(Conns)
    BY <2>1 DEF PublisherInv, LeaseInv
  <2>6. stopped \in BOOLEAN /\ released \in BOOLEAN
    BY DEF CreditInv
  <2> QED
    BY <2>1, <2>2, <2>3, <2>4, <2>5, <2>6 DEF PublisherInv, TypeInv, TypeOK
<1> QED
  BY <1>1, StreamInvariant, CreditInvariant, PTL
=============================================================================
