----------------------- MODULE MetricsCollectorProofs -----------------------
(***************************************************************************)
(* For any number of events, workers, Starts and failing calls of Apply:   *)
(* every processed event is counted once, and a Stop that returns nil has  *)
(* flushed all of them.                                                    *)
(***************************************************************************)
EXTENDS MetricsCollector, FiniteSetTheorems, FunctionTheorems, SequenceTheorems, TLAPS

\* An event that was accepted is queued once, or with one worker, or neither.
PlacesInv ==
  /\ \A i, j \in 1..Len(queue) : queue[i] = queue[j] => i = j
  /\ \A x, y \in Gens \X Workers : hand[x] \in Events /\ hand[x] = hand[y] => x = y
  /\ Queued \cap InHand = {}
  /\ Queued \cup InHand \subseteq {e \in Events : call[e] = "accepted"}
  /\ IsFiniteSet(Processed)

\* Goroutines belong to a Start, and nothing runs once Stop flushes.
LifeInv ==
  /\ started => gen > 0
  /\ \A g \in Gens : g > gen => flush[g] = "off" /\ \A w \in Workers : hand[<<g, w>>] = "off"
  /\ owner # "free" => ~started
  /\ owner = "apply" \/ stopped = "ok" => AllGone /\ ~started /\ pending = Empty
  /\ stopped = "ok" => owner = "free"

\* Only who is between drainPending and Apply holds drained aggregates.
BatchInv ==
  /\ \A g \in Gens : flush[g] # "apply" => batch[g] = Empty
  /\ owner # "apply" => batch[0] = Empty

MetricsInv == MetricsTypeOK /\ PlacesInv /\ LifeInv /\ BatchInv /\ CountedOnce
-----------------------------------------------------------------------------
\* A set of tuples grows by the pairs of a new first component.
LEMMA AddPairs ==
  \A U, x, S : IsFiniteSet(U) /\ IsFiniteSet(S) /\ (\A u \in U : u[1] # x) =>
    /\ IsFiniteSet(U \cup ({x} \X S))
    /\ Cardinality(U \cup ({x} \X S)) = Cardinality(U) + Cardinality(S)
<1> TAKE U, x, S
<1> HAVE IsFiniteSet(U) /\ IsFiniteSet(S) /\ \A u \in U : u[1] # x
<1>1. IsFiniteSet({x}) /\ Cardinality({x}) = 1
  BY FS_Singleton
<1>2. IsFiniteSet({x} \X S) /\ Cardinality({x} \X S) = Cardinality({x}) * Cardinality(S)
  BY <1>1, FS_Product
<1>3. Cardinality(S) \in Nat /\ Cardinality(U) \in Nat
  BY FS_CardinalityType
<1>4. Cardinality({x} \X S) = Cardinality(S)
  BY <1>1, <1>2, <1>3
<1>5. U \cap ({x} \X S) = {}
  OBVIOUS
<1>6. Cardinality(U \cap ({x} \X S)) = 0
  BY <1>5, FS_EmptySet
<1>7. /\ IsFiniteSet(U \cup ({x} \X S))
      /\ Cardinality(U \cup ({x} \X S)) =
           Cardinality(U) + Cardinality({x} \X S) - Cardinality(U \cap ({x} \X S))
  BY <1>2, FS_Union
<1> QED  BY <1>3, <1>4, <1>6, <1>7

\* Counting to n.
LEMMA CountTo ==
  ASSUME NEW n \in Nat
  PROVE  IsFiniteSet(1..n) /\ Cardinality(1..n) = n
<1>1. IsFiniteSet(1..n) /\ Cardinality(1..n) = IF 1 > n THEN 0 ELSE n - 1 + 1
  BY FS_Interval
<1> QED  BY <1>1

\* Finitely many natural numbers have a sum.
LEMMA PairsFinite ==
  ASSUME NEW f, IsFiniteSet(DOMAIN f), \A x \in DOMAIN f : f[x] \in Nat
  PROVE  IsFiniteSet(Pairs(f)) /\ Total(f) \in Nat
<1> DEFINE F == [x \in DOMAIN f |-> {x} \X (1..f[x])]
           T == {{x} \X (1..f[x]) : x \in DOMAIN f}
<1>1. F \in Surjection(DOMAIN f, T)
  BY DEF Surjection
<1>2. IsFiniteSet(T)
  BY <1>1, FS_Surjection
<1>3. \A t \in T : IsFiniteSet(t)
  <2> SUFFICES ASSUME NEW x \in DOMAIN f PROVE IsFiniteSet({x} \X (1..f[x]))
    OBVIOUS
  <2>1. IsFiniteSet({x}) /\ IsFiniteSet(1..f[x])
    BY FS_Singleton, CountTo
  <2> QED  BY <2>1, FS_Product
<1> HIDE DEF T
<1>4. IsFiniteSet(UNION T)
  BY <1>2, <1>3, FS_UNION
<1>5. IsFiniteSet(Pairs(f))
  BY <1>4 DEF T, Pairs
<1> QED  BY <1>5, FS_CardinalityType DEF Total

\* The sum of one more number.
LEMMA TotalAdd ==
  ASSUME NEW f, NEW h, NEW x, x \notin DOMAIN f, DOMAIN h = DOMAIN f \cup {x},
         IsFiniteSet(DOMAIN f), \A y \in DOMAIN h : h[y] \in Nat,
         \A y \in DOMAIN f : h[y] = f[y]
  PROVE  Total(h) = Total(f) + h[x]
<1> DEFINE U == Pairs(f)
           S == 1..h[x]
<1>1. Pairs(h) = Pairs(f) \cup ({x} \X S)
  <2> DEFINE P(y) == {y} \X (1..f[y])
             Q(y) == {y} \X (1..h[y])
  <2>1. \A y \in DOMAIN f : P(y) = Q(y)
    OBVIOUS
  <2>2. Q(x) = {x} \X S
    OBVIOUS
  <2>3. \A u : u \in Pairs(h) <=> \E y \in DOMAIN f \cup {x} : u \in Q(y)
    BY Zenon DEF Pairs
  <2>4. \A u : u \in Pairs(f) <=> \E y \in DOMAIN f : u \in P(y)
    BY Zenon DEF Pairs
  <2> HIDE DEF P, Q
  <2>5. \A u : u \in Pairs(h) <=> u \in Pairs(f) \/ u \in {x} \X S
    BY <2>1, <2>2, <2>3, <2>4
  <2> QED  BY <2>5, Zenon
<1>2. IsFiniteSet(U)
  BY PairsFinite
<1>3. IsFiniteSet(S) /\ Cardinality(S) = h[x]
  BY CountTo
<1>4. IsFiniteSet(U) /\ IsFiniteSet(S) /\ \A u \in U : u[1] # x
  BY <1>2, <1>3 DEF Pairs
<1> HIDE DEF U, S
<1>5. /\ IsFiniteSet(U \cup ({x} \X S))
      /\ Cardinality(U \cup ({x} \X S)) = Cardinality(U) + Cardinality(S)
  BY <1>4, AddPairs, ZenonT(60)
<1> QED  BY <1>1, <1>3, <1>5 DEF U, Total

\* Changing one number changes the sum by as much.
LEMMA TotalChange ==
  ASSUME NEW D, IsFiniteSet(D), NEW f \in [D -> Nat], NEW h \in [D -> Nat], NEW x \in D,
         \A y \in D \ {x} : h[y] = f[y]
  PROVE  Total(h) + f[x] = Total(f) + h[x]
<1> DEFINE rest == [y \in D \ {x} |-> f[y]]
<1>1. IsFiniteSet(D \ {x})
  BY FS_RemoveElement
<1>2. DOMAIN rest = D \ {x} /\ D = (D \ {x}) \cup {x}
  OBVIOUS
<1>3. \A y \in DOMAIN rest : rest[y] \in Nat /\ rest[y] = f[y] /\ rest[y] = h[y]
  OBVIOUS
<1> HIDE DEF rest
<1>4. Total(rest) \in Nat
  BY <1>1, <1>2, <1>3, PairsFinite
<1>5. Total(f) = Total(rest) + f[x]
  BY <1>1, <1>2, <1>3, TotalAdd
<1>6. Total(h) = Total(rest) + h[x]
  BY <1>1, <1>2, <1>3, TotalAdd
<1> QED  BY <1>4, <1>5, <1>6

\* Zeros have the sum zero.
LEMMA TotalZero ==
  ASSUME NEW f, \A x \in DOMAIN f : f[x] = 0
  PROVE  Total(f) = 0
<1>1. \A x \in DOMAIN f : 1..f[x] = {}
  OBVIOUS
<1>2. Pairs(f) = {}
  BY <1>1 DEF Pairs
<1> QED  BY <1>2, FS_EmptySet DEF Total
-----------------------------------------------------------------------------
\* Aggregates are added column by column.
LEMMA MergeType ==
  ASSUME NEW a \in Aggregates, NEW b \in Aggregates
  PROVE  /\ Merge(a, b) \in Aggregates
         /\ \A k \in CounterKeys : Merge(a, b).count[k] = a.count[k] + b.count[k]
         /\ \A k \in LatKeys : Merge(a, b).ms[k] = a.ms[k] + b.ms[k]
         /\ \A k \in LatKeys : Merge(a, b).n[k] = a.n[k] + b.n[k]
BY DEF Merge, Aggregates

\* Aggregates with equal columns are equal.
LEMMA SameAggregates ==
  ASSUME NEW a \in Aggregates, NEW b \in Aggregates,
         \A k \in CounterKeys : a.count[k] = b.count[k],
         \A k \in LatKeys : a.ms[k] = b.ms[k] /\ a.n[k] = b.n[k]
  PROVE  a = b
<1>1. a.count = b.count
  BY DEF Aggregates
<1>2. a.ms = b.ms /\ a.n = b.n
  BY DEF Aggregates
<1> QED  BY <1>1, <1>2 DEF Aggregates

\* The smallest aggregates.
LEMMA EmptyType ==
  /\ Empty \in Aggregates
  /\ \A k \in CounterKeys : Empty.count[k] = 0
  /\ \A k \in LatKeys : Empty.ms[k] = 0 /\ Empty.n[k] = 0
BY DEF Empty, Aggregates

\* What processEvent adds.
LEMMA SingleType ==
  ASSUME NEW e \in Events
  PROVE  /\ Single(e) \in Aggregates
         /\ \A k \in CounterKeys : Single(e).count[k] = IF k = CounterKey[e] THEN 1 ELSE 0
         /\ \A k \in LatKeys : Single(e).ms[k] = IF k = LatKey[e] THEN Duration[e] ELSE 0
         /\ \A k \in LatKeys : Single(e).n[k] = IF k = LatKey[e] THEN 1 ELSE 0
<1>1. Duration[e] \in Nat
  BY MetricsAssumption
<1> QED  BY <1>1 DEF Single, Aggregates

\* A broken pipeline splits what it was given.
LEMMA PartType ==
  ASSUME NEW a \in Aggregates, NEW p
  PROVE  /\ Part(a, p) \in Aggregates /\ Part(a, Others(p)) \in Aggregates
         /\ \A k \in CounterKeys : Part(a, p).count[k] + Part(a, Others(p)).count[k] = a.count[k]
         /\ \A k \in LatKeys : /\ Part(a, p).ms[k] + Part(a, Others(p)).ms[k] = a.ms[k]
                               /\ Part(a, p).n[k] + Part(a, Others(p)).n[k] = a.n[k]
<1>1. Part(a, p) \in Aggregates /\ Part(a, Others(p)) \in Aggregates
  BY DEF Part, Others, Aggregates
<1>2. \A k \in CounterKeys :
        /\ Part(a, p).count[k] = IF k \in p.count THEN a.count[k] ELSE 0
        /\ Part(a, Others(p)).count[k] = IF k \in p.count THEN 0 ELSE a.count[k]
        /\ a.count[k] \in Nat
  BY DEF Part, Others, Aggregates
<1>3. \A k \in LatKeys :
        /\ Part(a, p).ms[k] = IF k \in p.ms THEN a.ms[k] ELSE 0
        /\ Part(a, Others(p)).ms[k] = IF k \in p.ms THEN 0 ELSE a.ms[k]
        /\ Part(a, p).n[k] = IF k \in p.n THEN a.n[k] ELSE 0
        /\ Part(a, Others(p)).n[k] = IF k \in p.n THEN 0 ELSE a.n[k]
        /\ a.ms[k] \in Nat /\ a.n[k] \in Nat
  BY DEF Part, Others, Aggregates
<1> QED  BY <1>1, <1>2, <1>3

\* The columns of q and o add up to those of b.
Split(q, o, b) ==
  /\ q \in Aggregates /\ o \in Aggregates
  /\ \A k \in CounterKeys : q.count[k] + o.count[k] = b.count[k]
  /\ \A k \in LatKeys : q.ms[k] + o.ms[k] = b.ms[k]
  /\ \A k \in LatKeys : q.n[k] + o.n[k] = b.n[k]

\* The same, for every prefix.
LEMMA PartSplit ==
  \A b \in Aggregates : \A p : Split(Part(b, p), Part(b, Others(p)), b)
<1> TAKE b \in Aggregates
<1> TAKE p
<1> QED  BY PartType DEF Split

\* How many of finitely many events have a key, and how many of one more.
LEMMA CountAdd ==
  \A S, e, K, k : IsFiniteSet(S) /\ e \notin S =>
    /\ Cardinality(With(S, K, k)) \in Nat
    /\ Cardinality(With(S \cup {e}, K, k)) =
         Cardinality(With(S, K, k)) + (IF k = K[e] THEN 1 ELSE 0)
<1> TAKE S, e, K, k
<1> HAVE IsFiniteSet(S) /\ e \notin S
<1> DEFINE T == With(S, K, k)
<1>1. IsFiniteSet(T) /\ e \notin T
  BY FS_Subset DEF With
<1>2. Cardinality(T) \in Nat
  BY <1>1, FS_CardinalityType
<1>3. With(S \cup {e}, K, k) = IF k = K[e] THEN T \cup {e} ELSE T
  BY DEF With
<1> HIDE DEF T
<1>4. Cardinality(T \cup {e}) = Cardinality(T) + 1
  BY <1>1, FS_AddElement
<1> QED  BY <1>2, <1>3, <1>4 DEF T

\* The durations of the events of S with key k.
Durations(S, k) == [e \in With(S, LatKey, k) |-> Duration[e]]

\* The durations of finitely many events with a key, and of one more.
LEMMA DurationAdd ==
  ASSUME NEW S \in SUBSET Events, IsFiniteSet(S), NEW e \in Events, e \notin S, NEW k
  PROVE  /\ Total(Durations(S, k)) \in Nat
         /\ Total(Durations(S \cup {e}, k)) =
              Total(Durations(S, k)) + (IF k = LatKey[e] THEN Duration[e] ELSE 0)
<1> DEFINE T == With(S, LatKey, k)
           f == Durations(S, k)
           h == [d \in T \cup {e} |-> Duration[d]]
<1>1. IsFiniteSet(T) /\ e \notin T /\ T \subseteq Events
  BY FS_Subset DEF With
<1>2. DOMAIN f = T /\ (\A d \in DOMAIN f : f[d] \in Nat)
  BY <1>1, MetricsAssumption DEF Durations
<1>3. DOMAIN h = DOMAIN f \cup {e} /\ (\A d \in DOMAIN h : h[d] \in Nat) /\ h[e] = Duration[e]
      /\ \A d \in DOMAIN f : h[d] = f[d]
  BY <1>1, MetricsAssumption DEF Durations
<1>4. With(S \cup {e}, LatKey, k) = IF k = LatKey[e] THEN T \cup {e} ELSE T
  BY DEF With
<1>5. Durations(S \cup {e}, k) = IF k = LatKey[e] THEN h ELSE f
  BY <1>4 DEF Durations
<1> HIDE DEF T, f, h
<1>6. Total(f) \in Nat
  BY <1>1, <1>2, PairsFinite
<1>7. Total(h) = Total(f) + Duration[e]
  BY <1>1, <1>2, <1>3, TotalAdd
<1> QED  BY <1>5, <1>6, <1>7 DEF f

\* Summing over events.
LEMMA SumStep ==
  ASSUME NEW S \in SUBSET Events, IsFiniteSet(S), NEW e \in Events, e \notin S
  PROVE  /\ SumOver(S) \in Aggregates
         /\ SumOver(S \cup {e}) = Merge(SumOver(S), Single(e))
<1> DEFINE A(k) == Cardinality(With(S, CounterKey, k))
           B(k) == Total(Durations(S, k))
           C(k) == Cardinality(With(S, LatKey, k))
<1>1. ASSUME NEW k
      PROVE  /\ A(k) \in Nat /\ B(k) \in Nat /\ C(k) \in Nat
             /\ Cardinality(With(S \cup {e}, CounterKey, k)) =
                  A(k) + (IF k = CounterKey[e] THEN 1 ELSE 0)
             /\ Total(Durations(S \cup {e}, k)) = B(k) + (IF k = LatKey[e] THEN Duration[e] ELSE 0)
             /\ Cardinality(With(S \cup {e}, LatKey, k)) = C(k) + (IF k = LatKey[e] THEN 1 ELSE 0)
  <2>1. /\ A(k) \in Nat
        /\ Cardinality(With(S \cup {e}, CounterKey, k)) = A(k) + (IF k = CounterKey[e] THEN 1 ELSE 0)
    BY CountAdd
  <2>2. /\ C(k) \in Nat
        /\ Cardinality(With(S \cup {e}, LatKey, k)) = C(k) + (IF k = LatKey[e] THEN 1 ELSE 0)
    BY CountAdd
  <2>3. /\ B(k) \in Nat
        /\ Total(Durations(S \cup {e}, k)) = B(k) + (IF k = LatKey[e] THEN Duration[e] ELSE 0)
    BY DurationAdd
  <2> QED  BY <2>1, <2>2, <2>3
<1>2. SumOver(S) = [count |-> [k \in CounterKeys |-> A(k)], ms |-> [k \in LatKeys |-> B(k)],
                    n |-> [k \in LatKeys |-> C(k)]]
  BY DEF SumOver, Durations
<1>3. SumOver(S \cup {e}) =
        [count |-> [k \in CounterKeys |-> A(k) + (IF k = CounterKey[e] THEN 1 ELSE 0)],
         ms |-> [k \in LatKeys |-> B(k) + (IF k = LatKey[e] THEN Duration[e] ELSE 0)],
         n |-> [k \in LatKeys |-> C(k) + (IF k = LatKey[e] THEN 1 ELSE 0)]]
  <2>1. SumOver(S \cup {e}) =
          [count |-> [k \in CounterKeys |-> Cardinality(With(S \cup {e}, CounterKey, k))],
           ms |-> [k \in LatKeys |-> Total(Durations(S \cup {e}, k))],
           n |-> [k \in LatKeys |-> Cardinality(With(S \cup {e}, LatKey, k))]]
    BY DEF SumOver, Durations
  <2> HIDE DEF A, B, C
  <2> QED  BY <1>1, <2>1
<1> HIDE DEF A, B, C
<1>4. SumOver(S) \in Aggregates
  BY <1>1, <1>2 DEF Aggregates
<1> QED  BY <1>2, <1>3, <1>4 DEF Merge, Single

\* No events amount to nothing.
LEMMA SumEmpty == SumOver({}) = Empty
<1>1. \A K, k : With({}, K, k) = {}
  BY DEF With
<1>2. \A k : Total([e \in With({}, LatKey, k) |-> Duration[e]]) = 0
  BY <1>1, TotalZero
<1>3. Cardinality({}) = 0
  BY FS_EmptySet
<1> QED  BY <1>1, <1>2, <1>3 DEF SumOver, Empty
-----------------------------------------------------------------------------
\* The batches f of the goroutines, added up.
BatchSum(f) == [count |-> [k \in CounterKeys |-> Total([g \in 0..MaxStarts |-> f[g].count[k]])],
                ms |-> [k \in LatKeys |-> Total([g \in 0..MaxStarts |-> f[g].ms[k]])],
                n |-> [k \in LatKeys |-> Total([g \in 0..MaxStarts |-> f[g].n[k]])]]

\* They are aggregates.
LEMMA BatchSumType ==
  ASSUME NEW F \in [0..MaxStarts -> Aggregates]
  PROVE  BatchSum(F) \in Aggregates
<1>1. IsFiniteSet(0..MaxStarts)
  BY FS_Interval, MetricsAssumption
<1>2. ASSUME NEW k \in CounterKeys
      PROVE  Total([g \in 0..MaxStarts |-> F[g].count[k]]) \in Nat
  <2> DEFINE f == [g \in 0..MaxStarts |-> F[g].count[k]]
  <2>1. DOMAIN f = 0..MaxStarts /\ \A g \in DOMAIN f : f[g] \in Nat
    BY <1>2 DEF Aggregates
  <2> HIDE DEF f
  <2>2. Total(f) \in Nat
    BY <1>1, <2>1, PairsFinite
  <2> QED  BY <2>2 DEF f
<1>3. ASSUME NEW k \in LatKeys
      PROVE  Total([g \in 0..MaxStarts |-> F[g].ms[k]]) \in Nat
  <2> DEFINE f == [g \in 0..MaxStarts |-> F[g].ms[k]]
  <2>1. DOMAIN f = 0..MaxStarts /\ \A g \in DOMAIN f : f[g] \in Nat
    BY <1>3 DEF Aggregates
  <2> HIDE DEF f
  <2>2. Total(f) \in Nat
    BY <1>1, <2>1, PairsFinite
  <2> QED  BY <2>2 DEF f
<1>4. ASSUME NEW k \in LatKeys
      PROVE  Total([g \in 0..MaxStarts |-> F[g].n[k]]) \in Nat
  <2> DEFINE f == [g \in 0..MaxStarts |-> F[g].n[k]]
  <2>1. DOMAIN f = 0..MaxStarts /\ \A g \in DOMAIN f : f[g] \in Nat
    BY <1>4 DEF Aggregates
  <2> HIDE DEF f
  <2>2. Total(f) \in Nat
    BY <1>1, <2>1, PairsFinite
  <2> QED  BY <2>2 DEF f
<1> QED  BY <1>2, <1>3, <1>4 DEF BatchSum, Aggregates

\* So are what the calls of Flush have drained.
LEMMA DrainedType ==
  /\ batch \in [0..MaxStarts -> Aggregates] => Drained \in Aggregates
  /\ batch' \in [0..MaxStarts -> Aggregates] => Drained' \in Aggregates
<1>1. Drained = BatchSum(batch) /\ Drained' = BatchSum(batch')
  BY DEF Drained, BatchSum
<1> QED  BY <1>1, BatchSumType

\* How the sum changes with one of them.
LEMMA DrainedChange ==
  ASSUME batch \in [0..MaxStarts -> Aggregates], NEW g \in 0..MaxStarts,
         NEW b \in Aggregates, batch' = [batch EXCEPT ![g] = b]
  PROVE  /\ batch' \in [0..MaxStarts -> Aggregates]
         /\ \A k \in CounterKeys :
              Drained'.count[k] + batch[g].count[k] = Drained.count[k] + b.count[k]
         /\ \A k \in LatKeys :
              /\ Drained'.ms[k] + batch[g].ms[k] = Drained.ms[k] + b.ms[k]
              /\ Drained'.n[k] + batch[g].n[k] = Drained.n[k] + b.n[k]
<1> DEFINE D == 0..MaxStarts
<1>1. IsFiniteSet(D)
  BY FS_Interval, MetricsAssumption
<1>2. batch' \in [D -> Aggregates] /\ batch'[g] = b /\ \A x \in D \ {g} : batch'[x] = batch[x]
  OBVIOUS
<1> HIDE DEF D
<1>3. ASSUME NEW f \in [D -> Nat], NEW h \in [D -> Nat], \A y \in D \ {g} : h[y] = f[y]
      PROVE  Total(h) + f[g] = Total(f) + h[g]
  BY <1>1, <1>3, TotalChange, ZenonT(60) DEF D
<1>4. ASSUME NEW k \in CounterKeys
      PROVE  Drained'.count[k] + batch[g].count[k] = Drained.count[k] + b.count[k]
  <2> DEFINE f == [x \in D |-> batch[x].count[k]]
             h == [x \in D |-> batch'[x].count[k]]
  <2>1. f \in [D -> Nat] /\ h \in [D -> Nat] /\ \A y \in D \ {g} : h[y] = f[y]
    BY <1>2, <1>4 DEF Aggregates, D
  <2>2. f[g] = batch[g].count[k] /\ h[g] = b.count[k]
    BY <1>2 DEF D
  <2>3. Drained.count[k] = Total(f) /\ Drained'.count[k] = Total(h)
    BY <1>4 DEF Drained, D
  <2> HIDE DEF f, h
  <2> QED  BY <1>3, <2>1, <2>2, <2>3
<1>5. ASSUME NEW k \in LatKeys
      PROVE  Drained'.ms[k] + batch[g].ms[k] = Drained.ms[k] + b.ms[k]
  <2> DEFINE f == [x \in D |-> batch[x].ms[k]]
             h == [x \in D |-> batch'[x].ms[k]]
  <2>1. f \in [D -> Nat] /\ h \in [D -> Nat] /\ \A y \in D \ {g} : h[y] = f[y]
    BY <1>2, <1>5 DEF Aggregates, D
  <2>2. f[g] = batch[g].ms[k] /\ h[g] = b.ms[k]
    BY <1>2 DEF D
  <2>3. Drained.ms[k] = Total(f) /\ Drained'.ms[k] = Total(h)
    BY <1>5 DEF Drained, D
  <2> HIDE DEF f, h
  <2> QED  BY <1>3, <2>1, <2>2, <2>3
<1>6. ASSUME NEW k \in LatKeys
      PROVE  Drained'.n[k] + batch[g].n[k] = Drained.n[k] + b.n[k]
  <2> DEFINE f == [x \in D |-> batch[x].n[k]]
             h == [x \in D |-> batch'[x].n[k]]
  <2>1. f \in [D -> Nat] /\ h \in [D -> Nat] /\ \A y \in D \ {g} : h[y] = f[y]
    BY <1>2, <1>6 DEF Aggregates, D
  <2>2. f[g] = batch[g].n[k] /\ h[g] = b.n[k]
    BY <1>2 DEF D
  <2>3. Drained.n[k] = Total(f) /\ Drained'.n[k] = Total(h)
    BY <1>6 DEF Drained, D
  <2> HIDE DEF f, h
  <2> QED  BY <1>3, <2>1, <2>2, <2>3
<1> QED  BY <1>2, <1>4, <1>5, <1>6 DEF D

\* When nobody is between drainPending and Apply nothing is drained.
LEMMA DrainedEmpty ==
  ASSUME \A g \in 0..MaxStarts : batch[g] = Empty
  PROVE  Drained = Empty
<1>1. /\ \A k \in CounterKeys : Total([g \in 0..MaxStarts |-> batch[g].count[k]]) = 0
      /\ \A k \in LatKeys : Total([g \in 0..MaxStarts |-> batch[g].ms[k]]) = 0
      /\ \A k \in LatKeys : Total([g \in 0..MaxStarts |-> batch[g].n[k]]) = 0
  BY TotalZero, EmptyType
<1> QED  BY <1>1 DEF Drained, Empty

\* The books of the aggregates, column by column: pending p, stored s, lost l and
\* drained d are the events' t and the repeated r.
Balance(p, s, l, d, t, r) ==
  /\ \A k \in CounterKeys :
       p.count[k] + s.count[k] + l.count[k] + d.count[k] = t.count[k] + r.count[k]
  /\ \A k \in LatKeys :
       /\ p.ms[k] + s.ms[k] + l.ms[k] + d.ms[k] = t.ms[k] + r.ms[k]
       /\ p.n[k] + s.n[k] + l.n[k] + d.n[k] = t.n[k] + r.n[k]

LEMMA BalanceMeaning ==
  ASSUME NEW p \in Aggregates, NEW s \in Aggregates, NEW l \in Aggregates,
         NEW d \in Aggregates, NEW t \in Aggregates, NEW r \in Aggregates
  PROVE  /\ Merge(Merge(p, Merge(s, l)), d) = Merge(t, r) => Balance(p, s, l, d, t, r)
         /\ Balance(p, s, l, d, t, r) => Merge(Merge(p, Merge(s, l)), d) = Merge(t, r)
<1> DEFINE a == Merge(Merge(p, Merge(s, l)), d)
           b == Merge(t, r)
<1>1. a \in Aggregates /\ b \in Aggregates
  BY MergeType
<1>2. \A k \in CounterKeys : /\ a.count[k] = p.count[k] + s.count[k] + l.count[k] + d.count[k]
                             /\ b.count[k] = t.count[k] + r.count[k]
  BY DEF Merge, Aggregates
<1>3. \A k \in LatKeys : /\ a.ms[k] = p.ms[k] + s.ms[k] + l.ms[k] + d.ms[k]
                         /\ b.ms[k] = t.ms[k] + r.ms[k]
                         /\ a.n[k] = p.n[k] + s.n[k] + l.n[k] + d.n[k]
                         /\ b.n[k] = t.n[k] + r.n[k]
  BY DEF Merge, Aggregates
<1> HIDE DEF a, b
<1>4. a = b => Balance(p, s, l, d, t, r)
  BY <1>2, <1>3 DEF Balance
<1>5. Balance(p, s, l, d, t, r) => a = b
  BY <1>1, <1>2, <1>3, SameAggregates DEF Balance
<1> QED  BY <1>4, <1>5 DEF a, b
\* The columns of aggregates hold natural numbers.
LEMMA Columns ==
  ASSUME NEW a \in Aggregates
  PROVE  /\ \A k \in CounterKeys : a.count[k] \in Nat
         /\ \A k \in LatKeys : a.ms[k] \in Nat /\ a.n[k] \in Nat
BY DEF Aggregates

\* Counting the same on both sides keeps the books.
LEMMA BalanceAdd ==
  ASSUME NEW p \in Aggregates, NEW s \in Aggregates, NEW l \in Aggregates,
         NEW d \in Aggregates, NEW t \in Aggregates, NEW r \in Aggregates,
         NEW a \in Aggregates, NEW p2 \in Aggregates, NEW t2 \in Aggregates,
         p2 = Merge(p, a), t2 = Merge(t, a), Balance(p, s, l, d, t, r)
  PROVE  Balance(p2, s, l, d, t2, r)
<1>1. ASSUME NEW k \in CounterKeys
      PROVE  p2.count[k] + s.count[k] + l.count[k] + d.count[k] = t2.count[k] + r.count[k]
  <2>1. /\ p.count[k] \in Nat /\ s.count[k] \in Nat /\ l.count[k] \in Nat /\ d.count[k] \in Nat
        /\ t.count[k] \in Nat /\ r.count[k] \in Nat /\ a.count[k] \in Nat
    BY <1>1, Columns
  <2>2. p.count[k] + s.count[k] + l.count[k] + d.count[k] = t.count[k] + r.count[k]
    BY <1>1 DEF Balance
  <2>3. /\ p2.count[k] = p.count[k] + a.count[k]
        /\ t2.count[k] = t.count[k] + a.count[k]
    BY <1>1, MergeType
  <2> QED  BY <2>1, <2>2, <2>3
<1>2. ASSUME NEW k \in LatKeys
      PROVE  p2.ms[k] + s.ms[k] + l.ms[k] + d.ms[k] = t2.ms[k] + r.ms[k]
  <2>1. /\ p.ms[k] \in Nat /\ s.ms[k] \in Nat /\ l.ms[k] \in Nat /\ d.ms[k] \in Nat
        /\ t.ms[k] \in Nat /\ r.ms[k] \in Nat /\ a.ms[k] \in Nat
    BY <1>2, Columns
  <2>2. p.ms[k] + s.ms[k] + l.ms[k] + d.ms[k] = t.ms[k] + r.ms[k]
    BY <1>2 DEF Balance
  <2>3. p2.ms[k] = p.ms[k] + a.ms[k] /\ t2.ms[k] = t.ms[k] + a.ms[k]
    BY <1>2, MergeType
  <2> QED  BY <2>1, <2>2, <2>3
<1>3. ASSUME NEW k \in LatKeys
      PROVE  p2.n[k] + s.n[k] + l.n[k] + d.n[k] = t2.n[k] + r.n[k]
  <2>1. /\ p.n[k] \in Nat /\ s.n[k] \in Nat /\ l.n[k] \in Nat /\ d.n[k] \in Nat
        /\ t.n[k] \in Nat /\ r.n[k] \in Nat /\ a.n[k] \in Nat
    BY <1>3, Columns
  <2>2. p.n[k] + s.n[k] + l.n[k] + d.n[k] = t.n[k] + r.n[k]
    BY <1>3 DEF Balance
  <2>3. p2.n[k] = p.n[k] + a.n[k] /\ t2.n[k] = t.n[k] + a.n[k]
    BY <1>3, MergeType
  <2> QED  BY <2>1, <2>2, <2>3
<1> QED  BY <1>1, <1>2, <1>3 DEF Balance
-----------------------------------------------------------------------------
\* Finitely many events amount to aggregates.
LEMMA SumType ==
  ASSUME NEW S \in SUBSET Events, IsFiniteSet(S)
  PROVE  SumOver(S) \in Aggregates
<1>1. \A K, k : With(S, K, k) \subseteq S
  BY DEF With
<1>2. \A K, k : IsFiniteSet(With(S, K, k)) /\ Cardinality(With(S, K, k)) \in Nat
  BY <1>1, FS_Subset, FS_CardinalityType
<1>3. ASSUME NEW k PROVE Total([e \in With(S, LatKey, k) |-> Duration[e]]) \in Nat
  <2> DEFINE T == With(S, LatKey, k)
             f == [e \in T |-> Duration[e]]
  <2>1. DOMAIN f = T /\ (\A e \in T : f[e] \in Nat) /\ IsFiniteSet(T)
    BY <1>1, <1>2, MetricsAssumption
  <2> HIDE DEF f
  <2>2. Total(f) \in Nat
    BY <2>1, PairsFinite
  <2> QED  BY <2>2 DEF f
<1> QED  BY <1>2, <1>3 DEF SumOver, Aggregates

\* The processed events are events.
LEMMA ProcessedType == Processed \subseteq Events
BY DEF Processed

\* The books are balanced in every state of the invariant.
LEMMA BooksBalance ==
  ASSUME MetricsInv
  PROVE  /\ pending \in Aggregates /\ stored \in Aggregates /\ lost \in Aggregates
         /\ repeated \in Aggregates /\ Drained \in Aggregates
         /\ SumOver(Processed) \in Aggregates
         /\ Balance(pending, stored, lost, Drained, SumOver(Processed), repeated)
<1> DEFINE d == Drained
           t == SumOver(Processed)
<1>1. /\ pending \in Aggregates /\ stored \in Aggregates /\ lost \in Aggregates
      /\ repeated \in Aggregates /\ d \in Aggregates /\ t \in Aggregates
  BY DrainedType, SumType, ProcessedType DEF MetricsInv, MetricsTypeOK, PlacesInv
<1>2. Merge(Merge(pending, Merge(stored, lost)), d) = Merge(t, repeated)
  BY DEF MetricsInv, CountedOnce, Held
<1> HIDE DEF d, t
<1>3. Balance(pending, stored, lost, d, t, repeated)
  BY <1>1, <1>2, BalanceMeaning
<1> QED  BY <1>1, <1>3 DEF d, t

\* Balanced books say that every processed event is counted once.
LEMMA BooksCount ==
  ASSUME NEW p \in Aggregates, NEW s \in Aggregates, NEW l \in Aggregates,
         NEW d \in Aggregates, NEW t \in Aggregates, NEW r \in Aggregates,
         Balance(p, s, l, d, t, r), pending' = p, stored' = s, lost' = l, repeated' = r,
         Drained' = d, SumOver(Processed)' = t
  PROVE  CountedOnce'
<1>1. Merge(Merge(p, Merge(s, l)), d) = Merge(t, r)
  BY BalanceMeaning
<1>2. Held' = Merge(Merge(p, Merge(s, l)), d)
  BY DEF Held, Merge
<1>3. Merge(SumOver(Processed), repeated)' = Merge(t, r)
  BY DEF Merge
<1> QED  BY <1>1, <1>2, <1>3 DEF CountedOnce

\* A step that leaves the aggregates and the processed events alone keeps the count.
LEMMA CountKept ==
  ASSUME CountedOnce, UNCHANGED <<pending, stored, lost, repeated, batch>>, Processed' = Processed
  PROVE  CountedOnce'
<1>1. Held' = Held
  BY DEF Held, Drained
<1> QED  BY <1>1 DEF CountedOnce

\* Workers that start, or end, hold nothing.
LEMMA PlacesKept ==
  ASSUME MetricsInv, UNCHANGED <<queue, call>>,
         \A x \in Gens \X Workers :
           hand'[x] = hand[x] \/ (hand[x] \notin Events /\ hand'[x] \notin Events)
  PROVE  PlacesInv' /\ Processed' = Processed
<1>1. Queued' = Queued
  BY DEF Queued
<1>2. InHand' = InHand
  BY DEF InHand
<1>3. Processed' = Processed
  BY <1>1, <1>2 DEF Processed
<1>4. \A x, y \in Gens \X Workers : hand'[x] \in Events /\ hand'[x] = hand'[y] => x = y
  BY DEF MetricsInv, PlacesInv
<1> QED  BY <1>1, <1>2, <1>3, <1>4 DEF MetricsInv, PlacesInv

\* Start adds goroutines of its own.
LEMMA StartInv ==
  ASSUME MetricsInv, Start
  PROVE  MetricsInv'
<1> USE DEF Start, faults
<1>1. /\ gen + 1 \in Gens /\ gen \in Nat /\ MaxStarts \in Nat
      /\ {"off", "idle"} \cap Events = {}
  BY MetricsAssumption DEF MetricsInv, MetricsTypeOK, Gens
<1>2. \A x \in Gens \X Workers : hand'[x] = IF x[1] = gen + 1 THEN "idle" ELSE hand[x]
  OBVIOUS
<1>3. \A x \in Gens \X Workers : x[1] = gen + 1 => hand[x] = "off"
  BY <1>1 DEF MetricsInv, LifeInv
<1>4. MetricsTypeOK'
  BY <1>1 DEF MetricsInv, MetricsTypeOK
<1>5. PlacesInv' /\ Processed' = Processed
  BY <1>1, <1>2, <1>3, PlacesKept
<1>6. LifeInv'
  <2>1. flush' = [flush EXCEPT ![gen + 1] = "idle"] /\ flush \in [Gens -> {"off", "idle", "apply"}]
    BY DEF MetricsInv, MetricsTypeOK
  <2>2. \A g \in Gens : g > gen + 1 => flush'[g] = "off" /\ \A w \in Workers : hand'[<<g, w>>] = "off"
    BY <1>1, <1>2, <2>1 DEF MetricsInv, LifeInv, Gens
  <2>3. started' /\ gen' = gen + 1 /\ owner' = "free" /\ stopped' = "none" /\ gen + 1 > 0
    BY <1>1
  <2> QED  BY <2>2, <2>3 DEF LifeInv
<1>7. BatchInv'
  BY <1>1 DEF MetricsInv, BatchInv, MetricsTypeOK, LifeInv, Gens
<1>8. CountedOnce'
  BY <1>5, CountKept DEF MetricsInv
<1> QED  BY <1>4, <1>5, <1>6, <1>7, <1>8 DEF MetricsInv

\* Ingest moves an event into the queue at most once.
LEMMA IngestInv ==
  ASSUME MetricsInv, NEW e \in Events, IngestRefuse(e) \/ IngestCheck(e) \/ IngestSend(e)
  PROVE  MetricsInv'
<1> USE DEF IngestRefuse, IngestCheck, IngestSend, life, work, faults
<1>1. /\ queue \in Seq(Events) /\ Len(queue) <= QueueSize /\ QueueSize \in Nat
      /\ call \in [Events -> {"new", "checked", "accepted", "full", "refused"}]
      /\ {"off", "idle"} \cap Events = {}
  BY MetricsAssumption DEF MetricsInv, MetricsTypeOK
<1>2. call[e] # "accepted" /\ e \notin Queued /\ e \notin InHand
  BY DEF MetricsInv, PlacesInv
<1>3. InHand' = InHand
  BY DEF InHand
<1>4. MetricsTypeOK'
  <2>1. queue' \in Seq(Events) /\ Len(queue') <= QueueSize
    BY <1>1
  <2>2. call' \in [Events -> {"new", "checked", "accepted", "full", "refused"}]
    BY <1>1
  <2> QED  BY <2>1, <2>2 DEF MetricsInv, MetricsTypeOK
<1>5. LifeInv' /\ BatchInv'
  BY DEF MetricsInv, LifeInv, BatchInv, AllGone
<1>6. PlacesInv' /\ Processed' = Processed
  <2>1. CASE queue' = Append(queue, e) /\ call' = [call EXCEPT ![e] = "accepted"]
    <3>1. /\ Len(queue') = Len(queue) + 1 /\ queue'[Len(queue) + 1] = e
          /\ \A i \in 1..Len(queue) : queue'[i] = queue[i]
          /\ Len(queue) \in Nat
      BY <1>1, <2>1
    <3>2. Queued' = Queued \cup {e}
      BY <3>1 DEF Queued
    <3>3. {d \in Events : call[d] = "accepted"}' = {d \in Events : call[d] = "accepted"} \cup {e}
      BY <1>1, <2>1
    <3>4. Processed' = Processed
      BY <1>2, <1>3, <3>2, <3>3 DEF Processed
    <3>5. \A i \in 1..Len(queue) : queue[i] # e
      BY <1>2 DEF Queued
    <3>6. \A i, j \in 1..Len(queue') : queue'[i] = queue'[j] => i = j
      BY <3>1, <3>5 DEF MetricsInv, PlacesInv
    <3>7. \A x, y \in Gens \X Workers : hand'[x] \in Events /\ hand'[x] = hand'[y] => x = y
      BY DEF MetricsInv, PlacesInv
    <3> QED  BY <1>2, <1>3, <3>2, <3>3, <3>4, <3>6, <3>7 DEF MetricsInv, PlacesInv
  <2>2. CASE queue' = queue /\ \E a \in {"refused", "checked", "full"} : call' = [call EXCEPT ![e] = a]
    <3>1. {d \in Events : call[d] = "accepted"}' = {d \in Events : call[d] = "accepted"}
      BY <1>1, <1>2, <2>2
    <3>2. Queued' = Queued
      BY <2>2 DEF Queued
    <3>3. Processed' = Processed
      BY <1>3, <3>1, <3>2 DEF Processed
    <3> QED  BY <1>3, <2>2, <3>1, <3>2, <3>3 DEF MetricsInv, PlacesInv
  <2> QED  BY <2>1, <2>2
<1>7. CountedOnce'
  BY <1>6, CountKept DEF MetricsInv
<1> QED  BY <1>4, <1>5, <1>6, <1>7 DEF MetricsInv

\* A worker takes an event out of the queue.
LEMMA ReceiveInv ==
  ASSUME MetricsInv, NEW g \in Gens, NEW w \in Workers, Receive(g, w)
  PROVE  MetricsInv'
<1> DEFINE x == <<g, w>>
           e == Head(queue)
<1> USE DEF Receive, life, faults
<1>1. /\ queue \in Seq(Events) /\ queue # <<>> /\ Len(queue) <= QueueSize /\ QueueSize \in Nat
      /\ hand \in [Gens \X Workers -> {"off", "idle"} \cup Events]
      /\ {"off", "idle"} \cap Events = {} /\ x \in Gens \X Workers
  BY MetricsAssumption DEF MetricsInv, MetricsTypeOK
<1>2. /\ queue' = Tail(queue) /\ queue' \in Seq(Events) /\ Len(queue') = Len(queue) - 1
      /\ e = queue[1] /\ e \in Events /\ Len(queue) \in Nat /\ Len(queue) > 0
      /\ \A i \in 1..Len(queue') : queue'[i] = queue[i + 1]
  BY <1>1
<1>3. /\ hand' = [hand EXCEPT ![x] = e] /\ hand[x] = "idle"
      /\ hand' \in [Gens \X Workers -> {"off", "idle"} \cup Events]
      /\ \A y \in Gens \X Workers : hand'[y] = IF y = x THEN e ELSE hand[y]
  BY <1>1, <1>2
<1> HIDE DEF x, e
<1>4. /\ Queued = Queued' \cup {e} /\ e \notin Queued'
  <2>1. \A i \in 1..Len(queue') : queue'[i] # e
    BY <1>2 DEF MetricsInv, PlacesInv
  <2>2. \A d : d \in Queued <=> d = e \/ d \in Queued'
    <3>1. ASSUME NEW i \in 1..Len(queue) PROVE queue[i] = e \/ queue[i] \in Queued'
      <4>1. CASE i = 1
        BY <1>2, <4>1
      <4>2. CASE i # 1
        <5>1. i - 1 \in 1..Len(queue') /\ queue'[i - 1] = queue[i]
          BY <1>2, <4>2
        <5> QED  BY <5>1 DEF Queued
      <4> QED  BY <4>1, <4>2
    <3>2. ASSUME NEW i \in 1..Len(queue') PROVE queue'[i] \in Queued
      BY <1>2 DEF Queued
    <3>3. e \in Queued
      BY <1>2 DEF Queued
    <3> QED  BY <3>1, <3>2, <3>3 DEF Queued
  <2> QED  BY <2>1, <2>2 DEF Queued
<1>5. e \notin InHand
  BY <1>4 DEF MetricsInv, PlacesInv
<1>6. InHand' = InHand \cup {e}
  BY <1>1, <1>2, <1>3 DEF InHand
<1>7. Processed' = Processed
  BY <1>4, <1>6 DEF Processed
<1>8. MetricsTypeOK'
  BY <1>1, <1>2, <1>3 DEF MetricsInv, MetricsTypeOK
<1>9. PlacesInv'
  <2>1. \A i, j \in 1..Len(queue') : queue'[i] = queue'[j] => i = j
    BY <1>2 DEF MetricsInv, PlacesInv
  <2>2. \A y \in Gens \X Workers : y # x => hand[y] # e
    BY <1>2, <1>5 DEF InHand
  <2>3. \A y, z \in Gens \X Workers : hand'[y] \in Events /\ hand'[y] = hand'[z] => y = z
    BY <1>3, <2>2 DEF MetricsInv, PlacesInv
  <2> QED  BY <1>4, <1>6, <1>7, <2>1, <2>3 DEF MetricsInv, PlacesInv
<1>10. LifeInv'
  <2>1. ~AllGone /\ ~(g > gen)
    BY <1>1, <1>3 DEF AllGone, MetricsInv, LifeInv, x
  <2>2. \A f \in Gens : f > gen => \A v \in Workers : hand'[<<f, v>>] = hand[<<f, v>>]
    BY <1>3, <2>1 DEF x
  <2> QED  BY <2>1, <2>2 DEF MetricsInv, LifeInv
<1>11. BatchInv'
  BY DEF MetricsInv, BatchInv
<1>12. CountedOnce'
  BY <1>7, CountKept DEF MetricsInv
<1> QED  BY <1>8, <1>9, <1>10, <1>11, <1>12 DEF MetricsInv

\* processEvent counts the event its worker held, and no other.
LEMMA ProcessInv ==
  ASSUME MetricsInv, NEW g \in Gens, NEW w \in Workers, ProcessEvent(g, w)
  PROVE  MetricsInv'
<1> DEFINE x == <<g, w>>
           e == hand[x]
           S == Processed
<1> USE DEF ProcessEvent, life, faults
<1>1. /\ hand \in [Gens \X Workers -> {"off", "idle"} \cup Events]
      /\ {"off", "idle"} \cap Events = {} /\ x \in Gens \X Workers /\ e \in Events
  BY MetricsAssumption DEF MetricsInv, MetricsTypeOK
<1>2. /\ hand' \in [Gens \X Workers -> {"off", "idle"} \cup Events]
      /\ \A y \in Gens \X Workers : hand'[y] = IF y = x THEN "idle" ELSE hand[y]
      /\ pending' = Merge(pending, Single(e))
      /\ UNCHANGED <<stored, lost, repeated, batch, queue, call>>
  BY <1>1
<1> HIDE DEF x
<1>3. e \in InHand /\ e \notin Queued /\ call[e] = "accepted"
  BY <1>1 DEF InHand, MetricsInv, PlacesInv
<1>4. \A y \in Gens \X Workers : y # x => hand[y] # e
  BY <1>1 DEF MetricsInv, PlacesInv
<1>5. InHand' = InHand \ {e} /\ Queued' = Queued
  <2>1. "idle" \notin Events
    BY <1>1
  <2>2. \A d \in Events : (\E y \in Gens \X Workers : hand'[y] = d)
                            <=> d # e /\ \E y \in Gens \X Workers : hand[y] = d
    BY <1>1, <1>2, <1>4, <2>1
  <2> QED  BY <1>2, <2>2 DEF InHand, Queued
<1>6. Processed' = S \cup {e} /\ e \notin S
  BY <1>1, <1>2, <1>3, <1>5 DEF Processed
<1>7. S \in SUBSET Events /\ IsFiniteSet(S)
  BY ProcessedType DEF MetricsInv, PlacesInv
<1>8. IsFiniteSet(S \cup {e})
  BY <1>7, FS_AddElement
<1>9. /\ pending \in Aggregates /\ stored \in Aggregates /\ lost \in Aggregates
      /\ repeated \in Aggregates /\ Drained \in Aggregates
  BY DrainedType DEF MetricsInv, MetricsTypeOK
<1>10. PlacesInv'
  <2>1. \A y, z \in Gens \X Workers : hand'[y] \in Events /\ hand'[y] = hand'[z] => y = z
    BY <1>1, <1>2 DEF MetricsInv, PlacesInv
  <2> QED  BY <1>2, <1>5, <1>6, <1>8, <2>1 DEF MetricsInv, PlacesInv
<1> HIDE DEF e, S
<1>11. pending' \in Aggregates
  BY <1>1, <1>2, <1>9, SingleType, MergeType
<1>12. MetricsTypeOK'
  BY <1>2, <1>11 DEF MetricsInv, MetricsTypeOK
<1>13. LifeInv'
  <2>1. ~AllGone /\ ~(g > gen)
    BY <1>1 DEF AllGone, MetricsInv, LifeInv, x, e
  <2>2. \A f \in Gens : f > gen => \A v \in Workers : hand'[<<f, v>>] = hand[<<f, v>>]
    BY <1>2, <2>1 DEF x
  <2> QED  BY <2>1, <2>2 DEF MetricsInv, LifeInv
<1>14. BatchInv'
  BY DEF MetricsInv, BatchInv
<1>15. CountedOnce'
  <2> DEFINE t == SumOver(S)
             one == Single(e)
             d == Drained
  <2>1. one \in Aggregates /\ SumOver(S \cup {e}) = Merge(t, one)
    BY <1>1, <1>6, <1>7, SumStep, SingleType
  <2>2. t \in Aggregates /\ d \in Aggregates /\ Balance(pending, stored, lost, d, t, repeated)
    BY BooksBalance DEF S
  <2>3. Drained' = d /\ SumOver(Processed)' = SumOver(S \cup {e}) /\ pending' = Merge(pending, one)
    BY <1>2, <1>6 DEF Drained, SumOver
  <2> HIDE DEF t, one, d
  <2>4. Merge(pending, one) \in Aggregates /\ Merge(t, one) \in Aggregates
    BY <1>9, <2>1, <2>2, MergeType
  <2>5. Balance(Merge(pending, one), stored, lost, d, Merge(t, one), repeated)
    BY <1>9, <2>1, <2>2, <2>4, BalanceAdd
  <2>6. stored' = stored /\ lost' = lost /\ repeated' = repeated /\ SumOver(Processed)' = Merge(t, one)
    BY <1>2, <2>1, <2>3
  <2> QED  BY <1>9, <2>2, <2>3, <2>4, <2>5, <2>6, BooksCount
<1> QED  BY <1>10, <1>12, <1>13, <1>14, <1>15 DEF MetricsInv

\* Goroutines that end hold nothing.
LEMMA ExitInv ==
  ASSUME MetricsInv, NEW g \in Gens,
         FlushExit(g) \/ \E w \in Workers : WorkerExit(g, w)
  PROVE  MetricsInv'
<1> USE DEF FlushExit, WorkerExit, life, faults
<1>1. /\ hand \in [Gens \X Workers -> {"off", "idle"} \cup Events]
      /\ flush \in [Gens -> {"off", "idle", "apply"}]
      /\ {"off", "idle"} \cap Events = {}
  BY MetricsAssumption DEF MetricsInv, MetricsTypeOK
<1>2. /\ UNCHANGED <<started, gen, cancelled, queue, pending, stored, call, batch, owner, stopped>>
      /\ UNCHANGED <<failures, lost, repeated>>
      /\ \A x \in Gens \X Workers : hand'[x] = hand[x] \/ (hand[x] = "idle" /\ hand'[x] = "off")
      /\ \A f \in Gens : flush'[f] = flush[f] \/ (flush[f] = "idle" /\ flush'[f] = "off")
  BY <1>1
<1>3. /\ hand' \in [Gens \X Workers -> {"off", "idle"} \cup Events]
      /\ flush' \in [Gens -> {"off", "idle", "apply"}]
  BY <1>1
<1>4. PlacesInv' /\ Processed' = Processed
  BY <1>1, <1>2, PlacesKept
<1>5. MetricsTypeOK'
  BY <1>2, <1>3 DEF MetricsInv, MetricsTypeOK
<1>6. LifeInv'
  <2>1. AllGone => AllGone'
    BY <1>2 DEF AllGone
  <2>2. \A f \in Gens : f > gen => flush'[f] = "off" /\ \A w \in Workers : hand'[<<f, w>>] = "off"
    BY <1>2 DEF MetricsInv, LifeInv
  <2> QED  BY <1>2, <2>1, <2>2 DEF MetricsInv, LifeInv
<1>7. BatchInv'
  BY <1>2 DEF MetricsInv, BatchInv
<1>8. CountedOnce'
  BY <1>2, <1>4, CountKept DEF MetricsInv
<1> QED  BY <1>4, <1>5, <1>6, <1>7, <1>8 DEF MetricsInv

\* Stop begins, or gives up waiting.
LEMMA StopInv ==
  ASSUME MetricsInv, StopBegin \/ StopTimeout
  PROVE  MetricsInv'
<1> USE DEF StopBegin, StopTimeout, life, work, faults
<1>1. PlacesInv' /\ Processed' = Processed
  BY PlacesKept
<1>2. MetricsTypeOK'
  <2>1. cancelled' \subseteq 1..gen'
    <3>1. gen \in Nat /\ cancelled \subseteq 1..gen /\ gen' = gen
      BY MetricsAssumption DEF MetricsInv, MetricsTypeOK
    <3>2. cancelled' = cancelled \/ (cancelled' = cancelled \cup {gen} /\ gen > 0)
      BY DEF MetricsInv, LifeInv
    <3>3. gen > 0 => gen \in 1..gen
      BY <3>1
    <3> QED  BY <3>1, <3>2, <3>3, Zenon
  <2>2. started' \in BOOLEAN /\ owner' \in {"free", "waiting"} /\ stopped' \in {stopped, "timeout"}
    BY DEF MetricsInv, MetricsTypeOK
  <2> QED  BY <2>1, <2>2 DEF MetricsInv, MetricsTypeOK
<1>3. LifeInv'
  BY DEF MetricsInv, LifeInv, AllGone
<1>4. BatchInv'
  BY DEF MetricsInv, BatchInv
<1>5. CountedOnce'
  BY <1>1, CountKept DEF MetricsInv
<1> QED  BY <1>1, <1>2, <1>3, <1>4, <1>5 DEF MetricsInv
-----------------------------------------------------------------------------
\* One goroutine's batch a becomes b while pending, stored, lost and repeated go from
\* p, s, l, r to p2, s2, l2, r2; nothing is created and nothing disappears.
Moved(p, s, l, a, r, p2, s2, l2, b, r2) ==
  /\ \A k \in CounterKeys :
       p2.count[k] + s2.count[k] + l2.count[k] + b.count[k] + r.count[k]
         = p.count[k] + s.count[k] + l.count[k] + a.count[k] + r2.count[k]
  /\ \A k \in LatKeys :
       p2.ms[k] + s2.ms[k] + l2.ms[k] + b.ms[k] + r.ms[k]
         = p.ms[k] + s.ms[k] + l.ms[k] + a.ms[k] + r2.ms[k]
  /\ \A k \in LatKeys :
       p2.n[k] + s2.n[k] + l2.n[k] + b.n[k] + r.n[k]
         = p.n[k] + s.n[k] + l.n[k] + a.n[k] + r2.n[k]

\* A sum d becomes d2 when one of its terms goes from a to b.
Replaced(d, a, d2, b) ==
  /\ \A k \in CounterKeys : d2.count[k] + a.count[k] = d.count[k] + b.count[k]
  /\ \A k \in LatKeys : /\ d2.ms[k] + a.ms[k] = d.ms[k] + b.ms[k]
                        /\ d2.n[k] + a.n[k] = d.n[k] + b.n[k]

\* A flush that moves aggregates keeps the count.
LEMMA FlushCount ==
  ASSUME MetricsInv, Processed' = Processed, NEW g \in 0..MaxStarts, NEW b \in Aggregates,
         NEW p2 \in Aggregates, NEW s2 \in Aggregates, NEW l2 \in Aggregates,
         NEW r2 \in Aggregates, batch' = [batch EXCEPT ![g] = b],
         pending' = p2, stored' = s2, lost' = l2, repeated' = r2,
         Moved(pending, stored, lost, batch[g], repeated, p2, s2, l2, b, r2)
  PROVE  CountedOnce' /\ batch' \in [0..MaxStarts -> Aggregates]
<1> DEFINE p == pending
           s == stored
           l == lost
           r == repeated
           d == Drained
           d2 == Drained'
           a == batch[g]
           t == SumOver(Processed)
<1>1. /\ p \in Aggregates /\ s \in Aggregates /\ l \in Aggregates /\ r \in Aggregates
      /\ d \in Aggregates /\ t \in Aggregates /\ a \in Aggregates
      /\ Balance(p, s, l, d, t, r)
  BY BooksBalance DEF MetricsInv, MetricsTypeOK
<1>2. /\ batch' \in [0..MaxStarts -> Aggregates] /\ d2 \in Aggregates
      /\ Replaced(d, a, d2, b)
  <2>1. /\ batch' \in [0..MaxStarts -> Aggregates]
        /\ \A k \in CounterKeys : d2.count[k] + a.count[k] = d.count[k] + b.count[k]
        /\ \A k \in LatKeys : /\ d2.ms[k] + a.ms[k] = d.ms[k] + b.ms[k]
                              /\ d2.n[k] + a.n[k] = d.n[k] + b.n[k]
    BY DrainedChange DEF MetricsInv, MetricsTypeOK
  <2>2. d2 \in Aggregates
    BY <2>1, DrainedType
  <2> QED  BY <2>1, <2>2 DEF Replaced
<1>3. Moved(p, s, l, a, r, p2, s2, l2, b, r2)
  OBVIOUS
<1>4. SumOver(Processed)' = t
  BY DEF SumOver
<1>5. Drained' = d2
  OBVIOUS
<1> HIDE DEF p, s, l, r, d, d2, a, t
<1>6. Balance(p2, s2, l2, d2, t, r2)
  <2>1. ASSUME NEW k \in CounterKeys
        PROVE  p2.count[k] + s2.count[k] + l2.count[k] + d2.count[k] = t.count[k] + r2.count[k]
    <3>1. /\ p2.count[k] \in Nat /\ s2.count[k] \in Nat /\ l2.count[k] \in Nat
          /\ d2.count[k] \in Nat /\ r2.count[k] \in Nat /\ p.count[k] \in Nat
          /\ s.count[k] \in Nat /\ l.count[k] \in Nat /\ d.count[k] \in Nat
          /\ r.count[k] \in Nat /\ a.count[k] \in Nat /\ b.count[k] \in Nat /\ t.count[k] \in Nat
      BY <1>1, <1>2, <2>1, Columns
    <3>2. p.count[k] + s.count[k] + l.count[k] + d.count[k] = t.count[k] + r.count[k]
      BY <1>1, <2>1 DEF Balance
    <3>3. d2.count[k] + a.count[k] = d.count[k] + b.count[k]
      BY <1>2, <2>1 DEF Replaced
    <3>4. p2.count[k] + s2.count[k] + l2.count[k] + b.count[k] + r.count[k]
            = p.count[k] + s.count[k] + l.count[k] + a.count[k] + r2.count[k]
      BY <1>3, <2>1 DEF Moved
    <3> DEFINE m == p.count[k] + s.count[k] + l.count[k]
               m2 == p2.count[k] + s2.count[k] + l2.count[k]
               vd == d.count[k]
               vd2 == d2.count[k]
               vt == t.count[k]
               vr == r.count[k]
               vr2 == r2.count[k]
               va == a.count[k]
               vb == b.count[k]
    <3>5. /\ m \in Nat /\ m2 \in Nat /\ vd \in Nat /\ vd2 \in Nat /\ vt \in Nat /\ vr \in Nat
          /\ vr2 \in Nat /\ va \in Nat /\ vb \in Nat
          /\ m + vd = vt + vr /\ vd2 + va = vd + vb /\ m2 + vb + vr = m + va + vr2
      BY <3>1, <3>2, <3>3, <3>4
    <3> HIDE DEF m, m2, vd, vd2, vt, vr, vr2, va, vb
    <3>6. m2 + vd2 = vt + vr2
      BY <3>5
    <3> QED  BY <3>6 DEF m2, vd2, vt, vr2
  <2>2. ASSUME NEW k \in LatKeys
        PROVE  p2.ms[k] + s2.ms[k] + l2.ms[k] + d2.ms[k] = t.ms[k] + r2.ms[k]
    <3>1. /\ p2.ms[k] \in Nat /\ s2.ms[k] \in Nat /\ l2.ms[k] \in Nat
          /\ d2.ms[k] \in Nat /\ r2.ms[k] \in Nat /\ p.ms[k] \in Nat
          /\ s.ms[k] \in Nat /\ l.ms[k] \in Nat /\ d.ms[k] \in Nat
          /\ r.ms[k] \in Nat /\ a.ms[k] \in Nat /\ b.ms[k] \in Nat /\ t.ms[k] \in Nat
      BY <1>1, <1>2, <2>2, Columns
    <3>2. p.ms[k] + s.ms[k] + l.ms[k] + d.ms[k] = t.ms[k] + r.ms[k]
      BY <1>1, <2>2 DEF Balance
    <3>3. d2.ms[k] + a.ms[k] = d.ms[k] + b.ms[k]
      BY <1>2, <2>2 DEF Replaced
    <3>4. p2.ms[k] + s2.ms[k] + l2.ms[k] + b.ms[k] + r.ms[k]
            = p.ms[k] + s.ms[k] + l.ms[k] + a.ms[k] + r2.ms[k]
      BY <1>3, <2>2 DEF Moved
    <3> DEFINE m == p.ms[k] + s.ms[k] + l.ms[k]
               m2 == p2.ms[k] + s2.ms[k] + l2.ms[k]
               vd == d.ms[k]
               vd2 == d2.ms[k]
               vt == t.ms[k]
               vr == r.ms[k]
               vr2 == r2.ms[k]
               va == a.ms[k]
               vb == b.ms[k]
    <3>5. /\ m \in Nat /\ m2 \in Nat /\ vd \in Nat /\ vd2 \in Nat /\ vt \in Nat /\ vr \in Nat
          /\ vr2 \in Nat /\ va \in Nat /\ vb \in Nat
          /\ m + vd = vt + vr /\ vd2 + va = vd + vb /\ m2 + vb + vr = m + va + vr2
      BY <3>1, <3>2, <3>3, <3>4
    <3> HIDE DEF m, m2, vd, vd2, vt, vr, vr2, va, vb
    <3>6. m2 + vd2 = vt + vr2
      BY <3>5
    <3> QED  BY <3>6 DEF m2, vd2, vt, vr2
  <2>3. ASSUME NEW k \in LatKeys
        PROVE  p2.n[k] + s2.n[k] + l2.n[k] + d2.n[k] = t.n[k] + r2.n[k]
    <3>1. /\ p2.n[k] \in Nat /\ s2.n[k] \in Nat /\ l2.n[k] \in Nat
          /\ d2.n[k] \in Nat /\ r2.n[k] \in Nat /\ p.n[k] \in Nat
          /\ s.n[k] \in Nat /\ l.n[k] \in Nat /\ d.n[k] \in Nat
          /\ r.n[k] \in Nat /\ a.n[k] \in Nat /\ b.n[k] \in Nat /\ t.n[k] \in Nat
      BY <1>1, <1>2, <2>3, Columns
    <3>2. p.n[k] + s.n[k] + l.n[k] + d.n[k] = t.n[k] + r.n[k]
      BY <1>1, <2>3 DEF Balance
    <3>3. d2.n[k] + a.n[k] = d.n[k] + b.n[k]
      BY <1>2, <2>3 DEF Replaced
    <3>4. p2.n[k] + s2.n[k] + l2.n[k] + b.n[k] + r.n[k]
            = p.n[k] + s.n[k] + l.n[k] + a.n[k] + r2.n[k]
      BY <1>3, <2>3 DEF Moved
    <3> DEFINE m == p.n[k] + s.n[k] + l.n[k]
               m2 == p2.n[k] + s2.n[k] + l2.n[k]
               vd == d.n[k]
               vd2 == d2.n[k]
               vt == t.n[k]
               vr == r.n[k]
               vr2 == r2.n[k]
               va == a.n[k]
               vb == b.n[k]
    <3>5. /\ m \in Nat /\ m2 \in Nat /\ vd \in Nat /\ vd2 \in Nat /\ vt \in Nat /\ vr \in Nat
          /\ vr2 \in Nat /\ va \in Nat /\ vb \in Nat
          /\ m + vd = vt + vr /\ vd2 + va = vd + vb /\ m2 + vb + vr = m + va + vr2
      BY <3>1, <3>2, <3>3, <3>4
    <3> HIDE DEF m, m2, vd, vd2, vt, vr, vr2, va, vb
    <3>6. m2 + vd2 = vt + vr2
      BY <3>5
    <3> QED  BY <3>6 DEF m2, vd2, vt, vr2
  <2> QED  BY <2>1, <2>2, <2>3 DEF Balance
<1> QED  BY <1>1, <1>2, <1>4, <1>5, <1>6, BooksCount

\* drainPending moves what is pending into an empty batch.
LEMMA DrainCount ==
  ASSUME MetricsInv, NEW g \in 0..MaxStarts, batch[g] = Empty, Drain(g),
         UNCHANGED <<stored, lost, repeated>>, Processed' = Processed
  PROVE  CountedOnce' /\ batch' \in [0..MaxStarts -> Aggregates] /\ pending' \in Aggregates
<1>1. /\ pending \in Aggregates /\ stored \in Aggregates /\ lost \in Aggregates
      /\ repeated \in Aggregates /\ Empty \in Aggregates
  BY EmptyType DEF MetricsInv, MetricsTypeOK
<1>2. Moved(pending, stored, lost, Empty, repeated, Empty, stored, lost, pending, repeated)
  <2>1. ASSUME NEW k \in CounterKeys
        PROVE  /\ pending.count[k] \in Nat /\ stored.count[k] \in Nat /\ lost.count[k] \in Nat
               /\ repeated.count[k] \in Nat /\ Empty.count[k] = 0
    BY <1>1, <2>1, Columns, EmptyType
  <2>2. ASSUME NEW k \in LatKeys
        PROVE  /\ pending.ms[k] \in Nat /\ stored.ms[k] \in Nat /\ lost.ms[k] \in Nat
               /\ repeated.ms[k] \in Nat /\ Empty.ms[k] = 0
    BY <1>1, <2>2, Columns, EmptyType
  <2>3. ASSUME NEW k \in LatKeys
        PROVE  /\ pending.n[k] \in Nat /\ stored.n[k] \in Nat /\ lost.n[k] \in Nat
               /\ repeated.n[k] \in Nat /\ Empty.n[k] = 0
    BY <1>1, <2>3, Columns, EmptyType
  <2> QED  BY <2>1, <2>2, <2>3 DEF Moved
<1>3. /\ batch' = [batch EXCEPT ![g] = pending] /\ pending' = Empty
      /\ stored' = stored /\ lost' = lost /\ repeated' = repeated
  BY DEF Drain
<1>4. Moved(pending, stored, lost, batch[g], repeated, Empty, stored, lost, pending, repeated)
  BY <1>2
<1> QED  BY <1>1, <1>3, <1>4, FlushCount

\* Apply stores a batch once, or the part of it that ran, or that part twice.
LEMMA ApplyCount ==
  ASSUME MetricsInv, NEW g \in 0..MaxStarts, ApplyOk(g) \/ ApplyFails(g) \/ ApplyRepeats(g),
         pending' = pending, Processed' = Processed
  PROVE  /\ CountedOnce' /\ batch' \in [0..MaxStarts -> Aggregates]
         /\ stored' \in Aggregates /\ lost' \in Aggregates /\ repeated' \in Aggregates
         /\ failures' \in 0..MaxFailures /\ batch' = [batch EXCEPT ![g] = Empty]
<1> DEFINE b == batch[g]
           Stored(x) == stored' = Merge(stored, x) /\ lost' = lost /\ repeated' = repeated
           Partly(x, y) == /\ stored' = Merge(stored, x) /\ lost' = Merge(lost, y)
                           /\ repeated' = repeated
           Twice(x, y) == /\ stored' = Merge(Merge(stored, x), y) /\ lost' = lost
                          /\ repeated' = Merge(repeated, x)
<1>1. /\ pending \in Aggregates /\ stored \in Aggregates /\ lost \in Aggregates
      /\ repeated \in Aggregates /\ Empty \in Aggregates /\ b \in Aggregates
      /\ failures \in 0..MaxFailures /\ MaxFailures \in Nat
  BY EmptyType, MetricsAssumption DEF MetricsInv, MetricsTypeOK
<1>2. batch' = [batch EXCEPT ![g] = Empty] /\ failures' \in 0..MaxFailures
  BY <1>1 DEF ApplyOk, ApplyFails, ApplyRepeats, faults
<1>3. \E q, o \in Aggregates :
        /\ \A k \in CounterKeys : q.count[k] + o.count[k] = b.count[k]
        /\ \A k \in LatKeys : q.ms[k] + o.ms[k] = b.ms[k]
        /\ \A k \in LatKeys : q.n[k] + o.n[k] = b.n[k]
        /\ Stored(b) \/ Partly(q, o) \/ Twice(q, b)
  <2>1. CASE ApplyOk(g)
    <3>1. /\ Empty \in Aggregates
          /\ \A k \in CounterKeys : b.count[k] + Empty.count[k] = b.count[k]
          /\ \A k \in LatKeys : b.ms[k] + Empty.ms[k] = b.ms[k]
          /\ \A k \in LatKeys : b.n[k] + Empty.n[k] = b.n[k]
      BY <1>1, EmptyType, Columns
    <3>2. Stored(b)
      BY <2>1 DEF ApplyOk, faults
    <3> QED  BY <1>1, <3>1, <3>2
  <2>2. CASE ApplyFails(g)
    <3>1. PICK p \in Prefixes : /\ stored' = Merge(stored, Part(batch[g], p))
                                /\ lost' = Merge(lost, Part(batch[g], Others(p)))
      BY <2>2 DEF ApplyFails
    <3>2. repeated' = repeated
      BY <2>2 DEF ApplyFails
    <3> DEFINE q == Part(b, p)
               o == Part(b, Others(p))
    <3>3. Partly(q, o)
      BY <3>1, <3>2
    <3> HIDE DEF b, Stored, Partly, Twice
    <3>4. /\ q \in Aggregates /\ o \in Aggregates
          /\ \A k \in CounterKeys : q.count[k] + o.count[k] = b.count[k]
          /\ \A k \in LatKeys : q.ms[k] + o.ms[k] = b.ms[k]
          /\ \A k \in LatKeys : q.n[k] + o.n[k] = b.n[k]
      <4>1. b \in Aggregates
        BY <1>1
      <4> QED  BY <4>1, PartSplit DEF Split
    <3> HIDE DEF q, o
    <3> QED  BY <3>3, <3>4
  <2>3. CASE ApplyRepeats(g)
    <3>1. PICK p \in Prefixes : /\ stored' = Merge(Merge(stored, Part(batch[g], p)), batch[g])
                                /\ repeated' = Merge(repeated, Part(batch[g], p))
      BY <2>3 DEF ApplyRepeats
    <3>2. lost' = lost
      BY <2>3 DEF ApplyRepeats
    <3> DEFINE q == Part(b, p)
               o == Part(b, Others(p))
    <3>3. Twice(q, b)
      BY <3>1, <3>2
    <3> HIDE DEF b, Stored, Partly, Twice
    <3>4. /\ q \in Aggregates /\ o \in Aggregates
          /\ \A k \in CounterKeys : q.count[k] + o.count[k] = b.count[k]
          /\ \A k \in LatKeys : q.ms[k] + o.ms[k] = b.ms[k]
          /\ \A k \in LatKeys : q.n[k] + o.n[k] = b.n[k]
      <4>1. b \in Aggregates
        BY <1>1
      <4> QED  BY <4>1, PartSplit DEF Split
    <3> HIDE DEF q, o
    <3> QED  BY <3>3, <3>4
  <2> QED  BY <2>1, <2>2, <2>3
<1>4. PICK q \in Aggregates, o \in Aggregates :
        /\ \A k \in CounterKeys : q.count[k] + o.count[k] = b.count[k]
        /\ \A k \in LatKeys : q.ms[k] + o.ms[k] = b.ms[k]
        /\ \A k \in LatKeys : q.n[k] + o.n[k] = b.n[k]
        /\ Stored(b) \/ Partly(q, o) \/ Twice(q, b)
  BY <1>3
<1>5. stored' \in Aggregates /\ lost' \in Aggregates /\ repeated' \in Aggregates
  BY <1>1, <1>4, MergeType
<1> HIDE DEF b
<1>6. /\ \A k \in CounterKeys : stored'.count[k] + lost'.count[k] + repeated.count[k]
            = stored.count[k] + lost.count[k] + b.count[k] + repeated'.count[k]
      /\ \A k \in LatKeys : stored'.ms[k] + lost'.ms[k] + repeated.ms[k]
            = stored.ms[k] + lost.ms[k] + b.ms[k] + repeated'.ms[k]
      /\ \A k \in LatKeys : stored'.n[k] + lost'.n[k] + repeated.n[k]
            = stored.n[k] + lost.n[k] + b.n[k] + repeated'.n[k]
  <2>1. ASSUME NEW k \in CounterKeys
        PROVE  stored'.count[k] + lost'.count[k] + repeated.count[k]
                 = stored.count[k] + lost.count[k] + b.count[k] + repeated'.count[k]
    <3>1. /\ stored.count[k] \in Nat /\ lost.count[k] \in Nat /\ repeated.count[k] \in Nat
          /\ b.count[k] \in Nat /\ q.count[k] \in Nat /\ o.count[k] \in Nat
          /\ q.count[k] + o.count[k] = b.count[k]
      BY <1>1, <1>4, <2>1, Columns
    <3>2. CASE Stored(b)
      BY <1>1, <2>1, <3>1, <3>2, MergeType
    <3>3. CASE Partly(q, o)
      BY <1>1, <1>4, <2>1, <3>1, <3>3, MergeType
    <3>4. CASE Twice(q, b)
      <4>1. Merge(stored, q) \in Aggregates /\ Merge(stored, q).count[k] = stored.count[k] + q.count[k]
        BY <1>1, <1>4, <2>1, MergeType
      <4>2. stored'.count[k] = Merge(stored, q).count[k] + b.count[k]
        BY <1>1, <2>1, <3>4, <4>1, MergeType
      <4>3. repeated'.count[k] = repeated.count[k] + q.count[k] /\ lost' = lost
        BY <1>1, <1>4, <2>1, <3>4, MergeType
      <4> QED  BY <3>1, <4>1, <4>2, <4>3
    <3> QED  BY <1>4, <3>2, <3>3, <3>4
  <2>2. ASSUME NEW k \in LatKeys
        PROVE  stored'.ms[k] + lost'.ms[k] + repeated.ms[k]
                 = stored.ms[k] + lost.ms[k] + b.ms[k] + repeated'.ms[k]
    <3>1. /\ stored.ms[k] \in Nat /\ lost.ms[k] \in Nat /\ repeated.ms[k] \in Nat
          /\ b.ms[k] \in Nat /\ q.ms[k] \in Nat /\ o.ms[k] \in Nat
          /\ q.ms[k] + o.ms[k] = b.ms[k]
      BY <1>1, <1>4, <2>2, Columns
    <3>2. CASE Stored(b)
      BY <1>1, <2>2, <3>1, <3>2, MergeType
    <3>3. CASE Partly(q, o)
      BY <1>1, <1>4, <2>2, <3>1, <3>3, MergeType
    <3>4. CASE Twice(q, b)
      <4>1. Merge(stored, q) \in Aggregates /\ Merge(stored, q).ms[k] = stored.ms[k] + q.ms[k]
        BY <1>1, <1>4, <2>2, MergeType
      <4>2. stored'.ms[k] = Merge(stored, q).ms[k] + b.ms[k]
        BY <1>1, <2>2, <3>4, <4>1, MergeType
      <4>3. repeated'.ms[k] = repeated.ms[k] + q.ms[k] /\ lost' = lost
        BY <1>1, <1>4, <2>2, <3>4, MergeType
      <4> QED  BY <3>1, <4>1, <4>2, <4>3
    <3> QED  BY <1>4, <3>2, <3>3, <3>4
  <2>3. ASSUME NEW k \in LatKeys
        PROVE  stored'.n[k] + lost'.n[k] + repeated.n[k]
                 = stored.n[k] + lost.n[k] + b.n[k] + repeated'.n[k]
    <3>1. /\ stored.n[k] \in Nat /\ lost.n[k] \in Nat /\ repeated.n[k] \in Nat
          /\ b.n[k] \in Nat /\ q.n[k] \in Nat /\ o.n[k] \in Nat
          /\ q.n[k] + o.n[k] = b.n[k]
      BY <1>1, <1>4, <2>3, Columns
    <3>2. CASE Stored(b)
      BY <1>1, <2>3, <3>1, <3>2, MergeType
    <3>3. CASE Partly(q, o)
      BY <1>1, <1>4, <2>3, <3>1, <3>3, MergeType
    <3>4. CASE Twice(q, b)
      <4>1. Merge(stored, q) \in Aggregates /\ Merge(stored, q).n[k] = stored.n[k] + q.n[k]
        BY <1>1, <1>4, <2>3, MergeType
      <4>2. stored'.n[k] = Merge(stored, q).n[k] + b.n[k]
        BY <1>1, <2>3, <3>4, <4>1, MergeType
      <4>3. repeated'.n[k] = repeated.n[k] + q.n[k] /\ lost' = lost
        BY <1>1, <1>4, <2>3, <3>4, MergeType
      <4> QED  BY <3>1, <4>1, <4>2, <4>3
    <3> QED  BY <1>4, <3>2, <3>3, <3>4
  <2> QED  BY <2>1, <2>2, <2>3
<1>7. Moved(pending, stored, lost, b, repeated, pending, stored', lost', Empty, repeated')
  <2>1. ASSUME NEW k \in CounterKeys
        PROVE  pending.count[k] + stored'.count[k] + lost'.count[k] + Empty.count[k] + repeated.count[k]
                 = pending.count[k] + stored.count[k] + lost.count[k] + b.count[k] + repeated'.count[k]
    <3>1. /\ pending.count[k] \in Nat /\ stored'.count[k] \in Nat /\ lost'.count[k] \in Nat
          /\ repeated.count[k] \in Nat /\ stored.count[k] \in Nat /\ lost.count[k] \in Nat
          /\ b.count[k] \in Nat /\ repeated'.count[k] \in Nat /\ Empty.count[k] = 0
      BY <1>1, <1>5, <2>1, Columns, EmptyType
    <3>2. stored'.count[k] + lost'.count[k] + repeated.count[k]
            = stored.count[k] + lost.count[k] + b.count[k] + repeated'.count[k]
      BY <1>6, <2>1
    <3> QED  BY <3>1, <3>2
  <2>2. ASSUME NEW k \in LatKeys
        PROVE  pending.ms[k] + stored'.ms[k] + lost'.ms[k] + Empty.ms[k] + repeated.ms[k]
                 = pending.ms[k] + stored.ms[k] + lost.ms[k] + b.ms[k] + repeated'.ms[k]
    <3>1. /\ pending.ms[k] \in Nat /\ stored'.ms[k] \in Nat /\ lost'.ms[k] \in Nat
          /\ repeated.ms[k] \in Nat /\ stored.ms[k] \in Nat /\ lost.ms[k] \in Nat
          /\ b.ms[k] \in Nat /\ repeated'.ms[k] \in Nat /\ Empty.ms[k] = 0
      BY <1>1, <1>5, <2>2, Columns, EmptyType
    <3>2. stored'.ms[k] + lost'.ms[k] + repeated.ms[k]
            = stored.ms[k] + lost.ms[k] + b.ms[k] + repeated'.ms[k]
      BY <1>6, <2>2
    <3> QED  BY <3>1, <3>2
  <2>3. ASSUME NEW k \in LatKeys
        PROVE  pending.n[k] + stored'.n[k] + lost'.n[k] + Empty.n[k] + repeated.n[k]
                 = pending.n[k] + stored.n[k] + lost.n[k] + b.n[k] + repeated'.n[k]
    <3>1. /\ pending.n[k] \in Nat /\ stored'.n[k] \in Nat /\ lost'.n[k] \in Nat
          /\ repeated.n[k] \in Nat /\ stored.n[k] \in Nat /\ lost.n[k] \in Nat
          /\ b.n[k] \in Nat /\ repeated'.n[k] \in Nat /\ Empty.n[k] = 0
      BY <1>1, <1>5, <2>3, Columns, EmptyType
    <3>2. stored'.n[k] + lost'.n[k] + repeated.n[k]
            = stored.n[k] + lost.n[k] + b.n[k] + repeated'.n[k]
      BY <1>6, <2>3
    <3> QED  BY <3>1, <3>2
  <2> QED  BY <2>1, <2>2, <2>3 DEF Moved
<1>8. Moved(pending, stored, lost, batch[g], repeated, pending, stored', lost', Empty, repeated')
  BY <1>7 DEF b
<1>9. CountedOnce' /\ batch' \in [0..MaxStarts -> Aggregates]
  BY <1>1, <1>2, <1>5, <1>8, FlushCount
<1> QED  BY <1>2, <1>5, <1>9

\* The flush loop drains and applies.
LEMMA LoopInv ==
  ASSUME MetricsInv, NEW g \in Gens, LoopDrain(g) \/ LoopApply(g)
  PROVE  MetricsInv'
<1> USE DEF LoopDrain, LoopApply, life
<1>1. /\ g \in 0..MaxStarts /\ g # 0 /\ batch \in [0..MaxStarts -> Aggregates]
      /\ flush \in [Gens -> {"off", "idle", "apply"}] /\ MaxStarts \in Nat
      /\ \A f \in Gens : f \in 0..MaxStarts /\ f # 0
  BY MetricsAssumption DEF MetricsInv, MetricsTypeOK, Gens
<1>2. PlacesInv' /\ Processed' = Processed
  BY PlacesKept
<1>3. /\ UNCHANGED <<started, gen, cancelled, queue, call, hand, owner, stopped>>
      /\ flush' \in [Gens -> {"off", "idle", "apply"}]
      /\ \A f \in Gens : f # g => flush'[f] = flush[f]
  BY <1>1
<1>4. ~AllGone /\ ~(g > gen)
  BY DEF AllGone, MetricsInv, LifeInv
<1>5. LifeInv'
  <2>1. \A f \in Gens : f > gen => flush'[f] = "off" /\ \A w \in Workers : hand'[<<f, w>>] = "off"
    BY <1>3, <1>4 DEF MetricsInv, LifeInv
  <2> QED  BY <1>3, <1>4, <2>1 DEF MetricsInv, LifeInv
<1>6. CASE LoopDrain(g)
  <2>1. UNCHANGED <<stored, lost, repeated, failures>> /\ Drain(g) /\ batch[g] = Empty
    BY <1>6 DEF MetricsInv, BatchInv, faults
  <2>2. CountedOnce' /\ batch' \in [0..MaxStarts -> Aggregates] /\ pending' \in Aggregates
    BY <1>1, <1>2, <2>1, DrainCount
  <2>3. BatchInv'
    BY <1>1, <1>3, <1>6, <2>1 DEF MetricsInv, BatchInv, Drain
  <2>4. MetricsTypeOK'
    BY <1>3, <2>1, <2>2 DEF MetricsInv, MetricsTypeOK
  <2> QED  BY <1>2, <1>5, <2>2, <2>3, <2>4 DEF MetricsInv
<1>7. CASE LoopApply(g)
  <2>1. pending' = pending /\ (ApplyOk(g) \/ ApplyFails(g) \/ ApplyRepeats(g))
    BY <1>7
  <2>2. /\ CountedOnce' /\ batch' \in [0..MaxStarts -> Aggregates]
        /\ stored' \in Aggregates /\ lost' \in Aggregates /\ repeated' \in Aggregates
        /\ failures' \in 0..MaxFailures /\ batch' = [batch EXCEPT ![g] = Empty]
    BY <1>1, <1>2, <2>1, ApplyCount
  <2>3. BatchInv'
    BY <1>1, <1>3, <2>2 DEF MetricsInv, BatchInv
  <2>4. MetricsTypeOK'
    BY <1>3, <2>1, <2>2 DEF MetricsInv, MetricsTypeOK
  <2> QED  BY <1>2, <1>5, <2>2, <2>3, <2>4 DEF MetricsInv
<1> QED  BY <1>6, <1>7

\* The last Flush, once every goroutine is gone.
LEMMA LastFlushInv ==
  ASSUME MetricsInv, LastFlush
  PROVE  MetricsInv'
<1> USE DEF LastFlush, StopDrain, StopApply, life
<1>1. /\ 0 \in 0..MaxStarts /\ 0 \notin Gens /\ batch \in [0..MaxStarts -> Aggregates]
      /\ Gens \subseteq 0..MaxStarts /\ MaxStarts \in Nat
  BY MetricsAssumption DEF MetricsInv, MetricsTypeOK, Gens
<1>2. PlacesInv' /\ Processed' = Processed
  BY PlacesKept
<1>3. UNCHANGED <<started, gen, cancelled, queue, call, hand, flush>>
  OBVIOUS
<1>4. AllGone /\ AllGone' /\ ~started
  BY DEF AllGone, MetricsInv, LifeInv
<1>5. CASE StopDrain
  <2>1. UNCHANGED <<stored, lost, repeated, failures>> /\ Drain(0) /\ batch[0] = Empty
    BY <1>5 DEF MetricsInv, BatchInv, faults
  <2>2. CountedOnce' /\ batch' \in [0..MaxStarts -> Aggregates] /\ pending' \in Aggregates
    BY <1>1, <1>2, <2>1, DrainCount
  <2>3. BatchInv'
    BY <1>1, <1>3, <1>5, <2>1 DEF MetricsInv, BatchInv, Drain
  <2>4. MetricsTypeOK'
    BY <1>3, <1>5, <2>1, <2>2 DEF MetricsInv, MetricsTypeOK
  <2>5. LifeInv'
    BY <1>3, <1>4, <1>5, <2>1 DEF MetricsInv, LifeInv, Drain
  <2> QED  BY <1>2, <2>2, <2>3, <2>4, <2>5 DEF MetricsInv
<1>6. CASE StopApply
  <2>1. pending' = pending /\ (ApplyOk(0) \/ ApplyFails(0) \/ ApplyRepeats(0))
    BY <1>6
  <2>2. /\ CountedOnce' /\ batch' \in [0..MaxStarts -> Aggregates]
        /\ stored' \in Aggregates /\ lost' \in Aggregates /\ repeated' \in Aggregates
        /\ failures' \in 0..MaxFailures /\ batch' = [batch EXCEPT ![0] = Empty]
    BY <1>1, <1>2, <2>1, ApplyCount
  <2>3. BatchInv'
    BY <1>1, <1>3, <2>2 DEF MetricsInv, BatchInv
  <2>4. MetricsTypeOK'
    BY <1>3, <1>6, <2>1, <2>2 DEF MetricsInv, MetricsTypeOK
  <2>5. LifeInv'
    BY <1>3, <1>4, <1>6 DEF MetricsInv, LifeInv
  <2> QED  BY <1>2, <2>2, <2>3, <2>4, <2>5 DEF MetricsInv
<1> QED  BY <1>5, <1>6
-----------------------------------------------------------------------------
\* The invariant holds at first.
LEMMA MetricsInitInv ==
  ASSUME MetricsInit
  PROVE  MetricsInv
<1> USE DEF MetricsInit
<1>1. /\ Empty \in Aggregates /\ MaxStarts \in Nat /\ MaxFailures \in Nat /\ QueueSize \in Nat
      /\ {"off", "idle"} \cap Events = {}
  BY EmptyType, MetricsAssumption
<1>2. MetricsTypeOK
  <2>0. started \in BOOLEAN /\ gen = 0 /\ cancelled = {}
    BY Zenon
  <2>1. started \in BOOLEAN /\ gen \in 0..MaxStarts /\ cancelled \subseteq 1..gen
    BY <1>1, <2>0
  <2>2. queue \in Seq(Events) /\ Len(queue) <= QueueSize
    BY <1>1
  <2>3. /\ call \in [Events -> {"new", "checked", "accepted", "full", "refused"}]
        /\ hand \in [Gens \X Workers -> {"off", "idle"} \cup Events]
        /\ flush \in [Gens -> {"off", "idle", "apply"}]
    OBVIOUS
  <2>4. /\ batch \in [0..MaxStarts -> Aggregates] /\ failures \in 0..MaxFailures
        /\ stopped \in {"none", "ok", "timeout", "error"} /\ owner \in {"free", "waiting", "apply"}
    BY <1>1
  <2> QED  BY <1>1, <2>1, <2>2, <2>3, <2>4 DEF MetricsTypeOK
<1>3. Queued = {} /\ InHand = {}
  BY <1>1 DEF Queued, InHand
<1>4. Processed = {}
  BY DEF Processed
<1>5. PlacesInv
  BY <1>1, <1>3, <1>4, FS_EmptySet DEF PlacesInv
<1>6. LifeInv /\ BatchInv
  BY <1>1 DEF LifeInv, BatchInv, Gens
<1>7. Drained = Empty /\ SumOver(Processed) = Empty
  BY <1>4, DrainedEmpty, SumEmpty
<1>8. CountedOnce
  <2>1. Merge(Empty, Empty) = Empty
    BY DEF Merge, Empty
  <2> QED  BY <1>7, <2>1 DEF CountedOnce, Held
<1> QED  BY <1>2, <1>5, <1>6, <1>8 DEF MetricsInv

\* Every step preserves it.
LEMMA MetricsNextInv ==
  ASSUME MetricsInv, [MetricsNext]_metricsVars
  PROVE  MetricsInv'
<1>1. CASE UNCHANGED metricsVars
  <2>1. UNCHANGED <<started, gen, cancelled, queue, pending, stored, call, hand, flush, batch,
                    owner, stopped, failures, lost, repeated>>
    BY <1>1 DEF metricsVars, life, work, faults
  <2>2. PlacesInv' /\ Processed' = Processed
    BY <2>1, PlacesKept
  <2>3. CountedOnce'
    BY <2>1, <2>2, CountKept DEF MetricsInv
  <2>4. MetricsTypeOK'
    BY <2>1 DEF MetricsInv, MetricsTypeOK
  <2>5. LifeInv' /\ BatchInv'
    BY <2>1 DEF MetricsInv, LifeInv, BatchInv, AllGone
  <2> QED  BY <2>2, <2>3, <2>4, <2>5 DEF MetricsInv
<1>2. CASE Start
  BY <1>2, StartInv
<1>3. CASE StopBegin \/ StopTimeout
  BY <1>3, StopInv
<1>4. CASE LastFlush
  BY <1>4, LastFlushInv
<1>5. CASE \E e \in Events : IngestRefuse(e) \/ IngestCheck(e) \/ IngestSend(e)
  BY <1>5, IngestInv
<1>6. CASE \E g \in Gens, w \in Workers : Work(g, w)
  <2>1. PICK g \in Gens, w \in Workers : Work(g, w)
    BY <1>6
  <2> QED  BY <2>1, ReceiveInv, ProcessInv, ExitInv DEF Work
<1>7. CASE \E g \in Gens : FlushLoop(g)
  <2>1. PICK g \in Gens : FlushLoop(g)
    BY <1>7
  <2> QED  BY <2>1, LoopInv, ExitInv DEF FlushLoop
<1> QED  BY <1>1, <1>2, <1>3, <1>4, <1>5, <1>6, <1>7 DEF MetricsNext

\* In every run: types, each accepted event in at most one place, goroutines that belong
\* to their Start, drained aggregates only between drainPending and Apply, and balanced books.
THEOREM MetricsInvariance == MetricsSpec => []MetricsInv
<1>1. MetricsInit => MetricsInv
  BY MetricsInitInv
<1>2. MetricsInv /\ [MetricsNext]_metricsVars => MetricsInv'
  BY MetricsNextInv
<1> QED  BY <1>1, <1>2, PTL DEF MetricsSpec

\* Every event that processEvent folded in is counted once among what is pending, being
\* flushed, stored or lost, except for pipelines that Redis ran twice: with any number of
\* workers, flush loops left over from earlier Starts, and failing calls of Apply.
THEOREM EventsCountedOnce == MetricsSpec => []CountedOnce
<1>1. MetricsInv => CountedOnce
  BY DEF MetricsInv
<1> QED  BY <1>1, MetricsInvariance, PTL

\* A Stop that returned nil left no event with a worker, and every processed event is in
\* the store or was in a batch that a call of Apply reported as failed.
THEOREM NilStopFlushedAll == MetricsSpec => []StopFlushes
<1>1. MetricsInv => StopFlushes
  <2> SUFFICES ASSUME MetricsInv, stopped = "ok"
               PROVE  InHand = {} /\ Merge(stored, lost) = Merge(SumOver(Processed), repeated)
    BY DEF StopFlushes
  <2>1. AllGone /\ pending = Empty /\ owner = "free" /\ "off" \notin Events
    BY MetricsAssumption DEF MetricsInv, LifeInv
  <2>2. InHand = {}
    BY <2>1 DEF AllGone, InHand
  <2>3. \A g \in 0..MaxStarts : batch[g] = Empty
    <3>1. \A g \in 0..MaxStarts : g = 0 \/ g \in Gens
      BY MetricsAssumption DEF Gens
    <3> QED  BY <2>1, <3>1 DEF AllGone, MetricsInv, BatchInv
  <2>4. Drained = Empty
    BY <2>3, DrainedEmpty
  <2>5. stored \in Aggregates /\ lost \in Aggregates
    BY DEF MetricsInv, MetricsTypeOK
  <2>6. Merge(stored, lost) \in Aggregates
    BY <2>5, MergeType
  <2>7. \A a \in Aggregates : Merge(Merge(Empty, a), Empty) = a
    <3> TAKE a \in Aggregates
    <3>1. Merge(Empty, a) \in Aggregates /\ Merge(Merge(Empty, a), Empty) \in Aggregates
      BY EmptyType, MergeType
    <3>2. \A k \in CounterKeys : Merge(Merge(Empty, a), Empty).count[k] = a.count[k]
      BY <3>1, EmptyType, MergeType, Columns
    <3>3. \A k \in LatKeys : /\ Merge(Merge(Empty, a), Empty).ms[k] = a.ms[k]
                             /\ Merge(Merge(Empty, a), Empty).n[k] = a.n[k]
      BY <3>1, EmptyType, MergeType, Columns
    <3> QED  BY <3>1, <3>2, <3>3, SameAggregates
  <2>8. Held = Merge(stored, lost)
    BY <2>1, <2>4, <2>6, <2>7 DEF Held
  <2> QED  BY <2>2, <2>8 DEF MetricsInv, CountedOnce
<1> QED  BY <1>1, MetricsInvariance, PTL
=============================================================================
