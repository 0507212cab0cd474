--------------------------- MODULE Values_proofs ---------------------------
(***************************************************************************)
(* What the server computes: delays, limits and the values of settings.    *)
(*                                                                         *)
(* StreamFairness: giving way is never mutual, whatever torrents are       *)
(* streamed, at whatever rates and since when (SparesOne).  A torrent that *)
(* starts up is not mature and gives way to nobody; without one, the       *)
(* slowest candidate of a torrent that gives way is slower than everybody, *)
(* and has nobody to give way to.  What is to be shown of the streams      *)
(* there are is that their aggregates are numbers.                         *)
(*                                                                         *)
(* PlaybackPolicy: its numbers fit each other for every setting and every  *)
(* size: what TLC checks on samples, for all integers.                     *)
(*                                                                         *)
(* Blocker: a request is refused exactly by what the two files list.  The  *)
(* binary search is a recursion on pairs of bounds, and the argument is on *)
(* the smallest pair for which it might be wrong.                          *)
(*                                                                         *)
(* SettingsValues: debug mode is the configuration's, and what is saved is *)
(* at rest.                                                                *)
(*                                                                         *)
(* CacheMetrics: the numbers the server reports of its caches are exact    *)
(* when nothing is under way.  Between the atomic of a cache and the one   *)
(* of the process a worker owes the sum what it changed and has not told,  *)
(* or took from the cache and has not subtracted: with what is owed, every *)
(* sum is right after every step.                                          *)
(***************************************************************************)
EXTENDS StreamFairness, PlaybackPolicy, Blocker, SettingsValues, CacheMetrics, FiniteSetTheorems,
        SequenceTheorems, TLAPS

-----------------------------------------------------------------------------
(* Sums over finite sets (SumFunctionOnSet of the module Functions).  What   *)
(* is to hold for all finite sets is shown of a smallest one for which it    *)
(* does not: the subsets of a finite set are well founded by inclusion.      *)

\* The equation that defines a sum, over all subsets of S.
pick(s) == CHOOSE x \in s : TRUE
Adds(g, f, S) ==
  g = [s \in SUBSET S |-> IF s = {} THEN 0 ELSE f[pick(s)] + g[s \ {pick(s)}]]

LEMMA SumIsIter ==
  ASSUME NEW f, NEW S
  PROVE  SumFunctionOnSet(f, S) = (CHOOSE g : Adds(g, f, S))[S]
BY DEF SumFunctionOnSet, FoldFunctionOnSet, MapThenFoldSet, Adds, pick

\* Among the finite subsets of S, one without proper subsets.
LEMMA SmallestSubset ==
  ASSUME NEW S, IsFiniteSet(S), NEW B \in SUBSET (SUBSET S), B # {}
  PROVE  \E T \in B : \A U \in SUBSET T : U # T => U \notin B
<1> DEFINE R == StrictSubsetOrdering(S)
<1>1. IsWellFoundedOn(R, SUBSET S)
  BY FS_StrictSubsetOrderingWellFounded, FS_FiniteSubsetsOfFinite
<1> HIDE DEF R
<1>2. PICK T \in B : \A U \in B : ~(<<U, T>> \in R)
  BY <1>1, WFMin
<1> QED BY <1>2 DEF R, StrictSubsetOrdering

LEMMA PickIn == ASSUME NEW s, s # {} PROVE pick(s) \in s
BY DEF pick

LEMMA AddsAgree ==
  ASSUME NEW f, NEW S, NEW U, NEW g, NEW h, Adds(g, f, S), Adds(h, f, U),
         NEW W, IsFiniteSet(W), W \subseteq S, W \subseteq U
  PROVE  g[W] = h[W]
<1> DEFINE B == {s \in SUBSET W : g[s] # h[s]}
<1> SUFFICES ASSUME B # {} PROVE FALSE
  OBVIOUS
<1>1. PICK T \in B : \A s \in SUBSET T : s # T => s \notin B
  <2>1. B \in SUBSET (SUBSET W)
    OBVIOUS
  <2> HIDE DEF B
  <2> QED BY <2>1, SmallestSubset
<1>2. T \in SUBSET S /\ T \in SUBSET U
  OBVIOUS
<1>3. g[T] = IF T = {} THEN 0 ELSE f[pick(T)] + g[T \ {pick(T)}]
  BY <1>2 DEF Adds
<1>4. h[T] = IF T = {} THEN 0 ELSE f[pick(T)] + h[T \ {pick(T)}]
  BY <1>2 DEF Adds
<1>5. CASE T = {}
  BY <1>3, <1>4, <1>5
<1>6. CASE T # {}
  <2>1. T \ {pick(T)} \in SUBSET T /\ T \ {pick(T)} # T
    BY <1>6, PickIn
  <2>2. g[T \ {pick(T)}] = h[T \ {pick(T)}]
    BY <1>1, <2>1
  <2> QED BY <1>3, <1>4, <1>6, <2>2
<1> QED BY <1>5, <1>6

LEMMA AddsExists ==
  ASSUME NEW f, NEW S, IsFiniteSet(S)
  PROVE  \E g : Adds(g, f, S)
<1> DEFINE B == {s \in SUBSET S : ~\E g : Adds(g, f, s)}
<1> SUFFICES ASSUME B # {} PROVE FALSE
  OBVIOUS
<1>1. PICK T \in B : \A s \in SUBSET T : s # T => s \notin B
  <2>1. B \in SUBSET (SUBSET S)
    OBVIOUS
  <2> HIDE DEF B
  <2> QED BY <2>1, SmallestSubset
<1>2. IsFiniteSet(T)
  BY FS_Subset
<1> DEFINE part(s) == CHOOSE g : Adds(g, f, s)
           below(s) == part(s)[s]
           whole == IF T = {} THEN 0 ELSE f[pick(T)] + below(T \ {pick(T)})
           g == [s \in SUBSET T |-> IF s = T THEN whole ELSE below(s)]
<1>3. ASSUME NEW s \in SUBSET T, s # T PROVE Adds(part(s), f, s)
  <2>1. \E h : Adds(h, f, s)
    BY <1>1, <1>3
  <2> QED BY <2>1, Zenon
<1>4. ASSUME NEW s \in SUBSET T, s # T, s # {}
      PROVE  below(s) = f[pick(s)] + below(s \ {pick(s)})
  <2> DEFINE r == s \ {pick(s)}
  <2>1. r \in SUBSET T /\ r # T /\ r \in SUBSET s
    BY <1>4, PickIn
  <2>2. Adds(part(s), f, s) /\ Adds(part(r), f, r)
    BY <1>3, <1>4, <2>1
  <2>3. IsFiniteSet(r)
    BY <1>2, <2>1, FS_Subset
  <2> HIDE DEF part, r
  <2>4. part(s)[r] = part(r)[r]
    BY <2>1, <2>2, <2>3, AddsAgree
  <2>5. part(s)[s] = f[pick(s)] + part(s)[r]
    BY <1>4, <2>2 DEF Adds, r
  <2> QED BY <2>4, <2>5 DEF r
<1>5. T # {} => below({}) = 0
  <2> SUFFICES ASSUME T # {} PROVE below({}) = 0
    OBVIOUS
  <2>1. Adds(part({}), f, {})
    BY <1>3
  <2> HIDE DEF part
  <2> QED BY <2>1 DEF Adds
<1> HIDE DEF below
<1>6. ASSUME NEW s \in SUBSET T
      PROVE  g[s] = IF s = {} THEN 0 ELSE f[pick(s)] + g[s \ {pick(s)}]
  <2>1. CASE s = {}
    BY <1>5, <2>1
  <2>2. CASE s # {}
    <3>1. s \ {pick(s)} \in SUBSET T /\ s \ {pick(s)} # T
      BY <2>2, PickIn
    <3>2. g[s \ {pick(s)}] = below(s \ {pick(s)})
      BY <3>1
    <3>3. CASE s = T
      BY <2>2, <3>2, <3>3
    <3>4. CASE s # T
      BY <1>4, <2>2, <3>2, <3>4
    <3> QED BY <3>3, <3>4
  <2> QED BY <2>1, <2>2
<1>7. Adds(g, f, T)
  <2>1. g = [s \in SUBSET T |-> g[s]]
    OBVIOUS
  <2> HIDE DEF g
  <2> QED BY <1>6, <2>1 DEF Adds
<1> QED BY <1>7

\* The recursion equation of a sum.
LEMMA SumEquation ==
  ASSUME NEW f, NEW S, IsFiniteSet(S)
  PROVE  SumFunctionOnSet(f, S) =
           IF S = {} THEN 0 ELSE f[pick(S)] + SumFunctionOnSet(f, S \ {pick(S)})
<1> DEFINE g == CHOOSE h : Adds(h, f, S)
           r == S \ {pick(S)}
           k == CHOOSE h : Adds(h, f, r)
<1>1. IsFiniteSet(r) /\ r \subseteq S
  BY FS_RemoveElement
<1>2. Adds(g, f, S) /\ Adds(k, f, r)
  <2>1. (\E h : Adds(h, f, S)) /\ (\E h : Adds(h, f, r))
    BY <1>1, AddsExists
  <2> QED BY <2>1, Zenon
<1>3. SumFunctionOnSet(f, S) = g[S] /\ SumFunctionOnSet(f, r) = k[r]
  BY SumIsIter
<1> HIDE DEF g, k, r
<1>4. g[r] = k[r]
  BY <1>1, <1>2, AddsAgree
<1>5. g[S] = IF S = {} THEN 0 ELSE f[pick(S)] + g[r]
  BY <1>2 DEF Adds, r
<1> QED BY <1>3, <1>4, <1>5 DEF r

LEMMA SumEmpty == ASSUME NEW f PROVE SumFunctionOnSet(f, {}) = 0
BY SumEquation, FS_EmptySet

LEMMA SumInt ==
  ASSUME NEW f, NEW S, IsFiniteSet(S), NEW N \in {Nat, Int}, \A x \in S : f[x] \in N
  PROVE  SumFunctionOnSet(f, S) \in N
<1> DEFINE B == {s \in SUBSET S : SumFunctionOnSet(f, s) \notin N}
<1> SUFFICES ASSUME B # {} PROVE FALSE
  OBVIOUS
<1>1. PICK T \in B : \A s \in SUBSET T : s # T => s \notin B
  <2>1. B \in SUBSET (SUBSET S)
    OBVIOUS
  <2> HIDE DEF B
  <2> QED BY <2>1, SmallestSubset
<1>2. IsFiniteSet(T)
  BY FS_Subset
<1>3. T # {}
  BY SumEmpty
<1>4. pick(T) \in T
  BY <1>3, PickIn
<1>5. SumFunctionOnSet(f, T \ {pick(T)}) \in N
  BY <1>1, <1>4
<1>6. SumFunctionOnSet(f, T) = f[pick(T)] + SumFunctionOnSet(f, T \ {pick(T)})
  BY <1>2, <1>3, SumEquation
<1>7. f[pick(T)] \in N
  BY <1>4
<1> QED BY <1>5, <1>6, <1>7

\* Whatever element is taken out first.
LEMMA SumRemove ==
  ASSUME NEW f, NEW S, IsFiniteSet(S), \A x \in S : f[x] \in Int, NEW e \in S
  PROVE  SumFunctionOnSet(f, S) = f[e] + SumFunctionOnSet(f, S \ {e})
<1> DEFINE B == {s \in SUBSET S :
                   \E x \in s : SumFunctionOnSet(f, s) # f[x] + SumFunctionOnSet(f, s \ {x})}
<1> SUFFICES ASSUME B # {} PROVE FALSE
  OBVIOUS
<1>1. PICK T \in B : \A s \in SUBSET T : s # T => s \notin B
  <2>1. B \in SUBSET (SUBSET S)
    OBVIOUS
  <2> HIDE DEF B
  <2> QED BY <2>1, SmallestSubset
<1>2. PICK x \in T : SumFunctionOnSet(f, T) # f[x] + SumFunctionOnSet(f, T \ {x})
  OBVIOUS
<1> DEFINE y == pick(T)
<1>3. y \in T
  BY PickIn
<1>4. IsFiniteSet(T) /\ IsFiniteSet(T \ {x}) /\ IsFiniteSet(T \ {y}) /\ IsFiniteSet((T \ {y}) \ {x})
  BY FS_Subset
<1>5. SumFunctionOnSet(f, T) = f[y] + SumFunctionOnSet(f, T \ {y})
  BY <1>4, SumEquation
<1> HIDE DEF y
<1>6. x # y
  BY <1>2, <1>5
<1>7. SumFunctionOnSet(f, T \ {y}) = f[x] + SumFunctionOnSet(f, (T \ {y}) \ {x})
  BY <1>1, <1>3, <1>6
<1>8. SumFunctionOnSet(f, T \ {x}) = f[y] + SumFunctionOnSet(f, (T \ {x}) \ {y})
  BY <1>1, <1>3, <1>6
<1>9. (T \ {x}) \ {y} = (T \ {y}) \ {x}
  OBVIOUS
<1>10. f[x] \in Int /\ f[y] \in Int /\ SumFunctionOnSet(f, (T \ {y}) \ {x}) \in Int
  BY <1>3, <1>4, SumInt
<1>11. SumFunctionOnSet(f, T) = f[y] + (f[x] + SumFunctionOnSet(f, (T \ {y}) \ {x}))
  BY <1>5, <1>7
<1>12. SumFunctionOnSet(f, T \ {x}) = f[y] + SumFunctionOnSet(f, (T \ {y}) \ {x})
  BY <1>8, <1>9, Zenon
<1> DEFINE rest == SumFunctionOnSet(f, (T \ {y}) \ {x})
<1>13. f[y] + (f[x] + rest) = f[x] + (f[y] + rest)
  <2> HIDE DEF rest
  <2> QED BY <1>10 DEF rest
<1> QED BY <1>2, <1>11, <1>12, <1>13

LEMMA SumSame ==
  ASSUME NEW f, NEW g, NEW S, IsFiniteSet(S), \A x \in S : f[x] = g[x]
  PROVE  SumFunctionOnSet(f, S) = SumFunctionOnSet(g, S)
<1> DEFINE B == {s \in SUBSET S : SumFunctionOnSet(f, s) # SumFunctionOnSet(g, s)}
<1> SUFFICES ASSUME B # {} PROVE FALSE
  OBVIOUS
<1>1. PICK T \in B : \A s \in SUBSET T : s # T => s \notin B
  <2>1. B \in SUBSET (SUBSET S)
    OBVIOUS
  <2> HIDE DEF B
  <2> QED BY <2>1, SmallestSubset
<1>2. IsFiniteSet(T)
  BY FS_Subset
<1>3. T # {}
  BY SumEmpty
<1>4. pick(T) \in T
  BY <1>3, PickIn
<1>5. SumFunctionOnSet(f, T \ {pick(T)}) = SumFunctionOnSet(g, T \ {pick(T)})
  BY <1>1, <1>4
<1>6. /\ SumFunctionOnSet(f, T) = f[pick(T)] + SumFunctionOnSet(f, T \ {pick(T)})
      /\ SumFunctionOnSet(g, T) = g[pick(T)] + SumFunctionOnSet(g, T \ {pick(T)})
  BY <1>2, <1>3, SumEquation
<1>7. f[pick(T)] = g[pick(T)]
  BY <1>4
<1> QED BY <1>5, <1>6, <1>7

\* A function that has changed at one place.
LEMMA SumChange ==
  ASSUME NEW S, IsFiniteSet(S), NEW f, NEW g, \A x \in S : f[x] \in Int /\ g[x] \in Int,
         NEW e \in S, \A x \in S \ {e} : g[x] = f[x]
  PROVE  SumFunctionOnSet(g, S) = SumFunctionOnSet(f, S) + (g[e] - f[e])
<1>1. IsFiniteSet(S \ {e})
  BY FS_Subset
<1>2. /\ SumFunctionOnSet(f, S) = f[e] + SumFunctionOnSet(f, S \ {e})
      /\ SumFunctionOnSet(g, S) = g[e] + SumFunctionOnSet(g, S \ {e})
  BY SumRemove
<1>3. SumFunctionOnSet(g, S \ {e}) = SumFunctionOnSet(f, S \ {e})
  BY <1>1, SumSame
<1>4. SumFunctionOnSet(f, S \ {e}) \in Int
  BY <1>1, SumInt
<1> QED BY <1>2, <1>3, <1>4

\* Zeros add nothing.
LEMMA SumWithin ==
  ASSUME NEW S, IsFiniteSet(S), NEW f, \A x \in S : f[x] \in Int,
         NEW T \in SUBSET S, \A x \in S \ T : f[x] = 0
  PROVE  SumFunctionOnSet(f, S) = SumFunctionOnSet(f, T)
<1> DEFINE B == {s \in SUBSET S : SumFunctionOnSet(f, s) # SumFunctionOnSet(f, s \cap T)}
<1> SUFFICES B = {}
  <2>1. S \in SUBSET S /\ S \cap T = T
    OBVIOUS
  <2>2. S \notin B => SumFunctionOnSet(f, S) = SumFunctionOnSet(f, S \cap T)
    OBVIOUS
  <2> QED BY <2>1, <2>2
<1> SUFFICES ASSUME B # {} PROVE FALSE
  OBVIOUS
<1>1. PICK U \in B : \A s \in SUBSET U : s # U => s \notin B
  <2>1. B \in SUBSET (SUBSET S)
    OBVIOUS
  <2> HIDE DEF B
  <2> QED BY <2>1, SmallestSubset
<1>2. IsFiniteSet(U) /\ IsFiniteSet(U \cap T)
  BY FS_Subset
<1>3. U # {}
  OBVIOUS
<1>4. PICK x \in U : TRUE
  BY <1>3
<1>5. SumFunctionOnSet(f, U \ {x}) = SumFunctionOnSet(f, (U \ {x}) \cap T)
  BY <1>1
<1>6. SumFunctionOnSet(f, U) = f[x] + SumFunctionOnSet(f, U \ {x})
  BY <1>2, SumRemove
<1>7. CASE x \in T
  <2>1. (U \cap T) \ {x} = (U \ {x}) \cap T /\ x \in U \cap T
    BY <1>7
  <2>2. SumFunctionOnSet(f, U \cap T) = f[x] + SumFunctionOnSet(f, (U \cap T) \ {x})
    BY <1>2, <2>1, SumRemove
  <2> QED BY <1>5, <1>6, <2>1, <2>2
<1>8. CASE x \notin T
  <2>1. U \cap T = (U \ {x}) \cap T /\ f[x] = 0
    BY <1>8
  <2>2. SumFunctionOnSet(f, U \ {x}) \in Int
    <3>1. IsFiniteSet(U \ {x})
      BY <1>2, FS_Subset
    <3> QED BY <3>1, SumInt
  <2>3. SumFunctionOnSet(f, U) = SumFunctionOnSet(f, U \ {x})
    BY <1>6, <2>1, <2>2
  <2>4. SumFunctionOnSet(f, U \cap T) = SumFunctionOnSet(f, (U \ {x}) \cap T)
    BY <2>1, Zenon
  <2> QED BY <1>5, <2>3, <2>4
<1> QED BY <1>7, <1>8

LEMMA SumZero ==
  ASSUME NEW S, IsFiniteSet(S), NEW f, \A x \in S : f[x] = 0
  PROVE  SumFunctionOnSet(f, S) = 0
<1>1. {} \in SUBSET S /\ \A x \in S : f[x] \in Int
  OBVIOUS
<1>2. SumFunctionOnSet(f, S) = SumFunctionOnSet(f, {})
  BY <1>1, SumWithin
<1> QED BY <1>2, SumEmpty

-----------------------------------------------------------------------------
(* Fair delays. *)

\* Any table of aggregates that fairnessDelay may build.
Tables == UNION {[T -> AggregateType] : T \in SUBSET Int}

\* The rate of a torrent is a natural number (bytesPerSecond).
LEMMA RateNat ==
  ASSUME NEW agg \in Tables, NEW t \in DOMAIN agg, NEW now \in Nat
  PROVE  rate(agg, t, now) \in Nat
<1>1. PICK T \in SUBSET Int : agg \in [T -> AggregateType]
  BY DEF Tables
<1>2. agg[t] \in AggregateType
  BY <1>1
<1>3. agg[t].bytes \in Nat /\ agg[t].started \in Nat
  BY <1>2 DEF AggregateType
<1>4. now - agg[t].started \in Int
  BY <1>3
<1>5. ASSUME NEW b \in Nat, NEW e \in Int PROVE bytesPerSecond(b, e) \in Nat
  BY DEF bytesPerSecond
<1> QED BY <1>3, <1>4, <1>5 DEF rate

\* A torrent that gives way is mature, and does so either for a start-up that is
\* not mature itself, or for a slowest one it is faster than (fairnessDelay).
LEMMA GivesWayFor ==
  ASSUME NEW agg \in Tables, NEW t \in DOMAIN agg, NEW now \in Nat,
         fairnessDelays(agg, t, now) # {"none"}
  PROVE  /\ isMature(agg, t, now)
         /\ rate(agg, t, now) > 0
         /\ \/ \E u \in DOMAIN agg : ~isMature(agg, u, now)
            \/ \E u \in weakestMatureCandidates(agg, t, now) :
                 rate(agg, t, now) > rate(agg, u, now)
<1>1. mayGiveWay(agg, t, now)
  BY DEF fairnessDelays
<1>2. isMature(agg, t, now) /\ rate(agg, t, now) >= FairnessFastBPS
  BY <1>1 DEF mayGiveWay
<1>3. rate(agg, t, now) > 0
  BY <1>2, RateNat, FairnessAssumption
<1>4. CASE startupProtectionCandidates(agg, t, now) # {}
  BY <1>2, <1>3, <1>4 DEF startupProtectionCandidates, needsStartupProtectionAfter, needsStartupProtection
<1>5. CASE startupProtectionCandidates(agg, t, now) = {}
  <2>1. \E u \in weakestMatureCandidates(agg, t, now) : dominates(agg, t, u, now)
    <3>1. SUFFICES ASSUME \A u \in weakestMatureCandidates(agg, t, now) : ~dominates(agg, t, u, now)
                   PROVE  FALSE
      OBVIOUS
    <3>2. fairnessDelays(agg, t, now) = {"none"}
      BY <1>1, <1>5, <3>1, Zenon DEF fairnessDelays
    <3> QED BY <3>2
  <2>2. PICK u \in weakestMatureCandidates(agg, t, now) : dominates(agg, t, u, now)
    BY <2>1
  <2>3. u \in DOMAIN agg
    BY <2>2 DEF weakestMatureCandidates
  <2>4. rate(agg, u, now) \in Nat /\ rate(agg, t, now) \in Nat
    BY <2>3, RateNat
  <2>5. rate(agg, u, now) > 0 /\ rate(agg, t, now) * 2 > rate(agg, u, now) * 3
    BY <2>2 DEF dominates
  <2>6. rate(agg, t, now) > rate(agg, u, now)
    BY <2>4, <2>5
  <2> QED BY <1>2, <1>3, <2>2, <2>6
<1> QED BY <1>4, <1>5

\* For any aggregates and at any time, the writes of some torrent are not delayed
\* (fairnessDelay).
THEOREM DelaysSpareOne ==
  ASSUME NEW agg \in Tables, NEW now \in Nat
  PROVE  SparesOne(agg, now)
<1>1. SUFFICES ASSUME NEW first \in DOMAIN agg,
                      \A t \in DOMAIN agg : fairnessDelays(agg, t, now) # {"none"}
               PROVE  FALSE
  BY DEF SparesOne
<1>2. \A t \in DOMAIN agg : isMature(agg, t, now)
  BY <1>1, GivesWayFor
<1>3. \A t \in DOMAIN agg : \E u \in weakestMatureCandidates(agg, t, now) :
         rate(agg, t, now) > rate(agg, u, now)
  BY <1>1, <1>2, GivesWayFor
<1>4. PICK slow \in weakestMatureCandidates(agg, first, now) :
         rate(agg, first, now) > rate(agg, slow, now)
  BY <1>1, <1>3
<1>5. slow \in DOMAIN agg
  BY <1>4 DEF weakestMatureCandidates
<1>6. \A u \in DOMAIN agg : rate(agg, u, now) \in Nat
  BY RateNat
<1>7. \A u \in DOMAIN agg : rate(agg, slow, now) <= rate(agg, u, now)
  <2>1. \A u \in DOMAIN agg \ {first} : rate(agg, slow, now) <= rate(agg, u, now)
    BY <1>2, <1>4 DEF weakestMatureCandidates
  <2>2. rate(agg, slow, now) <= rate(agg, first, now)
    BY <1>1, <1>4, <1>5, <1>6
  <2> QED BY <2>1, <2>2
<1>8. PICK slower \in weakestMatureCandidates(agg, slow, now) :
         rate(agg, slow, now) > rate(agg, slower, now)
  BY <1>3, <1>5
<1>9. slower \in DOMAIN agg
  BY <1>8 DEF weakestMatureCandidates
<1> QED BY <1>5, <1>6, <1>7, <1>8, <1>9

\* A set of natural numbers has a least one.
LEMMA SmallestNat ==
  ASSUME NEW S \in SUBSET Nat, S # {}
  PROVE  \E x \in S : \A y \in S : x <= y
<1> DEFINE R == OpToRel(<, Nat)
<1>1. IsWellFoundedOn(R, Nat)
  BY NatLessThanWellFounded, Zenon
<1>2. \A x, y \in Nat : x < y => <<x, y>> \in R
  BY DEF OpToRel
<1> HIDE DEF R
<1>3. PICK x \in S : \A y \in S : ~(<<y, x>> \in R)
  BY <1>1, WFMin
<1>4. \A y \in S : x \in Nat /\ y \in Nat /\ ~(y < x)
  BY <1>2, <1>3
<1> QED BY <1>4

LEMMA MinNat ==
  ASSUME NEW S \in SUBSET Nat, S # {}
  PROVE  Min(S) \in S /\ \A x \in S : Min(S) <= x
BY SmallestNat DEF Min

\* What the registry of flows keeps, whatever the numbers.
FlowType == [torrent : Int, started : Nat, bytes : Nat, lastDelay : Int]
FlowsInv ==
  /\ clock \in Nat
  /\ flowActive \subseteq Flows
  /\ flow \in [Flows -> FlowType]

\* torrentAggregates: what is added up is a number.
LEMMA AggregatesTyped ==
  ASSUME FlowsInv
  PROVE  torrentAggregates(flow, delivery) \in Tables
<1> DEFINE T == {flow[s].torrent : s \in flowActive}
           of(t) == {s \in flowActive : flow[s].torrent = t}
           bytes == [s \in Flows |-> flow[s].bytes]
           agg == torrentAggregates(flow, delivery)
<1>1. T \in SUBSET Int
  BY DEF FlowsInv, FlowType
<1>2. ASSUME NEW t \in T PROVE Min({flow[s].started : s \in of(t)}) \in Nat
  <2>1. {flow[s].started : s \in of(t)} \in SUBSET Nat /\ {flow[s].started : s \in of(t)} # {}
    BY DEF FlowsInv, FlowType
  <2> QED BY <2>1, MinNat
<1>3. ASSUME NEW t \in T PROVE SumFunctionOnSet(bytes, of(t)) \in Nat
  <2>1. IsFiniteSet(of(t))
    <3>1. of(t) \in SUBSET Flows
      BY DEF FlowsInv
    <3> HIDE DEF of
    <3> QED BY <3>1, FS_Subset, FairnessAssumption
  <2>2. \A s \in of(t) : bytes[s] \in Nat
    BY DEF FlowsInv, FlowType
  <2> HIDE DEF of, bytes
  <2> QED BY <2>1, <2>2, SumInt
<1> DEFINE a(t) ==
        [started      |-> Min({flow[s].started : s \in of(t)}),
         bytes        |-> SumFunctionOnSet(bytes, of(t)),
         firstByte    |-> \E s \in of(t) : hasFirstByte(flow[s], delivery[s]),
         recentWait   |-> \E s \in of(t) : hasRecentReadWait(delivery[s]),
         backpressure |-> \E s \in of(t) : hasClientBackpressure(delivery[s]),
         severeWait   |-> \E s \in of(t) : hasRecentSevereReadWait(delivery[s])]
<1>4. agg = [t \in T |-> a(t)]
  BY DEF torrentAggregates
<1>5. ASSUME NEW t \in T PROVE a(t) \in AggregateType
  <2> DEFINE started == Min({flow[s].started : s \in of(t)})
             sum == SumFunctionOnSet(bytes, of(t))
             b1 == \E s \in of(t) : hasFirstByte(flow[s], delivery[s])
             b2 == \E s \in of(t) : hasRecentReadWait(delivery[s])
             b3 == \E s \in of(t) : hasClientBackpressure(delivery[s])
             b4 == \E s \in of(t) : hasRecentSevereReadWait(delivery[s])
  <2>1. started \in Nat /\ sum \in Nat
    BY <1>2, <1>3
  <2>2. b1 \in BOOLEAN /\ b2 \in BOOLEAN /\ b3 \in BOOLEAN /\ b4 \in BOOLEAN
    OBVIOUS
  <2>3. a(t) = [started |-> started, bytes |-> sum, firstByte |-> b1, recentWait |-> b2,
                backpressure |-> b3, severeWait |-> b4]
    OBVIOUS
  <2> HIDE DEF started, sum, b1, b2, b3, b4, a
  <2> QED BY <2>1, <2>2, <2>3 DEF AggregateType
<1> HIDE DEF a, agg
<1>6. agg \in [T -> AggregateType]
  <2> HIDE DEF T
  <2> QED BY <1>4, <1>5
<1> QED BY <1>1, <1>6, Zenon DEF Tables, agg

\* Every step of a stream, the writes it counts and the clock keep them.
LEMMA FlowsStep ==
  ASSUME FlowsInv, [FairnessNext]_fairnessVars
  PROVE  FlowsInv'
<1> USE FairnessAssumption DEF FlowsInv
<1>1. ASSUME NEW s \in Flows, NEW t \in FlowTorrents[s], NEW debug \in BOOLEAN, OpenFlow(s, t, debug)
      PROVE  FlowsInv'
  <2>1. t \in Int
    OBVIOUS
  <2> QED BY <1>1, <2>1 DEF OpenFlow, FlowType
<1>2. ASSUME NEW s \in Flows, SkipStartup(s) \/ StartStartup(s) \/ CompleteStartup(s)
      PROVE  FlowsInv'
  BY <1>2 DEF SkipStartup, StartStartup, CompleteStartup
<1>3. ASSUME NEW s \in Flows, NEW severe \in BOOLEAN, ReadWait(s, severe) PROVE FlowsInv'
  BY <1>3 DEF ReadWait
<1>4. ASSUME NEW s \in Flows, NEW n \in WriteSizes, NEW slow \in BOOLEAN, Write(s, n, slow)
      PROVE  FlowsInv'
  <2> DEFINE counted == [flow EXCEPT ![s].bytes = @ + n]
  <2>1. n \in Nat
    OBVIOUS
  <2>2. counted \in [Flows -> FlowType]
    BY <2>1 DEF FlowType
  <2>3. PICK d : flow' = [counted EXCEPT ![s].lastDelay = IF d THEN clock ELSE @]
    BY <1>4 DEF Write
  <2>4. UNCHANGED <<clock, flowActive>>
    BY <1>4 DEF Write
  <2> HIDE DEF counted
  <2>5. flow' \in [Flows -> FlowType]
    BY <2>2, <2>3 DEF FlowType
  <2> QED BY <2>4, <2>5
<1>5. ASSUME NEW s \in Flows, CloseFlow(s) PROVE FlowsInv'
  BY <1>5 DEF CloseFlow, NoFlow, FlowType, Never
<1>6. CASE Tick
  BY <1>6 DEF Tick
<1>7. CASE UNCHANGED fairnessVars
  BY <1>7 DEF fairnessVars
<1> QED BY <1>1, <1>2, <1>3, <1>4, <1>5, <1>6, <1>7 DEF FairnessNext

\* SomeTorrentUndelayed: at every moment, whatever the streams have written and since
\* when, one of the torrents that are streamed writes without a delay (fairnessDelay).
THEOREM SomeTorrentAlwaysUndelayed == FairnessSpec => []SomeTorrentUndelayed
<1>1. FairnessInit => FlowsInv
  BY FairnessAssumption DEF FairnessInit, FlowsInv, FlowType, NoFlow, Never
<1>2. FlowsInv /\ [FairnessNext]_fairnessVars => FlowsInv'
  BY FlowsStep
<1>3. FlowsInv => SomeTorrentUndelayed
  BY AggregatesTyped, DelaysSpareOne DEF SomeTorrentUndelayed, FlowsInv
<1> QED BY <1>1, <1>2, <1>3, PTL DEF FairnessSpec

-----------------------------------------------------------------------------
(* Limits, readahead and boosts. *)

SettingsType ==
  [profile : STRING, limit : Int, debug : BOOLEAN, conns : Int, halfOpen : Int,
   trackers : Int, stableCap : Int, noDHT : BOOLEAN, noPEX : BOOLEAN]

\* The number of connections is a positive integer (effectiveEstablishedConns).
LEMMA ConnsPositive ==
  ASSUME NEW sets \in SettingsType, NEW default \in Int
  PROVE  effectiveConns(sets, default) \in Int /\ effectiveConns(sets, default) > 0
BY DEF effectiveConns, effectiveEstablishedConns, debugOverride, atLeast, lowCPU, SettingsType

\* For any settings and any library default the connection limits fit each other
\* (connectionPolicyForSettings, adaptiveMaxEstablishedConnsForReaderAge).
THEOREM ConnectionLimitsFit ==
  ASSUME NEW sets \in SettingsType, NEW default \in Int,
         NEW torrents \in Int, NEW readers \in Int, NEW settled \in BOOLEAN
  PROVE  ConnectionsFit(sets, default, torrents, readers, settled)
<1> DEFINE conns == effectiveConns(sets, default)
           policy == connectionPolicy(sets, default)
<1>1. conns \in Int /\ conns > 0
  BY ConnsPositive
<1>2. policy.effectiveConns = conns
  BY DEF connectionPolicy
<1>3. conns <= policy.lowWater /\ policy.lowWater < policy.highWater
  BY <1>1 DEF connectionPolicy, peerLowWater, peerHighWater, atLeast
<1>4. conns <= policy.totalHalfOpen
  <2>1. policy.totalHalfOpen = totalHalfOpenConns(sets, conns)
    BY DEF connectionPolicy
  <2> HIDE DEF conns
  <2>2. boundedPositiveInt(sets.halfOpen, 2000) \in Int
    BY DEF boundedPositiveInt, SettingsType
  <2> QED BY <1>1, <2>1, <2>2 DEF totalHalfOpenConns, debugOverride, atLeast
<1>5. policy.trackerBudget > 0
  <2>1. policy.trackerBudget = trackerBudget(sets)
    BY DEF connectionPolicy
  <2>2. boundedPositiveInt(sets.trackers, 256) \in Int
    BY DEF boundedPositiveInt, SettingsType
  <2> QED BY <2>1, <2>2 DEF trackerBudget, debugOverride
<1>6. LET adaptive == adaptiveMaxEstablishedConns(sets, torrents, readers, settled)
      IN  adaptive > 0 /\ adaptive <= effectiveConns(sets, 50)
  <2>1. effectiveConns(sets, 50) \in Int /\ effectiveConns(sets, 50) > 0
    BY ConnsPositive
  <2> QED BY <2>1 DEF adaptiveMaxEstablishedConns, stablePeerCap, atMost, SettingsType
<1> HIDE DEF policy
<1> QED BY <1>1, <1>2, <1>3, <1>4, <1>5, <1>6 DEF ConnectionsFit, policy

\* A share of a whole, taken as often as it was shared by, is at most the whole.
LEMMA ShareFits ==
  ASSUME NEW whole \in Nat, NEW n \in Nat \ {0}
  PROVE  n * (whole \div n) <= whole /\ whole \div n \in Nat
OBVIOUS

\* For any cache, any number of readers and any setting, the readahead the readers
\* of a torrent start with fits in its cache (initialPlaybackReaderReadahead).
THEOREM InitialReadaheadFits ==
  ASSUME NEW capacity \in Int, NEW readers \in Int, NEW torrents \in Int,
         NEW minRA \in Int, NEW maxRA \in Int
  PROVE  ReadaheadFits(capacity, readers, torrents, minRA, maxRA)
<1> DEFINE n == atLeast(readers, 1)
           ra == adaptiveReadahead(capacity, torrents, minRA, maxRA)
           share == capacity \div n
<1>1. SUFFICES ASSUME capacity > 0
               PROVE  n * initialReadahead(capacity, readers, torrents, minRA, maxRA) <= capacity
  BY DEF ReadaheadFits
<1>2. n \in Nat \ {0}
  BY DEF atLeast
<1>3. n * share <= capacity /\ share \in Nat
  BY <1>1, <1>2, ShareFits
<1>4. ra \in Int /\ ra > 0
  <2> DEFINE least == readaheadBound(minRA, 4)
             most == atLeast(readaheadBound(maxRA, 64), least)
             target == IF torrents > 2 THEN (most * 2) \div torrents ELSE most
  <2>1. least \in Int /\ least > 0 /\ most \in Int
    BY DEF readaheadBound, atLeast
  <2>2. target \in Int
    <3> HIDE DEF most
    <3>1. ASSUME NEW a \in Int, NEW b \in Nat \ {0} PROVE a \div b \in Int
      OBVIOUS
    <3> QED BY <2>1, <3>1
  <2>3. ra = atMost(atLeast(target, least), capacity)
    BY <1>1 DEF adaptiveReadahead
  <2> HIDE DEF target, least, ra
  <2> QED BY <1>1, <2>1, <2>2, <2>3 DEF atLeast, atMost
<1>5. initialReadahead(capacity, readers, torrents, minRA, maxRA) = atMost(ra, share)
  <2> HIDE DEF ra
  <2> QED BY <1>1, <1>4 DEF initialReadahead, ra
<1>6. ASSUME NEW a \in Int, NEW k \in Nat, NEW s \in Nat, k * s <= capacity, a <= s
      PROVE  k * a <= capacity
  <2>1. k * a <= k * s
    BY <1>6
  <2> QED BY <1>6, <2>1
<1>7. atMost(ra, share) \in Int /\ atMost(ra, share) <= share
  <2> HIDE DEF ra, share
  <2> QED BY <1>3, <1>4 DEF atMost
<1> HIDE DEF n, ra, share
<1> QED BY <1>2, <1>3, <1>5, <1>6, <1>7

-----------------------------------------------------------------------------
BoostTypeOK ==
  /\ boostClock \in Nat \ {0} /\ lastBoost \in Nat
  /\ boost \in [BoostIds -> {"none", "starting", "running", "stopping"}]
  /\ boostSince \in [BoostIds -> Nat]
  /\ boostClosed \in BOOLEAN /\ activeBoosts \in Int

\* A boost is over before the cooldown of its claim: it starts within the tick of
\* the claim, runs for its duration and stops within its wait.
BoostInTime(b) ==
  /\ boost[b] = "starting" => lastBoost = boostClock
  /\ boost[b] = "running" => /\ boostSince[b] = lastBoost
                             /\ boostClock - boostSince[b] <= BoostDuration
  /\ boost[b] = "stopping" => /\ boostSince[b] - lastBoost <= BoostDuration
                              /\ boostClock - boostSince[b] <= BoostStopWait
  /\ boost[b] # "none" => lastBoost > 0

\* OneBoost is not inductive by itself: that a second claim is refused depends on
\* how long the first boost can still be around.
BoostInv == BoostTypeOK /\ (\A b \in BoostIds : BoostInTime(b)) /\ OneBoost

\* While a boost is around, the cooldown refuses another claim.
LEMMA ClaimRefused ==
  ASSUME BoostInv, NEW b \in BoostIds, boost[b] # "none"
  PROVE  ~claimBoost
<1>1. boost[b] \in {"starting", "running", "stopping"} /\ boostSince[b] \in Nat
  BY DEF BoostInv, BoostTypeOK
<1>2. BoostInTime(b) /\ lastBoost \in Nat /\ boostClock \in Nat
  BY DEF BoostInv, BoostTypeOK
<1>3. lastBoost > 0 /\ boostClock - lastBoost <= BoostDuration + BoostStopWait
  BY <1>1, <1>2, BoostAssumption DEF BoostInTime
<1> QED BY <1>2, <1>3, BoostAssumption DEF claimBoost

\* Whatever the lengths of cooldown, run and wait, with the cooldown the longest,
\* a torrent never has two boosts, and their number is reported exactly.
THEOREM BoostsAlternate == PolicySpec => []OneBoost
<1>1. PolicyInit => BoostInv
  <2> SUFFICES ASSUME PolicyInit PROVE BoostInv
    OBVIOUS
  <2>1. BoostTypeOK
    <3>1. boost \in [BoostIds -> {"none", "starting", "running", "stopping"}]
          /\ boostSince \in [BoostIds -> Nat]
      BY DEF PolicyInit
    <3>2. boostClosed \in BOOLEAN
      BY Zenon DEF PolicyInit
    <3>3. boostClock \in Nat \ {0} /\ lastBoost \in Nat /\ activeBoosts \in Int
      BY DEF PolicyInit
    <3> QED BY <3>1, <3>2, <3>3 DEF BoostTypeOK
  <2>2. \A b \in BoostIds : boost[b] = "none"
    BY DEF PolicyInit
  <2>3. OneBoost
    BY <2>2 DEF PolicyInit, OneBoost
  <2>4. \A b \in BoostIds : BoostInTime(b)
    BY <2>2 DEF BoostInTime
  <2> QED BY <2>1, <2>3, <2>4 DEF BoostInv
<1>2. BoostInv /\ [PolicyNext]_policyVars => BoostInv'
  <2> SUFFICES ASSUME BoostInv, [PolicyNext]_policyVars PROVE BoostInv'
    OBVIOUS
  <2> USE BoostAssumption
  <2>1. CASE UNCHANGED boostState
    BY <2>1 DEF boostState, BoostInv, BoostTypeOK, BoostInTime, OneBoost
  <2>2. ASSUME NEW b \in BoostIds, NEW sets, NEW input, MaybeBoost(b, sets, input)
        PROVE  BoostInv'
    <3>1. \A c \in BoostIds : boost[c] = "none"
      BY <2>2, ClaimRefused DEF MaybeBoost
    <3> QED BY <2>2, <3>1 DEF MaybeBoost, BoostInv, BoostTypeOK, BoostInTime, OneBoost
  <2>3. ASSUME NEW b \in BoostIds, StartAnnounces(b) PROVE BoostInv'
    <3>1. BoostTypeOK'
      BY <2>3 DEF StartAnnounces, BoostInv, BoostTypeOK
    <3>2. ASSUME NEW c \in BoostIds PROVE BoostInTime(c)'
      BY <2>3 DEF StartAnnounces, BoostInv, BoostTypeOK, BoostInTime
    <3>3. \A c \in BoostIds : c # b => boost[c] = "none"
      BY <2>3 DEF StartAnnounces, BoostInv, OneBoost
    <3>4. activeBoosts = 0
      BY <2>3, <3>3 DEF StartAnnounces, BoostInv, OneBoost
    <3>5. OneBoost'
      BY <2>3, <3>3, <3>4 DEF StartAnnounces, BoostInv, BoostTypeOK, OneBoost
    <3> QED BY <3>1, <3>2, <3>5 DEF BoostInv
  <2>4. ASSUME NEW b \in BoostIds, StopAnnounces(b) PROVE BoostInv'
    BY <2>4 DEF StopAnnounces, BoostInv, BoostTypeOK, BoostInTime, OneBoost
  <2>5. ASSUME NEW b \in BoostIds, EndBoost(b) PROVE BoostInv'
    <3>1. BoostTypeOK' /\ \A c \in BoostIds : BoostInTime(c)'
      BY <2>5 DEF EndBoost, BoostInv, BoostTypeOK, BoostInTime
    <3>2. \A c \in BoostIds : c # b => boost[c] = "none"
      BY <2>5 DEF EndBoost, BoostInv, OneBoost
    <3>3. activeBoosts = 1
      BY <2>5 DEF EndBoost, BoostInv, OneBoost
    <3>4. OneBoost'
      BY <2>5, <3>2, <3>3 DEF EndBoost, BoostInv, BoostTypeOK, OneBoost
    <3> QED BY <3>1, <3>4 DEF BoostInv
  <2>6. CASE CloseBoosted
    BY <2>6 DEF CloseBoosted, BoostInv, BoostTypeOK, BoostInTime, OneBoost
  <2>7. CASE BoostTick
    BY <2>7 DEF BoostTick, BoostInv, BoostTypeOK, BoostInTime, OneBoost
  <2> QED BY <2>1, <2>2, <2>3, <2>4, <2>5, <2>6, <2>7
      DEF PolicyNext, BoostNext, policyVars, boostState
<1>3. BoostInv => OneBoost
  BY DEF BoostInv
<1> QED BY <1>1, <1>2, <1>3, PTL DEF PolicySpec

-----------------------------------------------------------------------------
(* The request blocker: the search by halves in a sorted list finds what the *)
(* file lists.                                                               *)

\* One step of lookupBinary between lo and hi, given what it finds elsewhere.
searchStep(found, ranges, ip, lo, hi) ==
  LET mid == lo + (hi - lo) \div 2
      r == ranges[mid + 1]
  IN  IF lo > hi THEN FALSE
      ELSE IF ipLess(ip, r.first) THEN found[<<lo, mid - 1>>]
      ELSE IF ipLess(r.last, ip) THEN found[<<mid + 1, hi>>]
      ELSE TRUE

\* found is a solution of its recursion.
Searches(found, ranges, ip) ==
  found = [at \in (0..Len(ranges)) \X (-1..(Len(ranges) - 1)) |-> searchStep(found, ranges, ip, at[1], at[2])]

LEMMA LookupIs ==
  ASSUME NEW ranges, NEW ip
  PROVE  lookupBinary(ranges, ip) = (CHOOSE found : Searches(found, ranges, ip))[<<0, Len(ranges) - 1>>]
BY DEF lookupBinary, Searches, searchStep

LEMMA SearchesAt ==
  ASSUME NEW ranges, NEW ip, NEW found, Searches(found, ranges, ip),
         NEW lo \in 0..Len(ranges), NEW hi \in -1..(Len(ranges) - 1)
  PROVE  found[<<lo, hi>>] = searchStep(found, ranges, ip, lo, hi)
BY DEF Searches

\* The order of addresses is linear on what it compares.
LEMMA LessIs ==
  ASSUME NEW a \in IPs, NEW b \in IPs
  PROVE  /\ a.len \in Int /\ a.n \in Int /\ b.len \in Int /\ b.n \in Int
         /\ ipLess(a, b) <=> a.len < b.len \/ (a.len = b.len /\ a.n < b.n)
BY DEF ipLess, IPs

LEMMA LessOrder ==
  ASSUME NEW a \in IPs, NEW b \in IPs, NEW c \in IPs
  PROVE  /\ ~ipLess(a, a)
         /\ ipLess(a, b) => ~ipLess(b, a)
         /\ ipLess(a, b) /\ ~ipLess(c, b) => ipLess(a, c)
         /\ ~ipLess(b, a) /\ ipLess(b, c) => ipLess(a, c)
         /\ ~ipLess(b, a) /\ ~ipLess(c, b) => ~ipLess(c, a)
<1>1. /\ a.len \in Int /\ a.n \in Int /\ b.len \in Int /\ b.n \in Int /\ c.len \in Int /\ c.n \in Int
  BY LessIs
<1> QED BY <1>1 DEF ipLess

\* Ranges in order: no empty one, sorted by their first address, and two that are not the
\* same do not meet.
InOrder(l, N) ==
  /\ N \in Nat /\ Len(l) = N
  /\ \A k \in 1..N : l[k].first \in IPs /\ l[k].last \in IPs /\ ~ipLess(l[k].last, l[k].first)
  /\ \A k \in 1..N : k + 1 \in 1..N => ~ipLess(l[k + 1].first, l[k].first)
  /\ \A j, k \in 1..N : l[j] = l[k] \/ ipLess(l[j].last, l[k].first) \/ ipLess(l[k].last, l[j].first)

\* So no later range starts below an earlier one.
LEMMA SortedThroughout ==
  ASSUME NEW l, NEW N, InOrder(l, N), NEW i \in 1..N, NEW j \in 1..N, i <= j
  PROVE  ~ipLess(l[j].first, l[i].first)
<1> DEFINE B == {k \in 1..N : i <= k /\ ipLess(l[k].first, l[i].first)}
<1>0. N \in Nat /\ \A k \in 1..N : l[k].first \in IPs
  BY DEF InOrder
<1> SUFFICES ASSUME B # {} PROVE FALSE
  OBVIOUS
<1>1. PICK k \in B : \A m \in B : k <= m
  <2>1. B \in SUBSET Nat
    BY <1>0
  <2> HIDE DEF B
  <2> QED BY <2>1, SmallestNat
<1>2. k # i
  <2>1. ~ipLess(l[i].first, l[i].first)
    BY <1>0, LessOrder
  <2> QED BY <2>1
<1>3. k - 1 \in 1..N /\ i <= k - 1 /\ (k - 1) + 1 = k /\ ~(k <= k - 1)
  BY <1>0, <1>2
<1>4. ~ipLess(l[k - 1].first, l[i].first)
  BY <1>1, <1>3
<1>5. ~ipLess(l[k].first, l[k - 1].first)
  BY <1>3 DEF InOrder
<1>6. ~ipLess(l[k].first, l[i].first)
  BY <1>0, <1>3, <1>4, <1>5, LessOrder
<1> QED BY <1>6

\* What the search leaves out at mid holds no address it looks for.
LEMMA Halves ==
  ASSUME NEW l, NEW N, InOrder(l, N), NEW ip \in IPs, NEW mid \in 1..N
  PROVE  /\ ipLess(ip, l[mid].first) => \A k \in mid..N : ~Holds(l[k], ip)
         /\ ipLess(l[mid].last, ip) => \A k \in 1..mid : ~Holds(l[k], ip)
         /\ ~ipLess(ip, l[mid].first) /\ ~ipLess(l[mid].last, ip) => Holds(l[mid], ip)
<1>0. N \in Nat /\ \A k \in 1..N : l[k].first \in IPs /\ l[k].last \in IPs /\ ~ipLess(l[k].last, l[k].first)
  BY DEF InOrder
<1>1. ASSUME ipLess(ip, l[mid].first), NEW k \in mid..N PROVE ~Holds(l[k], ip)
  <2>1. k \in 1..N /\ mid <= k
    BY <1>0
  <2>2. ~ipLess(l[k].first, l[mid].first)
    BY <2>1, SortedThroughout
  <2>3. ipLess(ip, l[k].first)
    BY <1>0, <1>1, <2>1, <2>2, LessOrder
  <2> QED BY <2>3 DEF Holds
<1>2. ASSUME ipLess(l[mid].last, ip), NEW k \in 1..mid PROVE ~Holds(l[k], ip)
  <2>1. k \in 1..N /\ k <= mid
    BY <1>0
  <2>2. ~ipLess(l[mid].first, l[k].first)
    BY <2>1, SortedThroughout
  <2>3. CASE l[k] = l[mid]
    BY <1>2, <2>3 DEF Holds
  <2>4. CASE ipLess(l[k].last, l[mid].first)
    <3>1. ipLess(l[k].last, l[mid].last)
      BY <1>0, <2>1, <2>4, LessOrder
    <3>2. ~ipLess(ip, l[mid].last)
      BY <1>0, <1>2, LessOrder
    <3>3. ipLess(l[k].last, ip)
      BY <1>0, <2>1, <3>1, <3>2, LessOrder
    <3> QED BY <3>3 DEF Holds
  <2>5. CASE ipLess(l[mid].last, l[k].first)
    <3>1. ipLess(l[mid].first, l[k].first)
      BY <1>0, <2>1, <2>5, LessOrder
    <3> QED BY <2>2, <3>1
  <2> QED BY <2>1, <2>3, <2>4, <2>5 DEF InOrder
<1> QED BY <1>1, <1>2 DEF Holds

\* The cases of a step.
LEMMA StepCases ==
  ASSUME NEW g, NEW l, NEW ip, NEW lo \in Int, NEW hi \in Int, NEW mid, mid = lo + (hi - lo) \div 2
  PROVE  /\ lo > hi => searchStep(g, l, ip, lo, hi) = FALSE
         /\ ~(lo > hi) /\ ~ipLess(ip, l[mid + 1].first) /\ ipLess(l[mid + 1].last, ip) =>
              searchStep(g, l, ip, lo, hi) = g[<<mid + 1, hi>>]
         /\ ~(lo > hi) /\ ~ipLess(ip, l[mid + 1].first) /\ ~ipLess(l[mid + 1].last, ip) =>
              searchStep(g, l, ip, lo, hi) = TRUE
BY Zenon DEF searchStep

LEMMA StepDown ==
  ASSUME NEW g, NEW l, NEW ip, NEW lo, NEW hi, NEW mid, mid = lo + (hi - lo) \div 2,
         ~(lo > hi), ipLess(ip, l[mid + 1].first)
  PROVE  searchStep(g, l, ip, lo, hi) = g[<<lo, mid - 1>>]
BY Zenon DEF searchStep

LEMMA Middle ==
  ASSUME NEW lo \in Int, NEW hi \in Int, lo <= hi, NEW mid, mid = lo + (hi - lo) \div 2
  PROVE  mid \in lo..hi
BY Z3

\* What lookupBinary is to find between lo and hi.
between(l, ip, lo, hi) == \E k \in (lo + 1)..(hi + 1) : Holds(l[k], ip)

\* A step finds it if it is found wherever less is left.
LEMMA BetweenStep ==
  ASSUME NEW l, NEW N, InOrder(l, N), NEW ip \in IPs, NEW g,
         NEW lo \in 0..N, NEW hi \in -1..(N - 1),
         \A a \in 0..N, b \in -1..(N - 1) :
           a > b \/ b - a < hi - lo => g[<<a, b>>] = between(l, ip, a, b)
  PROVE  searchStep(g, l, ip, lo, hi) = between(l, ip, lo, hi)
<1>0. N \in Nat /\ lo \in Int /\ hi \in Int
  BY DEF InOrder
<1>1. CASE lo > hi
  <2>1. ~between(l, ip, lo, hi)
    BY <1>0, <1>1 DEF between
  <2>2. between(l, ip, lo, hi) \in BOOLEAN
    BY DEF between
  <2>3. searchStep(g, l, ip, lo, hi) = FALSE
    BY <1>0, <1>1, StepCases
  <2> QED BY <2>1, <2>2, <2>3, Zenon
<1>2. CASE ~(lo > hi)
  <2>0. PICK mid : mid = lo + (hi - lo) \div 2
    OBVIOUS
  <2>1. mid \in lo..hi
    <3>1. lo <= hi
      BY <1>0, <1>2
    <3> QED BY <1>0, <2>0, <3>1, Middle
  <2>2. /\ mid + 1 \in 1..N /\ mid - 1 \in -1..(N - 1) /\ mid + 1 \in 0..N
        /\ (mid - 1) - lo < hi - lo /\ hi - (mid + 1) < hi - lo
    BY <1>0, <2>1
  <2>3. between(l, ip, lo, hi) \in BOOLEAN
    BY DEF between
  <2>4. CASE ipLess(ip, l[mid + 1].first)
    <3>1. searchStep(g, l, ip, lo, hi) = g[<<lo, mid - 1>>]
      BY <1>2, <2>0, <2>4, StepDown
    <3>2. g[<<lo, mid - 1>>] = between(l, ip, lo, mid - 1)
      BY <2>2
    <3>3. between(l, ip, lo, mid - 1) <=> between(l, ip, lo, hi)
      <4>1. \A k \in (mid + 1)..N : ~Holds(l[k], ip)
        BY <2>2, <2>4, Halves
      <4>2. \A k \in (lo + 1)..(hi + 1) : k \in (lo + 1)..((mid - 1) + 1) \/ k \in (mid + 1)..N
        BY <1>0, <2>1
      <4>3. \A k \in (lo + 1)..((mid - 1) + 1) : k \in (lo + 1)..(hi + 1)
        BY <1>0, <2>1
      <4> QED BY <4>1, <4>2, <4>3, Zenon DEF between
    <3>4. between(l, ip, lo, mid - 1) \in BOOLEAN
      BY DEF between
    <3> QED BY <2>3, <3>1, <3>2, <3>3, <3>4, Zenon
  <2>5. CASE ~ipLess(ip, l[mid + 1].first) /\ ipLess(l[mid + 1].last, ip)
    <3>1. searchStep(g, l, ip, lo, hi) = g[<<mid + 1, hi>>]
      BY <1>0, <1>2, <2>0, <2>5, StepCases, Zenon
    <3>2. g[<<mid + 1, hi>>] = between(l, ip, mid + 1, hi)
      BY <2>2
    <3>3. between(l, ip, mid + 1, hi) <=> between(l, ip, lo, hi)
      <4>1. \A k \in 1..(mid + 1) : ~Holds(l[k], ip)
        BY <2>2, <2>5, Halves
      <4>2. \A k \in (lo + 1)..(hi + 1) : k \in ((mid + 1) + 1)..(hi + 1) \/ k \in 1..(mid + 1)
        BY <1>0, <2>1
      <4>3. \A k \in ((mid + 1) + 1)..(hi + 1) : k \in (lo + 1)..(hi + 1)
        BY <1>0, <2>1
      <4> QED BY <4>1, <4>2, <4>3, Zenon DEF between
    <3>4. between(l, ip, mid + 1, hi) \in BOOLEAN
      BY DEF between
    <3> QED BY <2>3, <3>1, <3>2, <3>3, <3>4, Zenon
  <2>6. CASE ~ipLess(ip, l[mid + 1].first) /\ ~ipLess(l[mid + 1].last, ip)
    <3>1. searchStep(g, l, ip, lo, hi) = TRUE
      BY <1>0, <1>2, <2>0, <2>6, StepCases, Zenon
    <3>2. between(l, ip, lo, hi)
      <4>1. Holds(l[mid + 1], ip)
        BY <2>2, <2>6, Halves
      <4>2. mid + 1 \in (lo + 1)..(hi + 1)
        BY <1>0, <2>1
      <4> QED BY <4>1, <4>2 DEF between
    <3> QED BY <2>3, <3>1, <3>2, Zenon
  <2> QED BY <2>4, <2>5, <2>6
<1> QED BY <1>1, <1>2

\* The search as a whole: the recursion has a solution, and the smallest piece on which a
\* solution could be wrong does not exist.
LEMMA SearchFinds ==
  ASSUME NEW l, NEW N, InOrder(l, N), N > 0, NEW ip \in IPs
  PROVE  lookupBinary(l, ip) <=> \E k \in 1..N : Holds(l[k], ip)
<1> DEFINE D == (0..N) \X (-1..(N - 1))
           w == [at \in D |-> between(l, ip, at[1], at[2])]
           found == CHOOSE f : Searches(f, l, ip)
<1>0. N \in Nat /\ Len(l) = N
  BY DEF InOrder
<1>1. \A a \in 0..N, b \in -1..(N - 1) : w[<<a, b>>] = between(l, ip, a, b)
  <2> DEFINE m(at) == between(l, ip, at[1], at[2])
  <2>1. \A at \in D : w[at] = m(at)
    OBVIOUS
  <2>2. \A a, b : m(<<a, b>>) = between(l, ip, a, b)
    OBVIOUS
  <2> HIDE DEF w, m
  <2> QED BY <2>1, <2>2
<1>2. Searches(w, l, ip)
  <2>1. ASSUME NEW at \in D PROVE w[at] = searchStep(w, l, ip, at[1], at[2])
    <3>1. at[1] \in 0..N /\ at[2] \in -1..(N - 1)
      OBVIOUS
    <3>2. w[at] = between(l, ip, at[1], at[2])
      OBVIOUS
    <3> HIDE DEF w
    <3>3. searchStep(w, l, ip, at[1], at[2]) = between(l, ip, at[1], at[2])
      BY <1>1, <3>1, BetweenStep
    <3> QED BY <3>2, <3>3
  <2>2. w = [at \in D |-> w[at]]
    OBVIOUS
  <2> HIDE DEF w
  <2> QED BY <1>0, <2>1, <2>2 DEF Searches
<1>3. Searches(found, l, ip)
  BY <1>2, Zenon
<1>4. lookupBinary(l, ip) = found[<<0, N - 1>>]
  BY <1>0, LookupIs
<1> HIDE DEF w, found
<1> DEFINE wrong(a, b) == a <= b /\ found[<<a, b>>] # between(l, ip, a, b)
           B == {d \in Nat : \E a \in 0..N, b \in -1..(N - 1) : d = b - a /\ wrong(a, b)}
<1>5. ASSUME NEW a \in 0..N, NEW b \in -1..(N - 1)
      PROVE  found[<<a, b>>] = searchStep(found, l, ip, a, b)
  BY <1>0, <1>3, SearchesAt
<1>6. ASSUME NEW a \in 0..N, NEW b \in -1..(N - 1), a > b
      PROVE  found[<<a, b>>] = between(l, ip, a, b)
  <2>1. found[<<a, b>>] = FALSE
    <3>1. searchStep(found, l, ip, a, b) = FALSE
      <4>1. a \in Int /\ b \in Int
        BY <1>0
      <4> QED BY <1>6, <4>1, StepCases, Zenon
    <3> QED BY <1>5, <3>1
  <2>2. ~between(l, ip, a, b)
    BY <1>0, <1>6 DEF between
  <2> QED BY <2>1, <2>2, Zenon DEF between
<1>7. B = {}
  <2> SUFFICES ASSUME B # {} PROVE FALSE
    OBVIOUS
  <2>1. PICK d \in B : \A e \in B : d <= e
    <3>1. B \in SUBSET Nat
      OBVIOUS
    <3> HIDE DEF B
    <3> QED BY <3>1, SmallestNat
  <2>2. PICK lo \in 0..N, hi \in -1..(N - 1) : d = hi - lo /\ wrong(lo, hi)
    OBVIOUS
  <2>3. ASSUME NEW a \in 0..N, NEW b \in -1..(N - 1), a > b \/ b - a < hi - lo
        PROVE  found[<<a, b>>] = between(l, ip, a, b)
    <3>1. CASE a > b
      BY <1>6, <3>1
    <3>2. CASE ~(a > b)
      <4>1. a <= b /\ b - a \in Nat /\ ~(d <= b - a)
        BY <1>0, <2>2, <2>3, <3>2
      <4>2. b - a \notin B
        BY <2>1, <4>1
      <4>3. ~wrong(a, b)
        <5> HIDE DEF wrong
        <5> QED BY <4>1, <4>2
      <4> QED BY <4>1, <4>3
    <3> QED BY <3>1, <3>2
  <2>4. searchStep(found, l, ip, lo, hi) = between(l, ip, lo, hi)
    BY <2>3, BetweenStep
  <2> QED BY <1>5, <2>2, <2>4
<1>8. found[<<0, N - 1>>] = between(l, ip, 0, N - 1)
  <2>1. 0 \in 0..N /\ N - 1 \in -1..(N - 1) /\ 0 <= N - 1 /\ (N - 1) - 0 \in Nat
    BY <1>0
  <2>2. (N - 1) - 0 \notin B
    BY <1>7
  <2>3. ~wrong(0, N - 1)
    <3> HIDE DEF wrong
    <3> QED BY <2>1, <2>2
  <2> QED BY <2>1, <2>3
<1>9. between(l, ip, 0, N - 1) <=> \E k \in 1..N : Holds(l[k], ip)
  <2>1. (0 + 1)..((N - 1) + 1) = 1..N
    BY <1>0
  <2> QED BY <2>1, Zenon DEF between
<1> QED BY <1>4, <1>8, <1>9, Zenon

\* The lines of a file.
IsFile(file) == \E n \in Nat : file \in [1..n -> IPLines]

LEMMA LinesParsed ==
  ASSUME NEW line \in IPLines
  PROVE  /\ parseLine(line).kind \in {"blank", "bad", "range"}
         /\ parseLine(line).first \in IPs /\ parseLine(line).last \in IPs
<1>1. line.first.tail \in IPs /\ line.last.tail \in IPs
  <2>1. line.first \in Texts /\ line.last \in Texts
    BY BlockerAssumption
  <2> QED BY <2>1 DEF Texts, IPs
<1> DEFINE rest == IF line.last.colons THEN line.last ELSE line.first
           first == minifyIP(rest.tail)
           last == minifyIP(line.last.tail)
           kind == CASE line.blank -> "blank"
                     [] ~line.blank /\ (NoIP \in {first, last} \/ first.len # last.len) -> "bad"
                     [] OTHER -> "range"
<1>2. first \in IPs /\ last \in IPs
  BY <1>1 DEF minifyIP, IPs
<1>3. parseLine(line) = [kind |-> kind, first |-> first, last |-> last]
  BY DEF parseLine
<1>4. kind \in {"blank", "bad", "range"}
  OBVIOUS
<1> HIDE DEF kind, first, last
<1> QED BY <1>2, <1>3, <1>4

\* Whatever order sorting gives a list, it is the ranges of its file.
LEMMA ListIsFile ==
  ASSUME NEW file, IsFile(file), NEW l \in SortedLists(file)
  PROVE  \E N \in Nat :
           /\ Len(l) = N /\ (l = <<>> <=> N = 0)
           /\ Says(file) = {l[k] : k \in 1..N}
           /\ \A k \in 1..N : l[k].first \in IPs /\ l[k].last \in IPs
           /\ \A k \in 1..N : k + 1 \in 1..N => ~ipLess(l[k + 1].first, l[k].first)
<1> DEFINE S == scanBuf(file)
           N == Cardinality(S)
<1>1. PICK n \in Nat : file \in [1..n -> IPLines]
  BY DEF IsFile
<1>2. Len(file) = n
  BY <1>1
<1>3. \A i \in 1..n : /\ parseLine(file[i]).kind \in {"blank", "bad", "range"}
                      /\ parseLine(file[i]).first \in IPs /\ parseLine(file[i]).last \in IPs
  BY <1>1, LinesParsed
<1>4. S \subseteq 1..n
  BY <1>2 DEF scanBuf
<1>5. N \in Nat
  <2>1. IsFiniteSet(1..n)
    BY FS_Interval
  <2> HIDE DEF S
  <2>2. IsFiniteSet(S)
    BY <1>4, <2>1, FS_Subset
  <2> QED BY <2>2, FS_CardinalityType
<1>6. Says(file) = {parseLine(file[i]) : i \in S}
  <2>1. CASE \E i \in 1..n : parseLine(file[i]).kind = "bad"
    <3>1. S = {} /\ Says(file) = {}
      BY <1>2, <2>1 DEF scanBuf, Says
    <3> HIDE DEF S
    <3> QED BY <3>1
  <2>2. CASE ~\E i \in 1..n : parseLine(file[i]).kind = "bad"
    <3>1. S = {i \in 1..n : parseLine(file[i]).kind = "range"}
      BY <1>2, <2>2 DEF scanBuf
    <3>2. Says(file) = {parseLine(file[i]) : i \in Readable(file)}
      BY <1>2, <2>2 DEF Says
    <3>3. Readable(file) = S
      BY <1>2, <1>3, <2>2, <3>1 DEF Readable
    <3> HIDE DEF S
    <3> QED BY <3>2, <3>3
  <2> QED BY <2>1, <2>2
<1>7. PICK p \in [1..N -> S] :
        /\ \A i \in S : \E k \in 1..N : p[k] = i
        /\ l = [k \in 1..N |-> parseLine(file[p[k]])]
        /\ \A k \in 1..N : k + 1 \in 1..N => ~ipLess(l[k + 1].first, l[k].first)
  BY Zenon DEF SortedLists
<1> HIDE DEF S, N
<1>8. Len(l) = N /\ (l = <<>> <=> N = 0)
  <2>1. Len(l) = N
    BY <1>5, <1>7
  <2>2. Len(<<>>) = 0
    OBVIOUS
  <2>3. N = 0 => l = <<>>
    BY <1>7
  <2> QED BY <2>1, <2>2, <2>3
<1>9. \A k \in 1..N : l[k] = parseLine(file[p[k]]) /\ p[k] \in S
  BY <1>7
<1>10. Says(file) = {l[k] : k \in 1..N}
  BY <1>6, <1>7, <1>9
<1>11. \A k \in 1..N : l[k].first \in IPs /\ l[k].last \in IPs
  BY <1>3, <1>4, <1>9
<1> QED BY <1>5, <1>7, <1>8, <1>10, <1>11

\* Lookup: the search finds exactly what a file with separate ranges lists.
LEMMA LookupSays ==
  ASSUME NEW file, IsFile(file), Separate(file), NEW l \in SortedLists(file), NEW ip \in IPs
  PROVE  /\ l # <<>> <=> Says(file) # {}
         /\ Lookup(l, ip) <=> \E r \in Says(file) : Holds(r, ip)
<1>1. PICK N \in Nat :
           /\ Len(l) = N /\ (l = <<>> <=> N = 0)
           /\ Says(file) = {l[k] : k \in 1..N}
           /\ \A k \in 1..N : l[k].first \in IPs /\ l[k].last \in IPs
           /\ \A k \in 1..N : k + 1 \in 1..N => ~ipLess(l[k + 1].first, l[k].first)
  BY ListIsFile
<1>2. \A k \in 1..N : l[k] \in Says(file)
  BY <1>1
<1>3. InOrder(l, N)
  BY <1>1, <1>2 DEF InOrder, Separate
<1>4. (\E k \in 1..N : Holds(l[k], ip)) <=> \E r \in Says(file) : Holds(r, ip)
  BY <1>1
<1>5. CASE N = 0
  <2>1. l = <<>> /\ Says(file) = {}
    BY <1>1, <1>5
  <2> QED BY <2>1, Zenon DEF Lookup
<1>6. CASE N # 0
  <2>1. l # <<>> /\ Says(file) # {} /\ N > 0
    <3>1. 1 \in 1..N
      BY <1>6
    <3> QED BY <1>1, <1>2, <1>6, <3>1
  <2>2. lookupBinary(l, ip) <=> \E k \in 1..N : Holds(l[k], ip)
    BY <1>3, <2>1, SearchFinds
  <2> QED BY <1>4, <2>1, <2>2, Zenon DEF Lookup
<1> QED BY <1>5, <1>6

\* The lists are made of the files; the last verdict is what they say.
BlockerInv ==
  /\ verdict.ip \in ClientIPs \cup {NoIP}
  /\ ~listsRead => verdict.ip = NoIP
  /\ listsRead =>
       /\ IsFile(blackFile) /\ blackIPList \in SortedLists(blackFile)
       /\ IsFile(whiteFile) /\ whiteIPList \in SortedLists(whiteFile)
  /\ verdict.ip # NoIP => verdict.banned = banned(verdict.ip)

\* A request is refused exactly by what the files list, for any lines, any two files of
\* them in which no ranges meet, any order that sorting may leave them in and any address
\* (scanBuf, New, lookupBinary and the middleware).
THEOREM LookupIsExact == BlockerSpec => []LookupExact
<1>1. BlockerInit => BlockerInv
  BY DEF BlockerInit, BlockerInv
<1>2. BlockerInv /\ [BlockerNext]_blockerVars => BlockerInv'
  <2> SUFFICES ASSUME BlockerInv, [BlockerNext]_blockerVars PROVE BlockerInv'
    OBVIOUS
  <2>1. CASE ReadLists
    <3>1. ~listsRead /\ verdict.ip = NoIP /\ verdict' = verdict /\ listsRead'
      BY <2>1 DEF ReadLists, BlockerInv
    <3>2. ASSUME NEW max \in Nat, NEW file \in Files(max) PROVE IsFile(file)
      BY DEF Files, IsFile
    <3>3. IsFile(blackFile') /\ IsFile(whiteFile')
      BY <2>1, <3>2, BlockerAssumption DEF ReadLists
    <3>4. blackIPList' \in SortedLists(blackFile') /\ whiteIPList' \in SortedLists(whiteFile')
      BY <2>1 DEF ReadLists
    <3> QED BY <3>1, <3>3, <3>4 DEF BlockerInv, IsFile
  <2>2. ASSUME NEW ip \in ClientIPs \cup {NoIP}, CheckRequest(ip) PROVE BlockerInv'
    <3>1. /\ listsRead /\ verdict' = [ip |-> ip, banned |-> banned(ip)]
          /\ UNCHANGED <<listsRead, blackFile, whiteFile, blackIPList, whiteIPList>>
      BY <2>2 DEF CheckRequest
    <3> DEFINE b == banned(ip)
    <3>2. b' = b
      BY <3>1 DEF banned
    <3> HIDE DEF b
    <3>3. verdict'.ip = ip /\ verdict'.banned = b
      BY <3>1 DEF b
    <3>4. verdict'.banned = banned(verdict.ip)'
      BY <3>2, <3>3 DEF b
    <3> QED BY <3>1, <3>3, <3>4 DEF BlockerInv, IsFile
  <2>3. CASE UNCHANGED blockerVars
    BY <2>3 DEF blockerVars, BlockerInv, IsFile, banned
  <2> QED BY <2>1, <2>2, <2>3 DEF BlockerNext
<1>3. BlockerInv => LookupExact
  <2> SUFFICES ASSUME BlockerInv, verdict.ip # NoIP, Separate(blackFile), Separate(whiteFile)
               PROVE  verdict.banned <=>
                        \/ Says(whiteFile) # {} /\ ~Listed(whiteFile, verdict.ip)
                        \/ Listed(blackFile, verdict.ip)
    BY DEF LookupExact
  <2> DEFINE ip == verdict.ip
             addr == minifyIP(ip)
  <2>1. ip \in IPs /\ listsRead
    BY BlockerAssumption DEF BlockerInv
  <2>2. addr \in IPs
    <3> HIDE DEF ip
    <3> QED BY <2>1 DEF minifyIP, IPs
  <2>3. /\ whiteIPList # <<>> <=> Says(whiteFile) # {}
        /\ Lookup(whiteIPList, addr) <=> Listed(whiteFile, ip)
    <3> HIDE DEF ip
    <3> QED BY <2>1, <2>2, LookupSays DEF BlockerInv, Listed
  <2>4. /\ blackIPList # <<>> <=> Says(blackFile) # {}
        /\ Lookup(blackIPList, addr) <=> Listed(blackFile, ip)
    <3> HIDE DEF ip
    <3> QED BY <2>1, <2>2, LookupSays DEF BlockerInv, Listed
  <2>5. Listed(blackFile, ip) => Says(blackFile) # {}
    BY DEF Listed
  <2>6. verdict.banned = banned(ip) /\ ip # NoIP
    BY DEF BlockerInv
  <2>7. banned(ip) <=> /\ ip # NoIP
                       /\ \/ whiteIPList # <<>> /\ ~Lookup(whiteIPList, addr)
                          \/ blackIPList # <<>> /\ Lookup(blackIPList, addr)
    BY Zenon DEF banned
  <2> HIDE DEF ip, addr
  <2>8. banned(ip) <=> \/ Says(whiteFile) # {} /\ ~Listed(whiteFile, ip)
                       \/ Listed(blackFile, ip)
    BY <2>3, <2>4, <2>5, <2>6, <2>7, Zenon
  <2> QED BY <2>6, <2>8, Zenon DEF ip
<1> QED BY <1>1, <1>2, <1>3, PTL DEF BlockerSpec

-----------------------------------------------------------------------------
(* Settings values: debug mode is the configuration's.  Whatever is done to *)
(* settings on their way leaves EnableDebug as it is, or off.               *)

AllFields(s) == s = [f \in FieldNames |-> s[f]]

\* What a client reads of the settings in a process that was started with debug.
ReadDebug(read, debug) ==
  /\ DOMAIN read = FieldNames \ {"DebugMaxUnverifiedBytesMB"}
  /\ read["EnableDebug"] \in {FALSE, debug}

DebugInv ==
  /\ AllFields(current)
  /\ savedSets = NotSaved \/ AllFields(savedSets)
  /\ processUp => current["EnableDebug"] \in {FALSE, cfgDebug}
  /\ ~processUp => request = [c \in SettingsClients |-> NoRequest]
  /\ DOMAIN request = SettingsClients
  /\ \A c \in SettingsClients : request[c].busy => ReadDebug(request[c].read, cfgDebug)

LEMMA DebugIsAField ==
  /\ "EnableDebug" \in FieldNames \ {"DebugMaxUnverifiedBytesMB"}
  /\ "EnableDebug" \in ConfigFields
  /\ zero("EnableDebug") = FALSE
BY DEF FieldNames, ConfigFields, DebugFields, zero, Booleans

\* Nor does another field's value matter to it.
LEMMA FieldKept ==
  ASSUME NEW s, AllFields(s), NEW f, NEW value, f # "EnableDebug"
  PROVE  /\ AllFields([s EXCEPT ![f] = value])
         /\ [s EXCEPT ![f] = value]["EnableDebug"] = s["EnableDebug"]
BY DEF AllFields

LEMMA ThreeKept ==
  ASSUME NEW s, AllFields(s), NEW x, NEW y, NEW z
  PROVE  /\ LET t == [s EXCEPT !.PreloadCache = x, !.ReaderReadAHead = y, !.WarmDiskCacheTTLMin = z]
            IN  AllFields(t) /\ t["EnableDebug"] = s["EnableDebug"]
         /\ LET t == [s EXCEPT !.CoreProfile = x, !.ReaderReadAHead = y, !.WarmDiskCacheTTLMin = z]
            IN  AllFields(t) /\ t["EnableDebug"] = s["EnableDebug"]
         /\ LET t == [s EXCEPT !.AdaptiveRAMinMB = x, !.AdaptiveRAMaxMB = y]
            IN  AllFields(t) /\ t["EnableDebug"] = s["EnableDebug"]
<1> DEFINE p == [s EXCEPT !.PreloadCache = x]
           r == [p EXCEPT !.ReaderReadAHead = y]
           w == [r EXCEPT !.WarmDiskCacheTTLMin = z]
           c == [s EXCEPT !.CoreProfile = x]
           d == [c EXCEPT !.ReaderReadAHead = y]
           e == [d EXCEPT !.WarmDiskCacheTTLMin = z]
           m == [s EXCEPT !.AdaptiveRAMinMB = x]
           n == [m EXCEPT !.AdaptiveRAMaxMB = y]
<1>1. /\ w = [s EXCEPT !.PreloadCache = x, !.ReaderReadAHead = y, !.WarmDiskCacheTTLMin = z]
      /\ e = [s EXCEPT !.CoreProfile = x, !.ReaderReadAHead = y, !.WarmDiskCacheTTLMin = z]
      /\ n = [s EXCEPT !.AdaptiveRAMinMB = x, !.AdaptiveRAMaxMB = y]
  OBVIOUS
<1>2. /\ AllFields(p) /\ p["EnableDebug"] = s["EnableDebug"]
      /\ AllFields(c) /\ c["EnableDebug"] = s["EnableDebug"]
      /\ AllFields(m) /\ m["EnableDebug"] = s["EnableDebug"]
  BY FieldKept
<1> HIDE DEF p, c, m
<1>3. /\ AllFields(r) /\ r["EnableDebug"] = p["EnableDebug"]
      /\ AllFields(d) /\ d["EnableDebug"] = c["EnableDebug"]
      /\ AllFields(n) /\ n["EnableDebug"] = m["EnableDebug"]
  BY <1>2, FieldKept
<1> HIDE DEF r, d, n
<1>4. /\ AllFields(w) /\ w["EnableDebug"] = r["EnableDebug"]
      /\ AllFields(e) /\ e["EnableDebug"] = d["EnableDebug"]
  BY <1>3, FieldKept
<1> HIDE DEF w, e
<1> QED BY <1>1, <1>2, <1>3, <1>4

\* No profile says anything about it.
LEMMA ProfilesKeepDebug ==
  ASSUME NEW profile
  PROVE  "EnableDebug" \notin DOMAIN preset(profile)
<1>1. "EnableDebug" \notin DOMAIN balancedProfile
  BY DEF balancedProfile
<1>2. DOMAIN tcpOnlyBalancedProfile = DOMAIN balancedProfile
  BY DEF tcpOnlyBalancedProfile
<1>3. DOMAIN lowCPUProfile = DOMAIN tcpOnlyBalancedProfile
  BY DEF lowCPUProfile
<1>4. \A given, s : DOMAIN over(given, s) = DOMAIN s
  BY DEF over
<1>5. /\ DOMAIN lowEndProfile = DOMAIN balancedProfile
      /\ DOMAIN highThroughputProfile = DOMAIN balancedProfile
      /\ DOMAIN nasProfile = DOMAIN balancedProfile
  BY <1>4 DEF lowEndProfile, highThroughputProfile, nasProfile
<1> QED BY <1>1, <1>2, <1>3, <1>5 DEF preset

\* ApplyCoreProfile leaves it alone.
LEMMA ProfileApplied ==
  ASSUME NEW s, AllFields(s)
  PROVE  AllFields(ApplyCoreProfile(s)) /\ ApplyCoreProfile(s)["EnableDebug"] = s["EnableDebug"]
<1> DEFINE profile == normalizeCoreProfile(s.CoreProfile)
           named == [s EXCEPT !.CoreProfile = profile]
           p == preset(profile)
           applied == applyProfileFields(named, p)
           result == applyCoreProfileOverrides(applied, s)
<1>1. DOMAIN s = FieldNames
  BY DEF AllFields
<1>2. AllFields(named) /\ named["EnableDebug"] = s["EnableDebug"]
  BY <1>1 DEF AllFields
<1>3. AllFields(applied) /\ applied["EnableDebug"] = named["EnableDebug"]
  <2>1. "EnableDebug" \notin DOMAIN p
    BY ProfilesKeepDebug
  <2> HIDE DEF p, named
  <2> QED BY <2>1, DebugIsAField DEF AllFields, applyProfileFields
<1>4. AllFields(result) /\ result["EnableDebug"] = applied["EnableDebug"]
  <2>1. "EnableDebug" \notin OverrideFields
    BY DEF OverrideFields, Numbers, Booleans
  <2> HIDE DEF applied
  <2> QED BY <2>1, DebugIsAField DEF AllFields, applyCoreProfileOverrides
<1>5. ApplyCoreProfile(s) \in {named, result}
  BY Zenon DEF ApplyCoreProfile
<1> HIDE DEF named, result, applied
<1> QED BY <1>2, <1>3, <1>4, <1>5

\* The defaults and the bounds leave it alone.
LEMMA CommonDefaults ==
  ASSUME NEW s, AllFields(s)
  PROVE  AllFields(commonDefaults(s)) /\ commonDefaults(s)["EnableDebug"] = s["EnableDebug"]
<1> DEFINE filled == [f \in FieldNames |->
        CASE f \in NonNegativeFields -> atLeastZero(s[f])
          [] f = "ResponsiveMode" -> TRUE
          [] f = "CacheSize" -> IF s[f] = 0 THEN 64 ELSE s[f]
          [] f = "ConnectionsLimit" -> IF s[f] = 0 THEN 25 ELSE s[f]
          [] f = "TorrentDisconnectTimeout" -> IF s[f] = 0 THEN 30 ELSE s[f]
          [] f = "StreamQueueWaitSec" -> orDefault(s[f], 3)
          [] f = "DiskSyncIntervalMS" -> orDefault(s[f], 1000)
          [] f = "DiskWriteBatchSize" -> orDefault(s[f], 16)
          [] f = "StartupPreloadPolicy" -> NormalizeStartupPreloadPolicy(s[f])
          [] f = "DiskSyncPolicy" -> normalizeDiskSyncPolicy(s[f])
          [] OTHER -> s[f]]
<1>1. "EnableDebug" \notin NonNegativeFields
  BY DEF NonNegativeFields, WorkerFields
<1>2. AllFields(filled) /\ filled["EnableDebug"] = s["EnableDebug"] /\ DOMAIN filled = FieldNames
  BY <1>1, DebugIsAField DEF AllFields
<1>3. commonDefaults(s) = ensureAdaptiveRAMDefaults(filled)
  BY DEF commonDefaults
<1> HIDE DEF filled
<1>4. PICK min, max :
        ensureAdaptiveRAMDefaults(filled) =
          [filled EXCEPT !.AdaptiveRAMinMB = min, !.AdaptiveRAMaxMB = max]
  BY DEF ensureAdaptiveRAMDefaults
<1>5. AllFields(ensureAdaptiveRAMDefaults(filled))
      /\ ensureAdaptiveRAMDefaults(filled)["EnableDebug"] = filled["EnableDebug"]
  <2> DEFINE t == [filled EXCEPT !.AdaptiveRAMinMB = min, !.AdaptiveRAMaxMB = max]
  <2>0. AllFields(filled)
    BY <1>2
  <2>1. AllFields(t)
    BY <2>0, ThreeKept, Zenon
  <2>2. t["EnableDebug"] = filled["EnableDebug"]
    BY <2>0, DebugIsAField DEF AllFields
  <2> QED BY <1>4, <2>1, <2>2, Zenon
<1> QED BY <1>2, <1>3, <1>5

LEMMA SavedDebug ==
  ASSUME NEW s, AllFields(s), NEW n \in normalised(s)
  PROVE  AllFields(n) /\ n["EnableDebug"] = s["EnableDebug"]
<1> DEFINE a == ApplyCoreProfile(s)
           c == commonDefaults(a)
           v == validateAndNormalize(a)
<1>1. AllFields(a) /\ a["EnableDebug"] = s["EnableDebug"]
  BY ProfileApplied
<1> HIDE DEF a
<1>2. AllFields(c) /\ c["EnableDebug"] = a["EnableDebug"]
  BY <1>1, CommonDefaults
<1>3. PICK x, y, z :
        v = [c EXCEPT !.PreloadCache = x, !.ReaderReadAHead = y, !.WarmDiskCacheTTLMin = z]
  BY DEF validateAndNormalize
<1> HIDE DEF c
<1>4. AllFields(v) /\ v["EnableDebug"] = c["EnableDebug"]
  <2> DEFINE t == [c EXCEPT !.PreloadCache = x, !.ReaderReadAHead = y, !.WarmDiskCacheTTLMin = z]
  <2>0. AllFields(c)
    BY <1>2
  <2>1. AllFields(t)
    BY <2>0, ThreeKept, Zenon
  <2>2. t["EnableDebug"] = c["EnableDebug"]
    BY <2>0, DebugIsAField DEF AllFields
  <2> QED BY <1>3, <2>1, <2>2, Zenon
<1>5. \/ \E p : n = [v EXCEPT !.TorrentsSavePath = p]
      \/ \E d : n = [v EXCEPT !.UseDisk = d]
  BY DEF normalised, a
<1> HIDE DEF v
<1>6. AllFields(n) /\ n["EnableDebug"] = v["EnableDebug"]
  <2>1. CASE \E p : n = [v EXCEPT !.TorrentsSavePath = p]
    BY <1>4, <2>1 DEF AllFields
  <2>2. CASE \E d : n = [v EXCEPT !.UseDisk = d]
    BY <1>4, <2>2 DEF AllFields
  <2> QED BY <1>5, <2>1, <2>2
<1> QED BY <1>1, <1>2, <1>4, <1>6

LEMMA LoadedFields ==
  ASSUME NEW s, AllFields(s)
  PROVE  AllFields(ensureDefaults(s))
<1> DEFINE c == commonDefaults(s)
<1>1. AllFields(c)
  BY CommonDefaults
<1>2. PICK x, y, z :
        ensureDefaults(s) =
          [c EXCEPT !.CoreProfile = x, !.ReaderReadAHead = y, !.WarmDiskCacheTTLMin = z]
  BY DEF ensureDefaults
<1> HIDE DEF c
<1> DEFINE t == [c EXCEPT !.CoreProfile = x, !.ReaderReadAHead = y, !.WarmDiskCacheTTLMin = z]
<1>3. AllFields(t)
  BY <1>1, ThreeKept, Zenon
<1> QED BY <1>2, <1>3, Zenon

LEMMA DefaultDebugOff ==
  AllFields(SetDefaultConfig) /\ SetDefaultConfig["EnableDebug"] = FALSE
<1> DEFINE b == over(balancedProfile, ZeroSets)
<1>1. AllFields(ZeroSets) /\ ZeroSets["EnableDebug"] = FALSE
  BY DebugIsAField DEF ZeroSets, AllFields
<1>2. "EnableDebug" \notin DOMAIN balancedProfile
  BY DEF balancedProfile
<1>3. AllFields(b) /\ b["EnableDebug"] = FALSE
  BY <1>1, <1>2, DebugIsAField DEF over, AllFields
<1> HIDE DEF b
<1> DEFINE given == [ReaderReadAHead |-> 95, TorrentDisconnectTimeout |-> 30, ResponsiveMode |-> TRUE,
                     CoreProfile |-> "custom", StartupPreloadPolicy |-> "skip-active"]
<1>4. "EnableDebug" \notin DOMAIN given
  OBVIOUS
<1>5. SetDefaultConfig = over(given, b)
  BY DEF SetDefaultConfig, b
<1> HIDE DEF given
<1> QED BY <1>3, <1>4, <1>5, DebugIsAField DEF over, AllFields

\* A start takes it from the configuration, whatever was saved.
LEMMA ConfigDecides ==
  ASSUME NEW file, NEW s, AllFields(s)
  PROVE  LET cfg == applyDefaults(file) IN
         /\ AllFields(ApplyToBTSets(cfg, s))
         /\ ApplyToBTSets(cfg, s)["EnableDebug"] = cfg["EnableDebug"]
<1> DEFINE cfg == applyDefaults(file)
           o == over(cfg, s)
<1>1. DOMAIN cfg = ConfigFields
  BY DEF applyDefaults
<1> HIDE DEF cfg
<1>2. AllFields(o) /\ o["EnableDebug"] = cfg["EnableDebug"]
  BY <1>1, DebugIsAField DEF over, AllFields
<1> HIDE DEF o
<1>3. ApplyToBTSets(cfg, s) = ApplyCoreProfile(o)
  BY DEF ApplyToBTSets, o
<1> QED BY <1>2, <1>3, ProfileApplied DEF cfg

LEMMA DebugStart ==
  ASSUME DebugInv, NEW file, StartServer(file)
  PROVE  DebugInv'
<1> DEFINE cfg == applyDefaults(file)
           saved == IF savedSets = NotSaved THEN SetDefaultConfig ELSE savedSets
           loaded == IF savedSets = NotSaved THEN SetDefaultConfig ELSE ensureDefaults(savedSets)
<1>1. AllFields(saved) /\ AllFields(loaded)
  BY DefaultDebugOff, LoadedFields DEF DebugInv
<1>2. /\ processUp' = TRUE /\ cfgDebug' = cfg.EnableDebug /\ request' = request /\ ~processUp
      /\ \/ savedSets' = saved /\ current' = ApplyToBTSets(cfg, loaded)
         \/ savedSets' \in normalised(loaded) /\ current' = ApplyToBTSets(cfg, savedSets')
  BY DEF StartServer
<1> HIDE DEF saved, loaded
<1>3. AllFields(savedSets')
  BY <1>1, <1>2, SavedDebug
<1>4. PICK s : AllFields(s) /\ current' = ApplyToBTSets(cfg, s)
  BY <1>1, <1>2, <1>3
<1>5. AllFields(current') /\ current'["EnableDebug"] = cfg["EnableDebug"]
  BY <1>4, ConfigDecides
<1>6. current'["EnableDebug"] = cfgDebug'
  BY <1>2, <1>5
<1>7. DOMAIN request' = SettingsClients /\ \A c \in SettingsClients : ~request'[c].busy
  BY <1>2 DEF DebugInv, NoRequest
<1> QED BY <1>2, <1>3, <1>5, <1>6, <1>7 DEF DebugInv, AllFields

LEMMA DebugRead ==
  ASSUME DebugInv, NEW c \in SettingsClients, NEW patch, ReadCurrent(c, patch)
  PROVE  DebugInv'
<1> DEFINE read == mapSettingsFromBTSets(current)
           r == [busy |-> TRUE, patch |-> patch, read |-> read]
<1>1. /\ processUp /\ request' = [request EXCEPT ![c] = r]
      /\ UNCHANGED <<processUp, cfgDebug, current, savedSets>>
  BY DEF ReadCurrent
<1>2. /\ DOMAIN read = FieldNames \ {"DebugMaxUnverifiedBytesMB"}
      /\ read["EnableDebug"] = current["EnableDebug"]
  BY DebugIsAField DEF mapSettingsFromBTSets
<1>3. current["EnableDebug"] \in {FALSE, cfgDebug}
  BY <1>1 DEF DebugInv
<1> HIDE DEF read
<1>4. r.read = read
  OBVIOUS
<1>5. ReadDebug(read, cfgDebug)
  BY <1>2, <1>3 DEF ReadDebug
<1> HIDE DEF r
<1>6. \A d \in SettingsClients : request'[d].busy => ReadDebug(request'[d].read, cfgDebug')
  <2> SUFFICES ASSUME NEW d \in SettingsClients, request'[d].busy
               PROVE  ReadDebug(request'[d].read, cfgDebug')
    OBVIOUS
  <2>1. CASE d = c
    BY <1>1, <1>4, <1>5, <2>1 DEF DebugInv
  <2>2. CASE d # c
    BY <1>1, <2>2 DEF DebugInv
  <2> QED BY <2>1, <2>2
<1>7. DOMAIN request' = SettingsClients
  BY <1>1 DEF DebugInv
<1> QED BY <1>1, <1>6, <1>7 DEF DebugInv, AllFields

LEMMA DebugSet ==
  ASSUME DebugInv, NEW c \in SettingsClients, SetCurrent(c)
  PROVE  DebugInv'
<1> DEFINE r == request[c]
           patched == mergeSettingsPatch(r.read, r.patch)
           merged == [patched EXCEPT !.EnableDebug = r.read.EnableDebug]
<1>1. /\ processUp /\ r.busy /\ request' = [request EXCEPT ![c] = NoRequest]
      /\ current' = mapSettingsToBTSets(mergedRequest(r))
      /\ UNCHANGED <<processUp, cfgDebug, savedSets>>
  BY DEF SetCurrent
<1>2. /\ DOMAIN r.read = FieldNames \ {"DebugMaxUnverifiedBytesMB"}
      /\ r.read["EnableDebug"] \in {FALSE, cfgDebug}
  BY <1>1 DEF DebugInv, ReadDebug
<1>3. DOMAIN patched = FieldNames \ {"DebugMaxUnverifiedBytesMB"}
  BY <1>2 DEF mergeSettingsPatch, over
<1> HIDE DEF patched
<1>4. DOMAIN merged = DOMAIN patched /\ merged["EnableDebug"] = r.read["EnableDebug"]
  BY <1>3, DebugIsAField
<1>5. mergedRequest(r) = merged
  BY DEF mergedRequest, patched
<1> HIDE DEF merged, r
<1>6. current' = [f \in FieldNames |-> IF f \in DOMAIN merged THEN merged[f] ELSE zero(f)]
  <2>1. current' = over(merged, ZeroSets)
    BY <1>1, <1>5 DEF mapSettingsToBTSets
  <2>2. DOMAIN ZeroSets = FieldNames /\ \A f \in FieldNames : ZeroSets[f] = zero(f)
    BY DEF ZeroSets
  <2> QED BY <2>1, <2>2 DEF over
<1>7. AllFields(current)' /\ current'["EnableDebug"] = merged["EnableDebug"]
  BY <1>3, <1>4, <1>6, DebugIsAField DEF AllFields
<1>8. DOMAIN request' = SettingsClients
  BY <1>1 DEF DebugInv
<1>9. \A d \in SettingsClients : request'[d].busy => ReadDebug(request'[d].read, cfgDebug')
  BY <1>1 DEF DebugInv, ReadDebug, NoRequest
<1> QED BY <1>1, <1>2, <1>4, <1>7, <1>8, <1>9 DEF DebugInv, AllFields

LEMMA DebugStep ==
  ASSUME DebugInv, [SettingsNext]_settingsVars
  PROVE  DebugInv'
<1>1. CASE \E file \in ConfigFiles : StartServer(file)
  BY <1>1, DebugStart
<1>2. CASE \E c \in SettingsClients : SetCurrent(c) \/ \E patch \in Patches : ReadCurrent(c, patch)
  BY <1>2, DebugRead, DebugSet
<1>3. CASE SetDefault
  <2>1. /\ current' = SetDefaultConfig /\ savedSets' = SetDefaultConfig
        /\ UNCHANGED <<processUp, cfgDebug, request>>
    BY <1>3 DEF SetDefault
  <2> QED BY <2>1, DefaultDebugOff DEF DebugInv, AllFields, ReadDebug
<1>4. CASE SavePreferences
  <2>1. /\ processUp /\ current' \in normalised(current) /\ savedSets' = current'
        /\ UNCHANGED <<processUp, cfgDebug, request>>
    BY <1>4 DEF SavePreferences
  <2>2. AllFields(current') /\ current'["EnableDebug"] = current["EnableDebug"]
    BY <2>1, SavedDebug DEF DebugInv
  <2> QED BY <2>1, <2>2 DEF DebugInv, AllFields, ReadDebug
<1>5. CASE EndServer
  <2>1. /\ processUp' = FALSE /\ request' = [c \in SettingsClients |-> NoRequest]
        /\ UNCHANGED <<cfgDebug, current, savedSets>>
    BY <1>5 DEF EndServer
  <2>2. \A c \in SettingsClients : ~request'[c].busy
    BY <2>1 DEF NoRequest
  <2> QED BY <2>1, <2>2 DEF DebugInv, AllFields
<1>6. CASE UNCHANGED settingsVars
  BY <1>6 DEF settingsVars, DebugInv, AllFields, ReadDebug
<1> QED BY <1>1, <1>2, <1>3, <1>4, <1>5, <1>6 DEF SettingsNext

\* Debug mode is on only in a process whose configuration says so, for any number of
\* clients that read, patch and replace the settings in any order, any patches, any
\* configurations and any number of restarts (mergeSettingsPatch, ApplyToBTSets).
THEOREM DebugIsConfigured == SettingsSpec => []DebugOnlyFromConfig
<1>1. SettingsInit => DebugInv
  <2> SUFFICES ASSUME SettingsInit PROVE DebugInv
    OBVIOUS
  <2>1. /\ processUp = FALSE /\ current = ZeroSets /\ savedSets = NotSaved
        /\ request = [c \in SettingsClients |-> NoRequest]
    BY DEF SettingsInit
  <2>2. AllFields(current)
    BY <2>1 DEF ZeroSets, AllFields
  <2>3. \A c \in SettingsClients : ~request[c].busy
    BY <2>1 DEF NoRequest
  <2> QED BY <2>1, <2>2, <2>3 DEF DebugInv
<1>2. DebugInv /\ [SettingsNext]_settingsVars => DebugInv'
  BY DebugStep
<1>3. DebugInv => DebugOnlyFromConfig
  BY DEF DebugInv, DebugOnlyFromConfig
<1> QED BY <1>1, <1>2, <1>3, PTL DEF SettingsSpec

-----------------------------------------------------------------------------
(* Settings values: what is saved is at rest.  Except for the two bounds of  *)
(* the readahead every field is normalised by itself.                        *)

\* Settings whose values have their fields' types.
Typed(s) == AllFields(s) /\ \A f \in FieldNames : hasFieldType(f, s[f])

\* The two fields that are normalised together.
Bounds == {"AdaptiveRAMinMB", "AdaptiveRAMaxMB"}

\* (Named, so that a CASE does not mix TRUE with other values.)
On == TRUE

\* What commonDefaults makes of the value x of field f.
common(f, x) ==
  CASE f \in NonNegativeFields -> atLeastZero(x)
    [] f = "ResponsiveMode" -> On
    [] f = "CacheSize" -> IF x = 0 THEN 64 ELSE x
    [] f = "ConnectionsLimit" -> IF x = 0 THEN 25 ELSE x
    [] f = "TorrentDisconnectTimeout" -> IF x = 0 THEN 30 ELSE x
    [] f = "StreamQueueWaitSec" -> orDefault(x, 3)
    [] f = "DiskSyncIntervalMS" -> orDefault(x, 1000)
    [] f = "DiskWriteBatchSize" -> orDefault(x, 16)
    [] f = "StartupPreloadPolicy" -> NormalizeStartupPreloadPolicy(x)
    [] f = "DiskSyncPolicy" -> normalizeDiskSyncPolicy(x)
    [] OTHER -> x

\* And what validateAndNormalize makes of it.
norm(f, x) ==
  CASE f = "PreloadCache" -> clamp(IF x = 0 THEN 50 ELSE x, 0, 100)
    [] f = "ReaderReadAHead" -> clamp(x, 5, 100)
    [] f = "WarmDiskCacheTTLMin" -> atLeastZero(x)
    [] OTHER -> common(f, x)

\* The bounds with their defaults (ensureAdaptiveRAMDefaults).
lowBound(s) == orDefault(s["AdaptiveRAMinMB"], 4)
highBound(s) == orDefault(s["AdaptiveRAMaxMB"], 64)

\* All fields, by name.
LEMMA FieldsAre ==
  FieldNames = {"CacheSize", "PreloadCache", "UseDisk", "TorrentsSavePath",
    "TorrentDisconnectTimeout", "ConnectionsLimit", "DisableUTP", "CoreProfile",
    "MaxConcurrentStreams", "StreamQueueSize", "StreamQueueWaitSec", "MaxUniquePlaybackTorrents",
    "StartupPreloadPolicy", "AdaptiveRAMinMB", "AdaptiveRAMaxMB", "ReaderReadAHead",
    "WarmDiskCacheSizeMB", "WarmDiskCacheTTLMin", "DiskSyncPolicy", "DiskSyncIntervalMS",
    "DiskWriteBatchSize", "MetadataWorkers", "MetadataQueueSize", "PreloadWorkers",
    "PreloadQueueSize", "EnableDebug", "DebugMaxUnverifiedBytesMB", "ResponsiveMode"}
BY DEF FieldNames, ConfigFields, CacheFields, TorrentFields, NetworkFields, StreamFields,
       DiskCacheFields, WorkerFields, DebugFields

\* common and norm, field by field.
LEMMA NormCases ==
  ASSUME NEW f, NEW x
  PROVE  /\ f \in NonNegativeFields => norm(f, x) = atLeastZero(x) /\ common(f, x) = atLeastZero(x)
         /\ f = "ResponsiveMode" => norm(f, x) = On /\ common(f, x) = On
         /\ f = "CacheSize" => norm(f, x) = common(f, x) /\ common(f, x) = IF x = 0 THEN 64 ELSE x
         /\ f = "ConnectionsLimit" => norm(f, x) = common(f, x) /\ common(f, x) = IF x = 0 THEN 25 ELSE x
         /\ f = "TorrentDisconnectTimeout" => norm(f, x) = common(f, x) /\ common(f, x) = IF x = 0 THEN 30 ELSE x
         /\ f = "StreamQueueWaitSec" => norm(f, x) = common(f, x) /\ common(f, x) = orDefault(x, 3)
         /\ f = "DiskSyncIntervalMS" => norm(f, x) = common(f, x) /\ common(f, x) = orDefault(x, 1000)
         /\ f = "DiskWriteBatchSize" => norm(f, x) = common(f, x) /\ common(f, x) = orDefault(x, 16)
         /\ f = "StartupPreloadPolicy" => norm(f, x) = common(f, x) /\ common(f, x) = NormalizeStartupPreloadPolicy(x)
         /\ f = "DiskSyncPolicy" => norm(f, x) = common(f, x) /\ common(f, x) = normalizeDiskSyncPolicy(x)
         /\ f = "PreloadCache" => norm(f, x) = clamp(IF x = 0 THEN 50 ELSE x, 0, 100) /\ common(f, x) = x
         /\ f = "ReaderReadAHead" => norm(f, x) = clamp(x, 5, 100) /\ common(f, x) = x
         /\ f = "WarmDiskCacheTTLMin" => norm(f, x) = atLeastZero(x) /\ common(f, x) = x
         /\ f \in {"UseDisk", "TorrentsSavePath", "DisableUTP", "CoreProfile", "EnableDebug",
                   "DebugMaxUnverifiedBytesMB", "AdaptiveRAMinMB", "AdaptiveRAMaxMB"} =>
              norm(f, x) = x /\ common(f, x) = x
<1> USE DEF norm, common, NonNegativeFields, WorkerFields
<1>1. f \in NonNegativeFields => norm(f, x) = atLeastZero(x) /\ common(f, x) = atLeastZero(x)
  OBVIOUS
<1>2. f = "ResponsiveMode" => norm(f, x) = On /\ common(f, x) = On
  OBVIOUS
<1>3. f = "CacheSize" => norm(f, x) = common(f, x) /\ common(f, x) = IF x = 0 THEN 64 ELSE x
  OBVIOUS
<1>4. f = "ConnectionsLimit" => norm(f, x) = common(f, x) /\ common(f, x) = IF x = 0 THEN 25 ELSE x
  OBVIOUS
<1>5. f = "TorrentDisconnectTimeout" => norm(f, x) = common(f, x) /\ common(f, x) = IF x = 0 THEN 30 ELSE x
  OBVIOUS
<1>6. /\ f = "StreamQueueWaitSec" => norm(f, x) = common(f, x) /\ common(f, x) = orDefault(x, 3)
      /\ f = "DiskSyncIntervalMS" => norm(f, x) = common(f, x) /\ common(f, x) = orDefault(x, 1000)
      /\ f = "DiskWriteBatchSize" => norm(f, x) = common(f, x) /\ common(f, x) = orDefault(x, 16)
  OBVIOUS
<1>7. /\ f = "StartupPreloadPolicy" => norm(f, x) = common(f, x) /\ common(f, x) = NormalizeStartupPreloadPolicy(x)
      /\ f = "DiskSyncPolicy" => norm(f, x) = common(f, x) /\ common(f, x) = normalizeDiskSyncPolicy(x)
  OBVIOUS
<1>8. /\ f = "PreloadCache" => norm(f, x) = clamp(IF x = 0 THEN 50 ELSE x, 0, 100) /\ common(f, x) = x
      /\ f = "ReaderReadAHead" => norm(f, x) = clamp(x, 5, 100) /\ common(f, x) = x
      /\ f = "WarmDiskCacheTTLMin" => norm(f, x) = atLeastZero(x) /\ common(f, x) = x
  OBVIOUS
<1>9. f \in {"UseDisk", "TorrentsSavePath", "DisableUTP", "CoreProfile", "EnableDebug",
             "DebugMaxUnverifiedBytesMB", "AdaptiveRAMinMB", "AdaptiveRAMaxMB"} =>
        norm(f, x) = x /\ common(f, x) = x
  OBVIOUS
<1> QED BY <1>1, <1>2, <1>3, <1>4, <1>5, <1>6, <1>7, <1>8, <1>9

\* What commonDefaults makes of every field, and of the two bounds.
LEMMA CommonFields ==
  ASSUME NEW s, AllFields(s)
  PROVE  LET c == commonDefaults(s)
         IN  /\ AllFields(c)
             /\ \A f \in FieldNames \ Bounds : c[f] = common(f, s[f])
             /\ c["AdaptiveRAMinMB"] = (IF lowBound(s) > highBound(s) THEN highBound(s) ELSE lowBound(s))
             /\ c["AdaptiveRAMaxMB"] = highBound(s)
<1> DEFINE filled == [f \in FieldNames |-> common(f, s[f])]
           x == IF lowBound(s) > highBound(s) THEN highBound(s) ELSE lowBound(s)
           y == highBound(s)
<1>1. commonDefaults(s) = ensureAdaptiveRAMDefaults(filled)
  BY Zenon DEF commonDefaults, common, On
<1>2. "AdaptiveRAMinMB" \in FieldNames /\ "AdaptiveRAMaxMB" \in FieldNames
  BY FieldsAre
<1>3. filled["AdaptiveRAMinMB"] = s["AdaptiveRAMinMB"] /\ filled["AdaptiveRAMaxMB"] = s["AdaptiveRAMaxMB"]
  <2>1. common("AdaptiveRAMinMB", s["AdaptiveRAMinMB"]) = s["AdaptiveRAMinMB"]
        /\ common("AdaptiveRAMaxMB", s["AdaptiveRAMaxMB"]) = s["AdaptiveRAMaxMB"]
    BY DEF common, NonNegativeFields, WorkerFields
  <2> QED BY <1>2, <2>1
<1>4. DOMAIN filled = FieldNames /\ \A f \in FieldNames : filled[f] = common(f, s[f])
  OBVIOUS
<1> HIDE DEF filled
<1>5. ensureAdaptiveRAMDefaults(filled) = [filled EXCEPT !.AdaptiveRAMinMB = x, !.AdaptiveRAMaxMB = y]
  BY <1>3 DEF ensureAdaptiveRAMDefaults, lowBound, highBound
<1> HIDE DEF x, y
<1> DEFINE c == [filled EXCEPT !.AdaptiveRAMinMB = x, !.AdaptiveRAMaxMB = y]
<1>6. DOMAIN c = FieldNames /\ c = [f \in FieldNames |-> c[f]]
  <2>1. c = [f \in DOMAIN filled |-> c[f]]
    OBVIOUS
  <2> QED BY <1>4, <2>1
<1>7. \A f \in FieldNames \ Bounds : c[f] = common(f, s[f])
  BY <1>4 DEF Bounds
<1>8. c["AdaptiveRAMinMB"] = x /\ c["AdaptiveRAMaxMB"] = y
  BY <1>2, <1>4
<1>9. commonDefaults(s) = c
  BY <1>1, <1>5
<1> HIDE DEF c
<1> QED BY <1>6, <1>7, <1>8, <1>9 DEF AllFields, x, y

\* And validateAndNormalize.
LEMMA NormFields ==
  ASSUME NEW s, AllFields(s)
  PROVE  LET n == validateAndNormalize(s)
         IN  /\ AllFields(n)
             /\ \A f \in FieldNames \ Bounds : n[f] = norm(f, s[f])
             /\ n["AdaptiveRAMinMB"] = (IF lowBound(s) > highBound(s) THEN highBound(s) ELSE lowBound(s))
             /\ n["AdaptiveRAMaxMB"] = highBound(s)
<1> DEFINE c == commonDefaults(s)
           p == clamp(IF c["PreloadCache"] = 0 THEN 50 ELSE c["PreloadCache"], 0, 100)
           r == clamp(c["ReaderReadAHead"], 5, 100)
           w == atLeastZero(c["WarmDiskCacheTTLMin"])
           n == [c EXCEPT !.PreloadCache = p, !.ReaderReadAHead = r, !.WarmDiskCacheTTLMin = w]
<1>1. validateAndNormalize(s) = n
  BY DEF validateAndNormalize
<1>2. /\ AllFields(c)
      /\ \A f \in FieldNames \ Bounds : c[f] = common(f, s[f])
      /\ c["AdaptiveRAMinMB"] = (IF lowBound(s) > highBound(s) THEN highBound(s) ELSE lowBound(s))
      /\ c["AdaptiveRAMaxMB"] = highBound(s)
  BY CommonFields
<1>3. \A f \in {"PreloadCache", "ReaderReadAHead", "WarmDiskCacheTTLMin"} :
        f \in FieldNames \ Bounds /\ common(f, s[f]) = s[f]
  BY FieldsAre, NormCases DEF Bounds
<1>4. DOMAIN c = FieldNames
  BY <1>2 DEF AllFields
<1> HIDE DEF c
<1>5. /\ p = norm("PreloadCache", s["PreloadCache"]) /\ r = norm("ReaderReadAHead", s["ReaderReadAHead"])
      /\ w = norm("WarmDiskCacheTTLMin", s["WarmDiskCacheTTLMin"])
  BY <1>2, <1>3 DEF norm
<1> HIDE DEF p, r, w
<1>6. n = [f \in FieldNames |-> n[f]]
  <2>1. n = [f \in DOMAIN c |-> n[f]]
    OBVIOUS
  <2> QED BY <1>4, <2>1
<1>7. ASSUME NEW f \in FieldNames \ Bounds PROVE n[f] = norm(f, s[f])
  <2>1. CASE f \in {"PreloadCache", "ReaderReadAHead", "WarmDiskCacheTTLMin"}
    BY <1>4, <1>5, <2>1
  <2>2. CASE f \notin {"PreloadCache", "ReaderReadAHead", "WarmDiskCacheTTLMin"}
    <3>1. n[f] = c[f]
      BY <1>4, <2>2
    <3>2. norm(f, s[f]) = common(f, s[f])
      BY <2>2 DEF norm
    <3> QED BY <1>2, <3>1, <3>2
  <2> QED BY <2>1, <2>2
<1>8. n["AdaptiveRAMinMB"] = c["AdaptiveRAMinMB"] /\ n["AdaptiveRAMaxMB"] = c["AdaptiveRAMaxMB"]
  BY <1>4, FieldsAre
<1> HIDE DEF n
<1> QED BY <1>1, <1>2, <1>6, <1>7, <1>8 DEF AllFields

\* ToLower: to apply it again changes nothing, and it keeps what is in lower case.
LEMMA LowerTwice == \A str : lower(lower(str)) = lower(str)
BY SettingsValuesAssumption DEF lower

LEMMA LowerKeeps ==
  ASSUME NEW str \in {"custom", "periodic", "legacy", "skip-active"}
  PROVE  lower(str) = str
BY SettingsValuesAssumption DEF lower

\* A policy or profile that is normalised is normal.
LEMMA PoliciesRest ==
  ASSUME NEW str
  PROVE  /\ NormalizeStartupPreloadPolicy(NormalizeStartupPreloadPolicy(str)) = NormalizeStartupPreloadPolicy(str)
         /\ normalizeDiskSyncPolicy(str) # ""
         /\ normalizeDiskSyncPolicy(normalizeDiskSyncPolicy(str)) = normalizeDiskSyncPolicy(str)
         /\ normalizeCoreProfile(str) \in Profiles \cup {"custom"}
         /\ normalizeCoreProfile(normalizeCoreProfile(str)) = normalizeCoreProfile(str)
<1>1. lower(lower(str)) = lower(str)
  BY LowerTwice
<1>2. lower("legacy") = "legacy" /\ lower("skip-active") = "skip-active"
      /\ lower("periodic") = "periodic" /\ lower("custom") = "custom"
  BY LowerKeeps
<1>3. "custom" \notin Profiles
  BY DEF Profiles
<1>4. NormalizeStartupPreloadPolicy(str) \in {"legacy", "skip-active"}
  BY DEF NormalizeStartupPreloadPolicy
<1>5. NormalizeStartupPreloadPolicy("legacy") = "legacy" /\ NormalizeStartupPreloadPolicy("skip-active") = "skip-active"
  BY <1>2 DEF NormalizeStartupPreloadPolicy
<1>6. normalizeDiskSyncPolicy(str) \in {"none", "periodic", "always"} /\ normalizeDiskSyncPolicy(str) \in {lower(str), "periodic"}
  BY DEF normalizeDiskSyncPolicy
<1>7. lower(normalizeDiskSyncPolicy(str)) = normalizeDiskSyncPolicy(str)
  BY <1>1, <1>2, <1>6
<1>8. normalizeDiskSyncPolicy(normalizeDiskSyncPolicy(str)) = normalizeDiskSyncPolicy(str)
  <2> DEFINE d == normalizeDiskSyncPolicy(str)
  <2> HIDE DEF d
  <2>1. lower(d) = d /\ d \in {"none", "periodic", "always"}
    BY <1>6, <1>7 DEF d
  <2>2. normalizeDiskSyncPolicy(d) = d
    BY <2>1 DEF normalizeDiskSyncPolicy
  <2> QED BY <2>2 DEF d
<1>9. normalizeCoreProfile(str) \in Profiles \cup {"custom"} /\ normalizeCoreProfile(str) \in {lower(str), "custom"}
  BY DEF normalizeCoreProfile
<1>10. lower(normalizeCoreProfile(str)) = normalizeCoreProfile(str)
  BY <1>1, <1>2, <1>9
<1>11. normalizeCoreProfile(normalizeCoreProfile(str)) = normalizeCoreProfile(str)
  <2> DEFINE d == normalizeCoreProfile(str)
  <2> HIDE DEF d
  <2>1. lower(d) = d /\ d \in Profiles \cup {"custom"}
    BY <1>9, <1>10 DEF d
  <2>2. normalizeCoreProfile(d) = d
    BY <1>3, <2>1 DEF normalizeCoreProfile
  <2> QED BY <2>2 DEF d
<1>12. normalizeDiskSyncPolicy(str) # ""
  BY <1>6
<1>13. NormalizeStartupPreloadPolicy(NormalizeStartupPreloadPolicy(str)) = NormalizeStartupPreloadPolicy(str)
  BY <1>4, <1>5
<1> QED BY <1>8, <1>9, <1>11, <1>12, <1>13

\* A value of its field's type keeps it, to normalise again changes nothing, and what is
\* positive stays so.
LEMMA NormRests ==
  ASSUME NEW f \in FieldNames \ Bounds, NEW x, hasFieldType(f, x)
  PROVE  /\ hasFieldType(f, norm(f, x)) /\ hasFieldType(f, common(f, x))
         /\ f # "PreloadCache" => norm(f, norm(f, x)) = norm(f, x)
         /\ f \in Numbers /\ x > 0 => norm(f, x) > 0
         /\ f \in NonNegativeFields => norm(f, x) >= 0 /\ (x = 0 => norm(f, x) = 0)
<1> DEFINE y == norm(f, x)
<1>1. CASE f \in NonNegativeFields
  <2>1. x \in Int /\ f \notin Booleans /\ f # "PreloadCache"
    BY <1>1, FieldsAre DEF hasFieldType, Numbers, Booleans, Strings, NonNegativeFields, WorkerFields
  <2>2. y = atLeastZero(x) /\ norm(f, y) = atLeastZero(y) /\ common(f, x) = atLeastZero(x)
    BY <1>1, NormCases
  <2> HIDE DEF y, hasFieldType
  <2> QED BY <2>1, <2>2 DEF atLeastZero, y, hasFieldType
<1>2. CASE f \in {"CacheSize", "ConnectionsLimit", "TorrentDisconnectTimeout"}
  <2>1. x \in Int /\ f \notin Booleans /\ f \notin NonNegativeFields
    BY <1>2, FieldsAre DEF hasFieldType, Numbers, Booleans, Strings, NonNegativeFields, WorkerFields
  <2>2. PICK d \in {64, 25, 30} : \A z : norm(f, z) = (IF z = 0 THEN d ELSE z) /\ common(f, z) = norm(f, z)
    <3>1. CASE f = "CacheSize"
      <4>1. \A z : norm(f, z) = (IF z = 0 THEN 64 ELSE z) /\ common(f, z) = norm(f, z)
        BY <3>1, NormCases
      <4> QED BY <4>1
    <3>2. CASE f = "ConnectionsLimit"
      <4>1. \A z : norm(f, z) = (IF z = 0 THEN 25 ELSE z) /\ common(f, z) = norm(f, z)
        BY <3>2, NormCases
      <4> QED BY <4>1
    <3>3. CASE f = "TorrentDisconnectTimeout"
      <4>1. \A z : norm(f, z) = (IF z = 0 THEN 30 ELSE z) /\ common(f, z) = norm(f, z)
        BY <3>3, NormCases
      <4> QED BY <4>1
    <3> QED BY <1>2, <3>1, <3>2, <3>3
  <2>3. y = (IF x = 0 THEN d ELSE x) /\ norm(f, y) = (IF y = 0 THEN d ELSE y) /\ common(f, x) = y
    BY <2>2
  <2> HIDE DEF y, hasFieldType
  <2>4. y \in Int /\ norm(f, y) = y /\ (x > 0 => y > 0)
    BY <2>1, <2>3
  <2>5. f # "PreloadCache"
    BY <1>2
  <2> QED BY <2>1, <2>3, <2>4, <2>5 DEF y, hasFieldType
<1>3. CASE f \in {"StreamQueueWaitSec", "DiskSyncIntervalMS", "DiskWriteBatchSize"}
  <2>1. x \in Int /\ f \notin Booleans /\ f \notin NonNegativeFields
    BY <1>3, FieldsAre DEF hasFieldType, Numbers, Booleans, Strings, NonNegativeFields, WorkerFields
  <2>2. \E d \in {3, 1000, 16} : y = orDefault(x, d) /\ norm(f, y) = orDefault(y, d) /\ common(f, x) = y
    BY <1>3, NormCases
  <2> HIDE DEF y, hasFieldType
  <2> QED BY <2>1, <2>2 DEF y, hasFieldType, orDefault
<1>4. CASE f \in {"PreloadCache", "ReaderReadAHead", "WarmDiskCacheTTLMin"}
  <2>1. x \in Int /\ f \notin Booleans /\ f \notin NonNegativeFields /\ common(f, x) = x
    BY <1>4, FieldsAre, NormCases DEF hasFieldType, Numbers, Booleans, Strings, NonNegativeFields, WorkerFields
  <2>2. f = "PreloadCache" => y = clamp(IF x = 0 THEN 50 ELSE x, 0, 100)
    BY NormCases
  <2>3. f = "ReaderReadAHead" => y = clamp(x, 5, 100) /\ norm(f, y) = clamp(y, 5, 100)
    BY NormCases
  <2>4. f = "WarmDiskCacheTTLMin" => y = atLeastZero(x) /\ norm(f, y) = atLeastZero(y)
    BY NormCases
  <2> HIDE DEF y, hasFieldType
  <2>5. CASE f = "PreloadCache"
    BY <2>1, <2>2, <2>5 DEF y, hasFieldType, clamp
  <2>6. CASE f = "ReaderReadAHead"
    BY <2>1, <2>3, <2>6 DEF y, hasFieldType, clamp
  <2>7. CASE f = "WarmDiskCacheTTLMin"
    BY <2>1, <2>4, <2>7 DEF y, hasFieldType, atLeastZero
  <2> QED BY <1>4, <2>5, <2>6, <2>7
<1>5. CASE f \in {"StartupPreloadPolicy", "DiskSyncPolicy"}
  <2>1. f \notin Booleans /\ f \notin NonNegativeFields /\ f \notin Numbers
    BY <1>5 DEF Booleans, Strings, NonNegativeFields, WorkerFields, Numbers
  <2>2. CASE f = "StartupPreloadPolicy"
    <3>1. y = NormalizeStartupPreloadPolicy(x) /\ norm(f, y) = NormalizeStartupPreloadPolicy(y)
          /\ common(f, x) = y
      BY <2>2, NormCases
    <3> QED BY <2>1, <2>2, <3>1, PoliciesRest DEF hasFieldType
  <2>3. CASE f = "DiskSyncPolicy"
    <3>1. y = normalizeDiskSyncPolicy(x) /\ norm(f, y) = normalizeDiskSyncPolicy(y) /\ common(f, x) = y
      BY <2>3, NormCases
    <3> QED BY <2>1, <2>3, <3>1, PoliciesRest DEF hasFieldType
  <2> QED BY <1>5, <2>2, <2>3
<1>6. CASE f = "ResponsiveMode"
  <2>1. f \notin NonNegativeFields /\ f \notin Numbers
    BY <1>6 DEF Booleans, NonNegativeFields, WorkerFields, Numbers
  <2>2. y = On /\ norm(f, y) = On /\ common(f, x) = On
    BY <1>6, NormCases
  <2>3. On \in BOOLEAN
    BY DEF On
  <2> QED BY <1>6, <2>1, <2>2, <2>3 DEF hasFieldType
<1>7. CASE f \in {"UseDisk", "TorrentsSavePath", "DisableUTP", "CoreProfile", "EnableDebug",
                  "DebugMaxUnverifiedBytesMB"}
  <2>1. y = x /\ norm(f, y) = y /\ common(f, x) = x /\ f \notin NonNegativeFields
    BY <1>7, NormCases DEF NonNegativeFields, WorkerFields
  <2> QED BY <2>1
<1> QED BY <1>1, <1>2, <1>3, <1>4, <1>5, <1>6, <1>7, FieldsAre DEF NonNegativeFields, WorkerFields, Bounds

\* The fields a preset has.
PresetNames ==
  {"CacheSize", "PreloadCache", "ConnectionsLimit", "DisableUTP", "MaxConcurrentStreams",
   "StreamQueueSize", "StreamQueueWaitSec", "MaxUniquePlaybackTorrents", "AdaptiveRAMinMB",
   "AdaptiveRAMaxMB", "WarmDiskCacheSizeMB", "WarmDiskCacheTTLMin", "MetadataWorkers",
   "MetadataQueueSize", "PreloadWorkers", "PreloadQueueSize", "DiskSyncPolicy",
   "DiskSyncIntervalMS", "DiskWriteBatchSize"}
PresetNumbers == PresetNames \ {"DisableUTP", "DiskSyncPolicy"}

\* What a preset gives: no number is negative.
PresetType(p) ==
  /\ \A f \in PresetNumbers \cap DOMAIN p : p[f] \in Nat
  /\ "DisableUTP" \in DOMAIN p => p["DisableUTP"] \in BOOLEAN

LEMMA OverPreset ==
  ASSUME NEW given, NEW p, PresetType(given), PresetType(p)
  PROVE  PresetType(over(given, p)) /\ DOMAIN over(given, p) = DOMAIN p
BY DEF PresetType, over

\* Every profile has a preset of all of them.
LEMMA PresetsTyped ==
  ASSUME NEW profile
  PROVE  PresetType(preset(profile)) /\ DOMAIN preset(profile) = PresetNames
<1>1. PresetType(balancedProfile) /\ DOMAIN balancedProfile = PresetNames
  BY DEF PresetType, balancedProfile, PresetNames, PresetNumbers
<1>2. PresetType(tcpOnlyBalancedProfile) /\ DOMAIN tcpOnlyBalancedProfile = PresetNames
  BY <1>1 DEF PresetType, tcpOnlyBalancedProfile, PresetNames, PresetNumbers
<1>3. PresetType(lowCPUProfile) /\ DOMAIN lowCPUProfile = PresetNames
  BY <1>2 DEF PresetType, lowCPUProfile, PresetNames, PresetNumbers
<1>4. PresetType(lowEndProfile) /\ DOMAIN lowEndProfile = PresetNames
  <2> DEFINE given ==
       [CacheSize |-> 32, PreloadCache |-> 25, ConnectionsLimit |-> 12,
        MaxConcurrentStreams |-> 1, StreamQueueSize |-> 2, StreamQueueWaitSec |-> 2,
        MaxUniquePlaybackTorrents |-> 1, AdaptiveRAMinMB |-> 2, AdaptiveRAMaxMB |-> 16,
        WarmDiskCacheSizeMB |-> 256, WarmDiskCacheTTLMin |-> 60, MetadataWorkers |-> 1,
        MetadataQueueSize |-> 64, PreloadWorkers |-> 1, PreloadQueueSize |-> 8,
        DiskSyncIntervalMS |-> 800, DiskWriteBatchSize |-> 8]
  <2>1. PresetType(given)
    BY DEF PresetType, PresetNames, PresetNumbers
  <2>2. lowEndProfile = over(given, balancedProfile)
    BY DEF lowEndProfile
  <2> HIDE DEF given
  <2> QED BY <1>1, <2>1, <2>2, OverPreset
<1>5. ASSUME NEW a \in Int, NEW b \in Nat PROVE atLeastCPU(a, b) \in Nat
  BY DEF atLeastCPU
<1>6. CPUs \in Nat
  BY SettingsValuesAssumption
<1>7. PresetType(highThroughputProfile) /\ DOMAIN highThroughputProfile = PresetNames
  <2> DEFINE c1 == atLeastCPU(CPUs * 20, 80)
             c2 == atLeastCPU(CPUs * 2, 4)
             c3 == atLeastCPU(CPUs * 4, 12)
             c4 == atLeastCPU(CPUs, 4)
             c5 == atLeastCPU(CPUs \div 2, 2)
             given ==
       [CacheSize |-> 256, PreloadCache |-> 70, ConnectionsLimit |-> c1,
        MaxConcurrentStreams |-> c2, StreamQueueSize |-> c3, StreamQueueWaitSec |-> 4,
        AdaptiveRAMinMB |-> 8, AdaptiveRAMaxMB |-> 128, WarmDiskCacheSizeMB |-> 4096,
        WarmDiskCacheTTLMin |-> 360, MetadataWorkers |-> c4, MetadataQueueSize |-> 512,
        PreloadWorkers |-> c5, PreloadQueueSize |-> 64, DiskSyncIntervalMS |-> 1500,
        DiskWriteBatchSize |-> 32]
  <2>1. c1 \in Nat /\ c2 \in Nat /\ c3 \in Nat /\ c4 \in Nat /\ c5 \in Nat
    BY <1>5, <1>6
  <2>2. highThroughputProfile = over(given, balancedProfile)
    BY DEF highThroughputProfile
  <2> HIDE DEF c1, c2, c3, c4, c5
  <2>3. PresetType(given)
    BY <2>1 DEF PresetType, PresetNames, PresetNumbers
  <2> HIDE DEF given
  <2> QED BY <1>1, <2>2, <2>3, OverPreset
<1>8. PresetType(nasProfile) /\ DOMAIN nasProfile = PresetNames
  <2> DEFINE c1 == atLeastCPU(CPUs * 12, 40)
             c2 == atLeastCPU(CPUs, 2)
             c3 == atLeastCPU(CPUs * 3, 8)
             c4 == atLeastCPU(CPUs \div 2, 2)
             given ==
       [CacheSize |-> 128, PreloadCache |-> 55, ConnectionsLimit |-> c1,
        MaxConcurrentStreams |-> c2, StreamQueueSize |-> c3, StreamQueueWaitSec |-> 4,
        WarmDiskCacheSizeMB |-> 8192, WarmDiskCacheTTLMin |-> 720, MetadataWorkers |-> c4,
        MetadataQueueSize |-> 256, PreloadWorkers |-> 1, PreloadQueueSize |-> 32,
        DiskSyncIntervalMS |-> 2500, DiskWriteBatchSize |-> 24]
  <2>1. c1 \in Nat /\ c2 \in Nat /\ c3 \in Nat /\ c4 \in Nat
    BY <1>5, <1>6
  <2>2. nasProfile = over(given, balancedProfile)
    BY DEF nasProfile
  <2> HIDE DEF c1, c2, c3, c4
  <2>3. PresetType(given)
    BY <2>1 DEF PresetType, PresetNames, PresetNumbers
  <2> HIDE DEF given
  <2> QED BY <1>1, <2>2, <2>3, OverPreset
<1> HIDE DEF PresetType
<1>9. preset(profile) \in {balancedProfile, tcpOnlyBalancedProfile, lowCPUProfile, lowEndProfile,
                           highThroughputProfile, nasProfile}
  BY DEF preset
<1> QED BY <1>1, <1>2, <1>3, <1>4, <1>7, <1>8, <1>9

\* How these sets of fields relate.
LEMMA PresetNamesAre ==
  /\ PresetNames \subseteq FieldNames
  /\ PresetNumbers = PresetNames \cap Numbers
  /\ PresetNumbers \cup {"DiskSyncPolicy"} \subseteq OverrideFields
  /\ OverrideFields \cap Booleans = {} /\ "CoreProfile" \notin OverrideFields
  /\ OverrideFields \subseteq FieldNames
  /\ PresetNames \cap Booleans = {"DisableUTP"}
  /\ ZeroCopied \subseteq NonNegativeFields
  /\ NonNegativeFields \subseteq Numbers \ (Bounds \cup {"PreloadCache"})
BY FieldsAre DEF PresetNames, PresetNumbers, Numbers, Booleans, Strings, OverrideFields, ZeroCopied,
   NonNegativeFields, WorkerFields, Bounds

\* The caller's value x of field f stands (applyCoreProfileOverrides); the preset's is
\* taken over (applyProfileFields).
stands(f, x) == f \in OverrideFields /\ IF f \in Numbers THEN x > 0 ELSE x # ""
copied(profile, f) ==
  profile # "custom" /\ f \in PresetNames /\ shouldCopy(preset(profile), f)

\* What ApplyCoreProfile makes of every field.
LEMMA ProfileFields ==
  ASSUME NEW s, AllFields(s)
  PROVE  LET a == ApplyCoreProfile(s)
             profile == normalizeCoreProfile(s["CoreProfile"])
         IN  /\ AllFields(a)
             /\ a["CoreProfile"] = profile
             /\ \A f \in FieldNames \ {"CoreProfile"} :
                  a[f] = IF copied(profile, f) /\ ~stands(f, s[f]) THEN preset(profile)[f] ELSE s[f]
<1> DEFINE profile == normalizeCoreProfile(s["CoreProfile"])
           named == [s EXCEPT !.CoreProfile = profile]
           p == preset(profile)
           applied == applyProfileFields(named, p)
           result == applyCoreProfileOverrides(applied, s)
<1>1. DOMAIN s = FieldNames /\ "CoreProfile" \in FieldNames
  BY FieldsAre DEF AllFields
<1>2. /\ named = [f \in FieldNames |-> named[f]] /\ named["CoreProfile"] = profile
      /\ \A f \in FieldNames \ {"CoreProfile"} : named[f] = s[f]
  <2>1. named = [f \in DOMAIN s |-> named[f]]
    OBVIOUS
  <2>2. named["CoreProfile"] = profile /\ \A f \in FieldNames \ {"CoreProfile"} : named[f] = s[f]
    BY <1>1
  <2> HIDE DEF named
  <2> QED BY <1>1, <2>1, <2>2
<1>3. DOMAIN p = PresetNames /\ "CoreProfile" \notin PresetNames
  BY PresetsTyped DEF PresetNames
<1>4. "CoreProfile" \notin OverrideFields
  BY PresetNamesAre
<1>5. ApplyCoreProfile(s) = IF profile = "custom" THEN named ELSE result
  BY Zenon DEF ApplyCoreProfile
<1> HIDE DEF named, profile, p
<1>6. /\ applied = [f \in FieldNames |-> applied[f]]
      /\ \A f \in FieldNames : applied[f] = IF f \in PresetNames /\ shouldCopy(p, f) THEN p[f] ELSE named[f]
  BY <1>3 DEF applyProfileFields
<1> HIDE DEF applied
<1>7. /\ result = [f \in FieldNames |-> result[f]]
      /\ \A f \in FieldNames : result[f] = IF stands(f, s[f]) THEN s[f] ELSE applied[f]
  BY DEF applyCoreProfileOverrides, stands
<1> HIDE DEF result
<1>8. CASE profile = "custom"
  <2>1. \A f : ~copied(profile, f)
    BY <1>8 DEF copied
  <2>2. ApplyCoreProfile(s) = named
    BY <1>5, <1>8
  <2> QED BY <1>2, <2>1, <2>2 DEF AllFields, profile
<1>9. CASE profile # "custom"
  <2>1. \A f : copied(profile, f) <=> f \in PresetNames /\ shouldCopy(p, f)
    BY <1>9 DEF copied, p
  <2>2. ApplyCoreProfile(s) = result
    BY <1>5, <1>9
  <2>3. result["CoreProfile"] = profile
    <3>1. ~stands("CoreProfile", s["CoreProfile"])
      BY <1>4 DEF stands
    <3> QED BY <1>1, <1>2, <1>3, <1>6, <1>7, <3>1
  <2>4. ASSUME NEW f \in FieldNames \ {"CoreProfile"}
        PROVE  result[f] = IF copied(profile, f) /\ ~stands(f, s[f]) THEN p[f] ELSE s[f]
    BY <1>2, <1>6, <1>7, <2>1
  <2> QED BY <1>7, <2>2, <2>3, <2>4 DEF AllFields, profile, p
<1> QED BY <1>8, <1>9

LEMMA ZeroTyped == \A f \in FieldNames : hasFieldType(f, zero(f))
<1>1. \A f : f \in Booleans => zero(f) \in BOOLEAN
  BY Zenon DEF zero
<1>2. \A f : f \in Numbers => zero(f) = 0
  BY Zenon DEF zero, Numbers
<1> QED BY <1>1, <1>2 DEF hasFieldType

LEMMA PresetValue ==
  ASSUME NEW profile, NEW f \in PresetNames
  PROVE  /\ hasFieldType(f, preset(profile)[f])
         /\ f \in Numbers => preset(profile)[f] \in Nat
<1>1. PresetType(preset(profile)) /\ DOMAIN preset(profile) = PresetNames
  BY PresetsTyped
<1> QED BY <1>1, PresetNamesAre DEF PresetType, hasFieldType

LEMMA ProfileTyped ==
  ASSUME NEW s, Typed(s)
  PROVE  Typed(ApplyCoreProfile(s))
<1> DEFINE a == ApplyCoreProfile(s)
           profile == normalizeCoreProfile(s["CoreProfile"])
<1>1. /\ AllFields(a) /\ a["CoreProfile"] = profile
      /\ \A f \in FieldNames \ {"CoreProfile"} :
           a[f] = IF copied(profile, f) /\ ~stands(f, s[f]) THEN preset(profile)[f] ELSE s[f]
  BY ProfileFields DEF Typed
<1>2. hasFieldType("CoreProfile", profile)
  BY DEF hasFieldType, Booleans, Numbers, Strings
<1> HIDE DEF a, profile
<1>3. ASSUME NEW f \in FieldNames PROVE hasFieldType(f, a[f])
  <2>1. CASE f = "CoreProfile"
    BY <1>1, <1>2, <2>1
  <2>2. CASE f # "CoreProfile" /\ copied(profile, f) /\ ~stands(f, s[f])
    <3>1. f \in PresetNames
      BY <2>2 DEF copied
    <3> QED BY <1>1, <2>2, <3>1, PresetValue
  <2>3. CASE f # "CoreProfile" /\ ~(copied(profile, f) /\ ~stands(f, s[f]))
    BY <1>1, <2>3 DEF Typed
  <2> QED BY <2>1, <2>2, <2>3
<1> QED BY <1>1, <1>3 DEF Typed, a

\* What is at rest: profile and preset have nothing to add, and every field is as
\* normalisation leaves it.
Resting(s) ==
  /\ Typed(s)
  /\ normalizeCoreProfile(s["CoreProfile"]) = s["CoreProfile"]
  /\ \A f \in PresetNames \ {"PreloadCache"} :
       copied(s["CoreProfile"], f) => stands(f, s[f]) \/ s[f] = preset(s["CoreProfile"])[f]
  /\ \A f \in FieldNames \ (Bounds \cup {"PreloadCache"}) : norm(f, s[f]) = s[f]
  /\ s["AdaptiveRAMinMB"] \in 1 .. s["AdaptiveRAMaxMB"]
  /\ s["PreloadCache"] \in 0 .. 100
  /\ s["UseDisk"] => s["TorrentsSavePath"] # ""

\* The save path of what is saved; a cache without a path is not on disk.
LEMMA NormalisedPath ==
  ASSUME NEW v, AllFields(v), v["UseDisk"] \in BOOLEAN, NEW s, v = validateAndNormalize(ApplyCoreProfile(s))
  PROVE  /\ \A n \in normalised(s) :
              /\ AllFields(n)
              /\ \A f \in FieldNames \ {"UseDisk", "TorrentsSavePath"} : n[f] = v[f]
              /\ n["UseDisk"] \in BOOLEAN
              /\ n["UseDisk"] => n["TorrentsSavePath"] # ""
         /\ (v["UseDisk"] => v["TorrentsSavePath"] # "") => v \in normalised(s)
<1> DEFINE off == [v EXCEPT !.UseDisk = IF v["TorrentsSavePath"] = "" THEN FALSE ELSE v["UseDisk"]]
           at(path) == [v EXCEPT !.TorrentsSavePath = path]
           paths == savePaths(v["TorrentsSavePath"])
<1>1. DOMAIN v = FieldNames /\ "UseDisk" \in FieldNames /\ "TorrentsSavePath" \in FieldNames
  BY FieldsAre DEF AllFields
<1>2. normalised(s) = IF v["UseDisk"] /\ v["TorrentsSavePath"] # "" THEN {at(path) : path \in paths} ELSE {off}
  BY DEF normalised
<1>3. v["TorrentsSavePath"] # "" => "" \notin paths
  BY DEF savePaths
<1>4. v["TorrentsSavePath"] \in paths
  BY DEF savePaths
<1>5. ASSUME NEW path
      PROVE  /\ AllFields(at(path)) /\ at(path)["TorrentsSavePath"] = path /\ at(path)["UseDisk"] = v["UseDisk"]
             /\ \A f \in FieldNames \ {"TorrentsSavePath"} : at(path)[f] = v[f]
  <2>1. at(path) = [f \in DOMAIN v |-> at(path)[f]]
    OBVIOUS
  <2>2. AllFields(at(path))
    <3> HIDE DEF at
    <3> QED BY <1>1, <2>1 DEF AllFields
  <2> QED BY <1>1, <2>2
<1>6. at(v["TorrentsSavePath"]) = v
  BY <1>1 DEF AllFields
<1> DEFINE on == IF v["TorrentsSavePath"] = "" THEN FALSE ELSE v["UseDisk"]
<1>7. on \in BOOLEAN /\ (on => v["TorrentsSavePath"] # "") /\ (v["TorrentsSavePath"] # "" => on = v["UseDisk"])
      /\ (~v["UseDisk"] => on = v["UseDisk"])
  BY Zenon
<1>8. off = [v EXCEPT !.UseDisk = on]
  OBVIOUS
<1> HIDE DEF off, at, on, paths
<1>9. /\ AllFields(off) /\ off["UseDisk"] = on
      /\ \A f \in FieldNames \ {"UseDisk"} : off[f] = v[f]
  <2> DEFINE o == [v EXCEPT !.UseDisk = on]
  <2>1. o = [f \in DOMAIN v |-> o[f]]
    OBVIOUS
  <2>2. o["UseDisk"] = on /\ \A f \in FieldNames \ {"UseDisk"} : o[f] = v[f]
    BY <1>1, Zenon
  <2> HIDE DEF o
  <2> QED BY <1>1, <1>8, <2>1, <2>2, Zenon DEF AllFields, o
<1>10. ~v["UseDisk"] => off = v
  <2> SUFFICES ASSUME ~v["UseDisk"] PROVE off = v
    OBVIOUS
  <2>1. on = v["UseDisk"]
    BY <1>7, Zenon
  <2>2. \A f \in FieldNames : off[f] = v[f]
    BY <1>9, <2>1, Zenon
  <2> QED BY <1>9, <2>2, Zenon DEF AllFields
<1>11. CASE v["UseDisk"] /\ v["TorrentsSavePath"] # ""
  <2>1. normalised(s) = {at(path) : path \in paths}
    BY <1>2, <1>11, Zenon
  <2>2. v \in normalised(s)
    BY <1>4, <1>6, <2>1, Zenon
  <2>3. ASSUME NEW n \in normalised(s)
        PROVE  /\ AllFields(n)
               /\ \A f \in FieldNames \ {"UseDisk", "TorrentsSavePath"} : n[f] = v[f]
               /\ n["UseDisk"] \in BOOLEAN
               /\ n["TorrentsSavePath"] # ""
    <3>1. PICK path \in paths : n = at(path)
      BY <2>1
    <3>2. path # ""
      BY <1>3, <1>11, <3>1
    <3>3. /\ AllFields(n) /\ n["TorrentsSavePath"] = path /\ n["UseDisk"] = v["UseDisk"]
          /\ \A f \in FieldNames \ {"TorrentsSavePath"} : n[f] = v[f]
      BY <1>5, <3>1, Zenon
    <3>4. n["UseDisk"] \in BOOLEAN
      BY <3>3, Zenon
    <3> QED BY <3>2, <3>3, <3>4, Zenon
  <2> QED BY <2>2, <2>3
<1>12. CASE ~(v["UseDisk"] /\ v["TorrentsSavePath"] # "")
  <2>1. normalised(s) = {off}
    BY <1>2, <1>12, Zenon
  <2>2. off["UseDisk"] => off["TorrentsSavePath"] # ""
    <3>1. off["TorrentsSavePath"] = v["TorrentsSavePath"]
      BY <1>1, <1>9
    <3> QED BY <1>7, <1>9, <3>1, Zenon
  <2>3. /\ AllFields(off)
        /\ \A f \in FieldNames \ {"UseDisk", "TorrentsSavePath"} : off[f] = v[f]
        /\ off["UseDisk"] \in BOOLEAN
    BY <1>7, <1>9, Zenon
  <2>4. (v["UseDisk"] => v["TorrentsSavePath"] # "") => v \in normalised(s)
    BY <1>10, <1>12, <2>1, Zenon
  <2> QED BY <2>1, <2>2, <2>3, <2>4, Zenon
<1> QED BY <1>11, <1>12

\* Whatever is normalised comes to rest ...
LEMMA NormalisedRests ==
  ASSUME NEW s, Typed(s), NEW n \in normalised(s)
  PROVE  Resting(n)
<1> DEFINE a == ApplyCoreProfile(s)
           profile == normalizeCoreProfile(s["CoreProfile"])
           v == validateAndNormalize(a)
<1>1. /\ AllFields(a) /\ a["CoreProfile"] = profile
      /\ \A f \in FieldNames \ {"CoreProfile"} :
           a[f] = IF copied(profile, f) /\ ~stands(f, s[f]) THEN preset(profile)[f] ELSE s[f]
  BY ProfileFields DEF Typed
<1>2. Typed(a)
  BY ProfileTyped
<1>3. /\ AllFields(v)
      /\ \A f \in FieldNames \ Bounds : v[f] = norm(f, a[f])
      /\ v["AdaptiveRAMinMB"] = (IF lowBound(a) > highBound(a) THEN highBound(a) ELSE lowBound(a))
      /\ v["AdaptiveRAMaxMB"] = highBound(a)
  BY <1>1, NormFields
<1>4. v["UseDisk"] \in BOOLEAN /\ v["UseDisk"] = a["UseDisk"] /\ v["CoreProfile"] = profile
  <2>1. norm("UseDisk", a["UseDisk"]) = a["UseDisk"] /\ norm("CoreProfile", a["CoreProfile"]) = a["CoreProfile"]
    BY NormCases
  <2>2. "UseDisk" \in FieldNames \ Bounds /\ "CoreProfile" \in FieldNames \ Bounds /\ "UseDisk" \in Booleans
    BY FieldsAre DEF Bounds, Booleans
  <2>3. a["UseDisk"] \in BOOLEAN
    BY <1>2, <2>2 DEF Typed, hasFieldType
  <2> HIDE DEF a, v, profile
  <2> QED BY <1>1, <1>3, <2>1, <2>2, <2>3, Zenon
<1>5. /\ AllFields(n)
      /\ \A f \in FieldNames \ {"UseDisk", "TorrentsSavePath"} : n[f] = v[f]
      /\ n["UseDisk"] \in BOOLEAN
      /\ n["UseDisk"] => n["TorrentsSavePath"] # ""
  BY <1>3, <1>4, NormalisedPath
<1> HIDE DEF a, profile, v
<1>6. lowBound(a) \in Nat \ {0} /\ highBound(a) \in Nat \ {0}
  <2>1. a["AdaptiveRAMinMB"] \in Int /\ a["AdaptiveRAMaxMB"] \in Int
    BY <1>2, FieldsAre DEF Typed, hasFieldType, Numbers, Booleans, Strings
  <2> QED BY <2>1 DEF lowBound, highBound, orDefault
<1>7. /\ n["AdaptiveRAMinMB"] = v["AdaptiveRAMinMB"] /\ n["AdaptiveRAMaxMB"] = v["AdaptiveRAMaxMB"]
      /\ n["CoreProfile"] = profile /\ n["PreloadCache"] = norm("PreloadCache", a["PreloadCache"])
  BY <1>3, <1>4, <1>5, FieldsAre DEF Bounds
<1>8. /\ n["AdaptiveRAMinMB"] \in 1 .. n["AdaptiveRAMaxMB"]
      /\ n["AdaptiveRAMinMB"] \in Nat \ {0} /\ n["AdaptiveRAMaxMB"] \in Nat \ {0}
  BY <1>3, <1>6, <1>7
<1>9. ASSUME NEW f \in FieldNames \ (Bounds \cup {"UseDisk", "TorrentsSavePath"})
      PROVE  n[f] = norm(f, a[f]) /\ hasFieldType(f, a[f]) /\ hasFieldType(f, n[f])
  <2>1. n[f] = norm(f, a[f]) /\ hasFieldType(f, a[f])
    BY <1>2, <1>3, <1>5 DEF Typed
  <2> QED BY <2>1, NormRests
<1>10. Typed(n)
  <2>1. ASSUME NEW f \in Bounds PROVE hasFieldType(f, n[f])
    BY <1>8 DEF Bounds, hasFieldType, Booleans
  <2>2. ASSUME NEW f \in {"UseDisk", "TorrentsSavePath"} PROVE hasFieldType(f, n[f])
    BY <1>5 DEF hasFieldType, Numbers, Booleans, Strings
  <2> QED BY <1>5, <1>9, <2>1, <2>2 DEF Typed
<1>11. normalizeCoreProfile(n["CoreProfile"]) = n["CoreProfile"]
  BY <1>7, PoliciesRest DEF profile
<1>12. ASSUME NEW f \in FieldNames \ (Bounds \cup {"PreloadCache"}) PROVE norm(f, n[f]) = n[f]
  <2>1. CASE f \in {"UseDisk", "TorrentsSavePath"}
    BY <2>1, NormCases
  <2>2. CASE f \notin {"UseDisk", "TorrentsSavePath"}
    BY <1>9, <2>2, NormRests
  <2> QED BY <2>1, <2>2
<1>13. n["PreloadCache"] \in 0 .. 100
  <2>1. a["PreloadCache"] \in Int
    BY <1>2, FieldsAre DEF Typed, hasFieldType, Numbers, Booleans, Strings
  <2>2. n["PreloadCache"] = clamp(IF a["PreloadCache"] = 0 THEN 50 ELSE a["PreloadCache"], 0, 100)
    BY <1>7, NormCases
  <2> QED BY <2>1, <2>2 DEF clamp
<1>14. ASSUME NEW f \in PresetNames \ {"PreloadCache"}, copied(n["CoreProfile"], f)
       PROVE  stands(f, n[f]) \/ n[f] = preset(n["CoreProfile"])[f]
  <2> DEFINE p == preset(profile)
  <2>1. copied(profile, f) /\ shouldCopy(p, f)
    BY <1>7, <1>14 DEF copied
  <2>2. a[f] = IF ~stands(f, s[f]) THEN p[f] ELSE s[f]
    BY <1>1, <2>1, PresetNamesAre DEF PresetNames
  <2>3. f \in FieldNames /\ f \notin {"UseDisk", "TorrentsSavePath"}
    BY PresetNamesAre DEF PresetNames
  <2>4. hasFieldType(f, a[f]) /\ (f \in Numbers => p[f] \in Nat)
    BY <1>2, <2>3, PresetValue DEF Typed
  <2> HIDE DEF p
  <2>5. CASE f \in Bounds
    <3>1. n[f] > 0
      BY <1>8, <2>5 DEF Bounds
    <3>2. f \in Numbers /\ f \in OverrideFields
      BY <2>5, PresetNamesAre DEF Bounds, PresetNumbers, PresetNames
    <3> QED BY <3>1, <3>2 DEF stands
  <2>6. CASE f \in Numbers /\ f \notin Bounds
    <3>1. f \in OverrideFields
      BY <2>6, PresetNamesAre
    <3>2. CASE a[f] > 0
      <4>1. n[f] > 0
        BY <1>9, <2>3, <2>6, <3>2, NormRests
      <4> QED BY <2>6, <3>1, <4>1 DEF stands
    <3>3. CASE ~(a[f] > 0)
      <4>1. ~stands(f, s[f])
        BY <2>2, <2>6, <3>3 DEF stands
      <4>2. a[f] = p[f] /\ p[f] = 0
        BY <2>2, <2>4, <2>6, <3>3, <4>1
      <4>3. zero(f) = 0
        BY <2>6, Zenon DEF zero, Numbers
      <4>4. f \in NonNegativeFields
        BY <2>1, <4>2, <4>3, PresetNamesAre DEF shouldCopy
      <4>5. norm(f, a[f]) = 0
        BY <2>3, <2>4, <2>6, <4>2, <4>4, NormRests
      <4>6. n[f] = p[f]
        BY <1>9, <2>3, <2>6, <4>2, <4>5
      <4> QED BY <1>7, <4>6 DEF p
    <3> QED BY <3>2, <3>3
  <2>7. CASE f = "DiskSyncPolicy"
    <3>1. n[f] # ""
      <4>1. n[f] = norm(f, a[f])
        BY <1>9, <2>3, <2>7 DEF Bounds
      <4>2. norm(f, a[f]) = normalizeDiskSyncPolicy(a[f])
        BY <2>7, NormCases
      <4>3. normalizeDiskSyncPolicy(a[f]) # ""
        BY PoliciesRest, Zenon
      <4> QED BY <4>1, <4>2, <4>3
    <3>2. f \in OverrideFields /\ f \notin Numbers
      BY <2>7, PresetNamesAre DEF Numbers, Strings
    <3> QED BY <3>1, <3>2 DEF stands
  <2>8. CASE f = "DisableUTP"
    <3>1. ~stands(f, s[f])
      BY <2>8, PresetNamesAre DEF stands, Booleans
    <3>2. norm(f, a[f]) = a[f] /\ f \notin Bounds
      BY <2>8, NormCases DEF Bounds
    <3>3. n[f] = p[f]
      <4>1. n[f] = norm(f, a[f])
        BY <1>9, <2>3, <3>2
      <4> QED BY <2>2, <3>1, <3>2, <4>1, Zenon
    <3> QED BY <1>7, <3>3 DEF p
  <2> QED BY <2>5, <2>6, <2>7, <2>8, PresetNamesAre DEF PresetNumbers
<1> QED BY <1>5, <1>8, <1>10, <1>11, <1>12, <1>13, <1>14 DEF Resting

\* ... and to save what is at rest changes nothing but a PreloadCache of 0.
LEMMA RestKept ==
  ASSUME NEW s, Resting(s)
  PROVE  /\ s["AdaptiveRAMinMB"] \in 1 .. s["AdaptiveRAMaxMB"]
         /\ s["ReaderReadAHead"] \in 5 .. 100
         /\ s["PreloadCache"] \in 0 .. 100
         /\ \A f \in NonNegativeFields \cup {"WarmDiskCacheTTLMin"} : s[f] >= 0
         /\ \E n \in normalised(s) :
              s = [n EXCEPT !.PreloadCache = IF s["PreloadCache"] = 0 THEN 0 ELSE n["PreloadCache"]]
<1> DEFINE a == ApplyCoreProfile(s)
           profile == normalizeCoreProfile(s["CoreProfile"])
           v == validateAndNormalize(a)
<1>0. /\ Typed(s) /\ AllFields(s)
      /\ s["AdaptiveRAMinMB"] \in Int /\ s["AdaptiveRAMaxMB"] \in Int /\ s["PreloadCache"] \in Int
      /\ s["ReaderReadAHead"] \in Int /\ s["WarmDiskCacheTTLMin"] \in Int
      /\ s["UseDisk"] \in BOOLEAN
  BY FieldsAre DEF Resting, Typed, hasFieldType, Numbers, Booleans, Strings
<1>1. /\ AllFields(a) /\ a["CoreProfile"] = profile
      /\ \A f \in FieldNames \ {"CoreProfile"} :
           a[f] = IF copied(profile, f) /\ ~stands(f, s[f]) THEN preset(profile)[f] ELSE s[f]
  BY <1>0, ProfileFields
<1>2. profile = s["CoreProfile"]
  BY DEF Resting
<1>3. /\ AllFields(v)
      /\ \A f \in FieldNames \ Bounds : v[f] = norm(f, a[f])
      /\ v["AdaptiveRAMinMB"] = (IF lowBound(a) > highBound(a) THEN highBound(a) ELSE lowBound(a))
      /\ v["AdaptiveRAMaxMB"] = highBound(a)
  BY <1>1, NormFields
<1> HIDE DEF a, profile, v
<1>4. ASSUME NEW f \in FieldNames \ {"PreloadCache"} PROVE a[f] = s[f]
  <2>1. CASE f = "CoreProfile"
    BY <1>1, <1>2, <2>1
  <2>2. CASE f # "CoreProfile" /\ copied(profile, f) /\ ~stands(f, s[f])
    <3>1. f \in PresetNames
      BY <2>2 DEF copied
    <3>2. s[f] = preset(profile)[f]
      BY <1>2, <2>2, <3>1 DEF Resting
    <3> QED BY <1>1, <2>2, <3>2
  <2>3. CASE f # "CoreProfile" /\ ~(copied(profile, f) /\ ~stands(f, s[f]))
    BY <1>1, <2>3
  <2> QED BY <2>1, <2>2, <2>3
<1>5. ASSUME NEW f \in FieldNames \ {"PreloadCache"} PROVE v[f] = s[f]
  <2>1. CASE f \notin Bounds
    BY <1>3, <1>4, <2>1 DEF Resting
  <2>2. CASE f \in Bounds
    <3>1. /\ a["AdaptiveRAMinMB"] = s["AdaptiveRAMinMB"] /\ a["AdaptiveRAMaxMB"] = s["AdaptiveRAMaxMB"]
      BY <1>4, FieldsAre
    <3>2. s["AdaptiveRAMinMB"] \in 1 .. s["AdaptiveRAMaxMB"]
      BY DEF Resting
    <3>3. lowBound(a) = s["AdaptiveRAMinMB"] /\ highBound(a) = s["AdaptiveRAMaxMB"]
      BY <1>0, <3>1, <3>2 DEF lowBound, highBound, orDefault
    <3>4. v["AdaptiveRAMinMB"] = s["AdaptiveRAMinMB"] /\ v["AdaptiveRAMaxMB"] = s["AdaptiveRAMaxMB"]
      BY <1>0, <1>3, <3>2, <3>3
    <3> QED BY <2>2, <3>4 DEF Bounds
  <2> QED BY <2>1, <2>2
<1>6. s["PreloadCache"] # 0 => v["PreloadCache"] = s["PreloadCache"]
  <2> SUFFICES ASSUME s["PreloadCache"] # 0 PROVE v["PreloadCache"] = s["PreloadCache"]
    OBVIOUS
  <2>0. s["PreloadCache"] \in 0 .. 100
    BY DEF Resting
  <2>1. s["PreloadCache"] \in 1 .. 100
    BY <1>0, <2>0
  <2>2. stands("PreloadCache", s["PreloadCache"])
    <3>1. "PreloadCache" \in OverrideFields /\ "PreloadCache" \in Numbers
      BY PresetNamesAre DEF PresetNumbers, PresetNames
    <3>2. s["PreloadCache"] > 0
      BY <1>0, <2>1
    <3> QED BY <3>1, <3>2 DEF stands
  <2>3. a["PreloadCache"] = s["PreloadCache"]
    BY <1>1, <2>2, FieldsAre
  <2>4. v["PreloadCache"] = clamp(IF a["PreloadCache"] = 0 THEN 50 ELSE a["PreloadCache"], 0, 100)
    <3>1. "PreloadCache" \in FieldNames \ Bounds
      BY FieldsAre DEF Bounds
    <3>2. v["PreloadCache"] = norm("PreloadCache", a["PreloadCache"])
      BY <1>3, <3>1
    <3> QED BY <3>2, NormCases
  <2> QED BY <1>0, <2>1, <2>3, <2>4 DEF clamp
<1>7. v["UseDisk"] = s["UseDisk"] /\ v["TorrentsSavePath"] = s["TorrentsSavePath"]
  BY <1>5, FieldsAre
<1>8. v \in normalised(s)
  <2>1. (v["UseDisk"] => v["TorrentsSavePath"] # "") /\ v["UseDisk"] \in BOOLEAN
    <3>1. (s["UseDisk"] => s["TorrentsSavePath"] # "") /\ s["UseDisk"] \in BOOLEAN
      BY <1>0, Zenon DEF Resting
    <3> QED BY <1>7, <3>1, Zenon
  <2> QED BY <1>3, <2>1, NormalisedPath DEF v, a
<1>9. s = [v EXCEPT !.PreloadCache = IF s["PreloadCache"] = 0 THEN 0 ELSE v["PreloadCache"]]
  <2> DEFINE x == IF s["PreloadCache"] = 0 THEN 0 ELSE v["PreloadCache"]
             t == [v EXCEPT !.PreloadCache = x]
  <2>1. x = s["PreloadCache"]
    BY <1>6
  <2> HIDE DEF x
  <2>2. DOMAIN v = FieldNames /\ "PreloadCache" \in FieldNames
    BY <1>3, FieldsAre DEF AllFields
  <2>3. t = [f \in FieldNames |-> t[f]]
    <3>1. t = [f \in DOMAIN v |-> t[f]]
      OBVIOUS
    <3> HIDE DEF t
    <3> QED BY <2>2, <3>1
  <2>4. ASSUME NEW f \in FieldNames PROVE t[f] = s[f]
    BY <1>5, <2>1, <2>2
  <2> HIDE DEF t
  <2>5. t = s
    BY <1>0, <2>3, <2>4 DEF AllFields
  <2> QED BY <2>5 DEF t, x
<1>10. s["ReaderReadAHead"] \in 5 .. 100
  <2>1. norm("ReaderReadAHead", s["ReaderReadAHead"]) = s["ReaderReadAHead"]
    BY FieldsAre DEF Resting, Bounds
  <2>2. norm("ReaderReadAHead", s["ReaderReadAHead"]) = clamp(s["ReaderReadAHead"], 5, 100)
    BY NormCases
  <2> QED BY <1>0, <2>1, <2>2 DEF clamp
<1>11. ASSUME NEW f \in NonNegativeFields \cup {"WarmDiskCacheTTLMin"} PROVE s[f] >= 0
  <2>1. f \in FieldNames \ (Bounds \cup {"PreloadCache"}) /\ f \in Numbers
    BY FieldsAre, PresetNamesAre DEF Numbers, Booleans, Strings, Bounds
  <2>2. s[f] \in Int /\ norm(f, s[f]) = s[f]
    BY <1>0, <2>1 DEF Resting, Typed, hasFieldType
  <2>3. norm(f, s[f]) = atLeastZero(s[f])
    BY NormCases
  <2> QED BY <2>2, <2>3 DEF atLeastZero
<1> QED BY <1>8, <1>9, <1>10, <1>11 DEF Resting

\* Where settings come from: the defaults, a stored copy, a configuration, a request.
LEMMA DefaultsRest == Resting(SetDefaultConfig)
<1> DEFINE given == [ReaderReadAHead |-> 95, TorrentDisconnectTimeout |-> 30, ResponsiveMode |-> TRUE,
                     CoreProfile |-> "custom", StartupPreloadPolicy |-> "skip-active"]
           b == over(balancedProfile, ZeroSets)
           s == SetDefaultConfig
<1>1. \A f \in FieldNames : b[f] = IF f \in PresetNames THEN balancedProfile[f] ELSE zero(f)
  <2>1. DOMAIN balancedProfile = PresetNames
    BY DEF balancedProfile, PresetNames
  <2>2. DOMAIN ZeroSets = FieldNames /\ \A f \in FieldNames : ZeroSets[f] = zero(f)
    BY DEF ZeroSets
  <2> QED BY <2>1, <2>2 DEF over
<1>2. DOMAIN b = FieldNames
  BY DEF over, ZeroSets
<1>3. s = over(given, b)
  BY DEF SetDefaultConfig
<1> DEFINE own == {"ReaderReadAHead", "TorrentDisconnectTimeout", "ResponsiveMode", "CoreProfile",
                   "StartupPreloadPolicy"}
<1>4. DOMAIN given = own
  OBVIOUS
<1>5. AllFields(s)
  BY <1>2, <1>3 DEF over, AllFields
<1>6. \A f \in FieldNames : s[f] = IF f \in own THEN given[f] ELSE b[f]
  <2> HIDE DEF given, own, b
  <2> QED BY <1>2, <1>3, <1>4 DEF over
<1>7. /\ s["ReaderReadAHead"] = 95 /\ s["TorrentDisconnectTimeout"] = 30
      /\ s["CoreProfile"] = "custom" /\ s["StartupPreloadPolicy"] = "skip-active"
      /\ s["ResponsiveMode"] = On
  <2>1. given["ReaderReadAHead"] = 95 /\ given["TorrentDisconnectTimeout"] = 30
        /\ given["CoreProfile"] = "custom" /\ given["StartupPreloadPolicy"] = "skip-active"
    OBVIOUS
  <2>2. given["ResponsiveMode"] = On
    BY DEF On
  <2> HIDE DEF given, b, s
  <2> QED BY <1>6, <2>1, <2>2, FieldsAre
<1>8. \A f \in PresetNames : s[f] = balancedProfile[f]
  <2> HIDE DEF given, b, s
  <2> QED BY <1>1, <1>6, PresetNamesAre DEF PresetNames
<1>9. /\ s["CacheSize"] = 64 /\ s["PreloadCache"] = 50 /\ s["ConnectionsLimit"] = 25
      /\ s["MaxConcurrentStreams"] = 0 /\ s["StreamQueueSize"] = 0 /\ s["StreamQueueWaitSec"] = 3
      /\ s["MaxUniquePlaybackTorrents"] = 0 /\ s["AdaptiveRAMinMB"] = 4 /\ s["AdaptiveRAMaxMB"] = 64
      /\ s["WarmDiskCacheSizeMB"] = 0 /\ s["WarmDiskCacheTTLMin"] = 180 /\ s["MetadataWorkers"] = 0
      /\ s["MetadataQueueSize"] = 0 /\ s["PreloadWorkers"] = 0 /\ s["PreloadQueueSize"] = 0
      /\ s["DiskSyncPolicy"] = "periodic" /\ s["DiskSyncIntervalMS"] = 1000
      /\ s["DiskWriteBatchSize"] = 16
  <2> HIDE DEF s
  <2> QED BY <1>8 DEF balancedProfile, PresetNames
<1>10. s["DisableUTP"] \in BOOLEAN
  <2>1. balancedProfile["DisableUTP"] \in BOOLEAN
    BY Zenon DEF balancedProfile
  <2> HIDE DEF s
  <2> QED BY <1>8, <2>1, Zenon DEF PresetNames
<1> DEFINE rest == {"UseDisk", "TorrentsSavePath", "EnableDebug", "DebugMaxUnverifiedBytesMB"}
<1>11. \A f \in rest : s[f] = zero(f)
  <2> HIDE DEF given, b, s
  <2> QED BY <1>1, <1>6, FieldsAre DEF PresetNames
<1> HIDE DEF s, given, b
<1>12. FieldNames = PresetNames \cup own \cup rest
  BY FieldsAre DEF PresetNames
<1>13. zero("UseDisk") = ~On /\ On \in BOOLEAN
  BY Zenon DEF zero, Booleans, On
<1>14. ASSUME NEW f \in FieldNames PROVE hasFieldType(f, s[f])
  <2>1. CASE f \in PresetNames
    <3>1. preset("custom") = balancedProfile
      BY DEF preset
    <3>2. hasFieldType(f, preset("custom")[f])
      BY <2>1, PresetValue
    <3> QED BY <1>8, <2>1, <3>1, <3>2, Zenon
  <2>2. CASE f \in own
    <3>1. CASE f \in {"ReaderReadAHead", "TorrentDisconnectTimeout"}
      BY <1>7, <3>1 DEF hasFieldType, Booleans
    <3>2. CASE f = "ResponsiveMode"
      BY <1>7, <1>13, <3>2, Zenon DEF hasFieldType, Numbers, Booleans
    <3>3. CASE f \in {"CoreProfile", "StartupPreloadPolicy"}
      BY <3>3 DEF hasFieldType, Numbers, Booleans, Strings
    <3> QED BY <2>2, <3>1, <3>2, <3>3
  <2>3. CASE f \in rest
    <3> HIDE DEF rest
    <3> QED BY <1>11, <2>3, ZeroTyped, Zenon
  <2> QED BY <1>12, <2>1, <2>2, <2>3
<1>15. normalizeCoreProfile("custom") = "custom"
  BY LowerKeeps DEF normalizeCoreProfile, Profiles
<1>16. \A f : ~copied("custom", f)
  BY DEF copied
<1>17. ASSUME NEW f \in FieldNames \ (Bounds \cup {"PreloadCache"}) PROVE norm(f, s[f]) = s[f]
  <2>1. CASE f \in NonNegativeFields
    <3>1. s[f] = 0
      BY <1>9, <2>1 DEF NonNegativeFields, WorkerFields
    <3>2. norm(f, s[f]) = atLeastZero(s[f])
      BY <2>1, NormCases
    <3> QED BY <3>1, <3>2 DEF atLeastZero
  <2>2. CASE f \in {"CacheSize", "ConnectionsLimit", "TorrentDisconnectTimeout"}
    <3>1. CASE f = "CacheSize"
      <4>1. norm(f, s[f]) = IF s[f] = 0 THEN 64 ELSE s[f]
        BY <3>1, NormCases
      <4> QED BY <1>9, <3>1, <4>1
    <3>2. CASE f = "ConnectionsLimit"
      <4>1. norm(f, s[f]) = IF s[f] = 0 THEN 25 ELSE s[f]
        BY <3>2, NormCases
      <4> QED BY <1>9, <3>2, <4>1
    <3>3. CASE f = "TorrentDisconnectTimeout"
      <4>1. norm(f, s[f]) = IF s[f] = 0 THEN 30 ELSE s[f]
        BY <3>3, NormCases
      <4> QED BY <1>7, <3>3, <4>1
    <3> QED BY <2>2, <3>1, <3>2, <3>3
  <2>3. CASE f \in {"StreamQueueWaitSec", "DiskSyncIntervalMS", "DiskWriteBatchSize"}
    <3>1. \E d : norm(f, s[f]) = orDefault(s[f], d)
      BY <2>3, NormCases
    <3>2. s[f] \in {3, 1000, 16}
      BY <1>9, <2>3
    <3> QED BY <3>1, <3>2 DEF orDefault
  <2>4. CASE f = "ReaderReadAHead"
    <3>1. norm(f, s[f]) = clamp(s[f], 5, 100)
      BY <2>4, NormCases
    <3> QED BY <1>7, <2>4, <3>1 DEF clamp
  <2>5. CASE f = "WarmDiskCacheTTLMin"
    <3>1. norm(f, s[f]) = atLeastZero(s[f])
      BY <2>5, NormCases
    <3> QED BY <1>9, <2>5, <3>1 DEF atLeastZero
  <2>6. CASE f = "StartupPreloadPolicy"
    <3>1. norm(f, s[f]) = NormalizeStartupPreloadPolicy(s[f])
      BY <2>6, NormCases
    <3>2. lower("skip-active") = "skip-active"
      BY LowerKeeps
    <3> QED BY <1>7, <2>6, <3>1, <3>2 DEF NormalizeStartupPreloadPolicy
  <2>7. CASE f = "DiskSyncPolicy"
    <3>1. norm(f, s[f]) = normalizeDiskSyncPolicy(s[f])
      BY <2>7, NormCases
    <3>2. lower("periodic") = "periodic"
      BY LowerKeeps
    <3> QED BY <1>9, <2>7, <3>1, <3>2 DEF normalizeDiskSyncPolicy
  <2>8. CASE f = "ResponsiveMode"
    <3>1. norm(f, s[f]) = On
      BY <2>8, NormCases
    <3> QED BY <1>7, <2>8, <3>1, Zenon
  <2>9. CASE f \in {"UseDisk", "TorrentsSavePath", "DisableUTP", "CoreProfile", "EnableDebug",
                    "DebugMaxUnverifiedBytesMB"}
    BY <2>9, NormCases
  <2> QED BY <2>1, <2>2, <2>3, <2>4, <2>5, <2>6, <2>7, <2>8, <2>9, FieldsAre
          DEF NonNegativeFields, WorkerFields, Bounds
<1>18. ~s["UseDisk"]
  <2>1. s["UseDisk"] = ~On
    BY <1>11, <1>13, Zenon
  <2> QED BY <2>1, Zenon DEF On
<1>19. s["AdaptiveRAMinMB"] \in 1 .. s["AdaptiveRAMaxMB"] /\ s["PreloadCache"] \in 0 .. 100
  BY <1>9
<1>20. Typed(s)
  BY <1>5, <1>14 DEF Typed, s
<1> QED BY <1>7, <1>15, <1>16, <1>17, <1>18, <1>19, <1>20 DEF Resting, s

\* Types are kept by all that settings go through.
LEMMA OverTyped ==
  ASSUME NEW given, NEW s,
         \A f \in DOMAIN given : hasFieldType(f, given[f]),
         \A f \in DOMAIN s : hasFieldType(f, s[f])
  PROVE  /\ DOMAIN over(given, s) = DOMAIN s
         /\ over(given, s) = [f \in DOMAIN s |-> over(given, s)[f]]
         /\ \A f \in DOMAIN s : hasFieldType(f, over(given, s)[f])
<1> DEFINE o == over(given, s)
<1>1. DOMAIN o = DOMAIN s /\ o = [f \in DOMAIN s |-> o[f]]
  BY DEF over
<1>2. \A f \in DOMAIN s : o[f] = IF f \in DOMAIN given THEN given[f] ELSE s[f]
  BY DEF over
<1> HIDE DEF o, hasFieldType
<1>3. \A f \in DOMAIN s : hasFieldType(f, o[f])
  BY <1>2
<1> QED BY <1>1, <1>3 DEF o

LEMMA ZeroSetsTyped ==
  DOMAIN ZeroSets = FieldNames /\ \A f \in FieldNames : hasFieldType(f, ZeroSets[f])
<1>1. DOMAIN ZeroSets = FieldNames /\ \A f \in FieldNames : ZeroSets[f] = zero(f)
  BY DEF ZeroSets
<1> QED BY <1>1, ZeroTyped, Zenon

LEMMA ConfigTyped ==
  ASSUME NEW file \in ConfigFiles
  PROVE  LET cfg == applyDefaults(file)
         IN  DOMAIN cfg = ConfigFields /\ \A f \in ConfigFields : hasFieldType(f, cfg[f])
<1> DEFINE zeros == [f \in ConfigFields |-> zero(f)]
           read == over(file, zeros)
           filled == [f \in ConfigFields |->
                        IF read[f] = zero(f) /\ f \in DOMAIN ConfigDefaults
                          THEN ConfigDefaults[f] ELSE read[f]]
           policy == NormalizeStartupPreloadPolicy(filled["StartupPreloadPolicy"])
           cfg == [filled EXCEPT !.StartupPreloadPolicy = policy]
<1>1. applyDefaults(file) = cfg
  BY DEF applyDefaults
<1>2. ConfigFields \subseteq FieldNames
  BY DEF FieldNames
<1>3. DOMAIN zeros = ConfigFields /\ \A f \in ConfigFields : hasFieldType(f, zeros[f])
  <2>1. DOMAIN zeros = ConfigFields /\ \A f \in ConfigFields : zeros[f] = zero(f)
    OBVIOUS
  <2> HIDE DEF zeros
  <2> QED BY <1>2, <2>1, ZeroTyped, Zenon
<1> HIDE DEF zeros
<1>4. \A f \in DOMAIN file : hasFieldType(f, file[f])
  BY SettingsValuesAssumption
<1>5. DOMAIN read = ConfigFields /\ \A f \in ConfigFields : hasFieldType(f, read[f])
  BY <1>3, <1>4, OverTyped, Zenon
<1> HIDE DEF read
<1>6. \A f \in DOMAIN ConfigDefaults : hasFieldType(f, ConfigDefaults[f])
  BY DEF ConfigDefaults, hasFieldType, Numbers, Booleans, Strings
<1>7. DOMAIN filled = ConfigFields
      /\ \A f \in ConfigFields : filled[f] = read[f] \/ (f \in DOMAIN ConfigDefaults /\ filled[f] = ConfigDefaults[f])
  OBVIOUS
<1> HIDE DEF filled
<1>8. \A f \in ConfigFields : hasFieldType(f, filled[f])
  BY <1>5, <1>6, <1>7, Zenon
<1>9. hasFieldType("StartupPreloadPolicy", policy)
  BY DEF hasFieldType, Numbers, Booleans, Strings
<1> HIDE DEF policy
<1>10. DOMAIN cfg = ConfigFields /\ cfg["StartupPreloadPolicy"] = policy
       /\ \A f \in ConfigFields \ {"StartupPreloadPolicy"} : cfg[f] = filled[f]
  BY <1>7 DEF ConfigFields, StreamFields
<1> HIDE DEF cfg
<1>11. ASSUME NEW f \in ConfigFields PROVE hasFieldType(f, cfg[f])
  <2>1. CASE f = "StartupPreloadPolicy"
    BY <1>9, <1>10, <2>1
  <2>2. CASE f # "StartupPreloadPolicy"
    <3>1. cfg[f] = filled[f]
      BY <1>10, <2>2
    <3> QED BY <1>8, <3>1
  <2> QED BY <2>1, <2>2
<1> QED BY <1>1, <1>10, <1>11

LEMMA AppliedTyped ==
  ASSUME NEW file \in ConfigFiles, NEW s, Typed(s)
  PROVE  Typed(ApplyToBTSets(applyDefaults(file), s))
<1> DEFINE cfg == applyDefaults(file)
           o == over(cfg, s)
<1>1. DOMAIN s = FieldNames
  BY DEF Typed, AllFields
<1>2. \A f \in DOMAIN cfg : hasFieldType(f, cfg[f])
  BY ConfigTyped
<1>3. \A f \in DOMAIN s : hasFieldType(f, s[f])
  BY <1>1 DEF Typed
<1> HIDE DEF cfg
<1>4. o = [f \in FieldNames |-> o[f]] /\ \A f \in FieldNames : hasFieldType(f, o[f])
  <2>1. o = [f \in DOMAIN s |-> o[f]] /\ \A f \in DOMAIN s : hasFieldType(f, o[f])
    BY <1>2, <1>3, OverTyped
  <2> HIDE DEF o
  <2> QED BY <1>1, <2>1
<1> HIDE DEF o
<1>5. Typed(o)
  BY <1>4 DEF Typed, AllFields
<1>6. ApplyToBTSets(cfg, s) = ApplyCoreProfile(o)
  BY DEF ApplyToBTSets, o
<1> QED BY <1>5, <1>6, ProfileTyped DEF cfg

LEMMA LoadedTyped ==
  ASSUME NEW s, Typed(s)
  PROVE  Typed(ensureDefaults(s))
<1> DEFINE c == commonDefaults(s)
           x == normalizeCoreProfile(c["CoreProfile"])
           y == IF c["ReaderReadAHead"] < 5 THEN 5 ELSE c["ReaderReadAHead"]
           z == orDefault(c["WarmDiskCacheTTLMin"], 180)
           t == [c EXCEPT !.CoreProfile = x, !.ReaderReadAHead = y, !.WarmDiskCacheTTLMin = z]
<1>1. ensureDefaults(s) = t
  BY DEF ensureDefaults
<1>2. /\ AllFields(c)
      /\ \A f \in FieldNames \ Bounds : c[f] = common(f, s[f])
      /\ c["AdaptiveRAMinMB"] = (IF lowBound(s) > highBound(s) THEN highBound(s) ELSE lowBound(s))
      /\ c["AdaptiveRAMaxMB"] = highBound(s)
  BY CommonFields DEF Typed
<1> HIDE DEF c
<1>3. ASSUME NEW f \in FieldNames PROVE hasFieldType(f, c[f])
  <2>1. CASE f \notin Bounds
    BY <1>2, <2>1, NormRests DEF Typed
  <2>2. CASE f \in Bounds
    <3>1. s["AdaptiveRAMinMB"] \in Int /\ s["AdaptiveRAMaxMB"] \in Int
      BY FieldsAre DEF Typed, hasFieldType, Numbers, Booleans, Strings
    <3>2. lowBound(s) \in Int /\ highBound(s) \in Int
      BY <3>1 DEF lowBound, highBound, orDefault
    <3>3. c[f] \in Int
      BY <1>2, <2>2, <3>2 DEF Bounds
    <3> QED BY <2>2, <3>3 DEF hasFieldType, Bounds, Booleans
  <2> QED BY <2>1, <2>2
<1>4. c["ReaderReadAHead"] \in Int /\ c["WarmDiskCacheTTLMin"] \in Int
  BY <1>3, FieldsAre DEF hasFieldType, Numbers, Booleans, Strings
<1>5. y \in Int /\ z \in Int
  BY <1>4 DEF orDefault
<1>6. hasFieldType("CoreProfile", x) /\ hasFieldType("ReaderReadAHead", y) /\ hasFieldType("WarmDiskCacheTTLMin", z)
  BY <1>5 DEF hasFieldType, Numbers, Booleans, Strings
<1> HIDE DEF x, y, z
<1>7. DOMAIN c = FieldNames
  BY <1>2 DEF AllFields
<1>8. t = [f \in FieldNames |-> t[f]]
  <2>1. t = [f \in DOMAIN c |-> t[f]]
    OBVIOUS
  <2> HIDE DEF t
  <2> QED BY <1>7, <2>1
<1>9. /\ t["CoreProfile"] = x /\ t["ReaderReadAHead"] = y /\ t["WarmDiskCacheTTLMin"] = z
      /\ \A f \in FieldNames \ {"CoreProfile", "ReaderReadAHead", "WarmDiskCacheTTLMin"} : t[f] = c[f]
  BY <1>7, FieldsAre
<1> HIDE DEF t
<1>10. ASSUME NEW f \in FieldNames PROVE hasFieldType(f, t[f])
  BY <1>3, <1>6, <1>9
<1> QED BY <1>1, <1>8, <1>10 DEF Typed, AllFields

\* The settings a client has read.
ReadTyped(read) ==
  /\ DOMAIN read = FieldNames \ {"DebugMaxUnverifiedBytesMB"}
  /\ \A f \in DOMAIN read : hasFieldType(f, read[f])

LEMMA ReadsTyped ==
  ASSUME NEW s, Typed(s)
  PROVE  ReadTyped(mapSettingsFromBTSets(s))
<1> DEFINE r == mapSettingsFromBTSets(s)
<1>1. /\ DOMAIN r = FieldNames \ {"DebugMaxUnverifiedBytesMB"}
      /\ \A f \in DOMAIN r : r[f] = IF f = "StartupPreloadPolicy" THEN NormalizeStartupPreloadPolicy(s[f]) ELSE s[f]
  BY DEF mapSettingsFromBTSets
<1> HIDE DEF r
<1>2. ASSUME NEW f \in DOMAIN r PROVE hasFieldType(f, r[f])
  <2>1. CASE f = "StartupPreloadPolicy"
    BY <2>1 DEF hasFieldType, Numbers, Booleans, Strings
  <2>2. CASE f # "StartupPreloadPolicy"
    <3>1. r[f] = s[f]
      BY <1>1, <2>2
    <3> QED BY <1>1, <3>1 DEF Typed
  <2> QED BY <2>1, <2>2
<1> QED BY <1>1, <1>2 DEF ReadTyped, r

LEMMA RequestTyped ==
  ASSUME NEW read, ReadTyped(read), NEW patch \in Patches,
         NEW r, r.read = read, r.patch = patch
  PROVE  Typed(mapSettingsToBTSets(mergedRequest(r)))
<1> DEFINE m == over(patch, read)
           g == [m EXCEPT !.EnableDebug = read["EnableDebug"]]
           t == over(g, ZeroSets)
<1>1. mapSettingsToBTSets(mergedRequest(r)) = t
  BY DEF mapSettingsToBTSets, mergedRequest, mergeSettingsPatch
<1>2. \A f \in DOMAIN patch : hasFieldType(f, patch[f])
  BY SettingsValuesAssumption
<1>3. DOMAIN m = DOMAIN read /\ \A f \in DOMAIN read : hasFieldType(f, m[f])
  BY <1>2, OverTyped DEF ReadTyped
<1> HIDE DEF m
<1>4. DOMAIN g = DOMAIN m
      /\ \A f \in DOMAIN m : g[f] = IF f = "EnableDebug" THEN read["EnableDebug"] ELSE m[f]
  OBVIOUS
<1> HIDE DEF g
<1>5. \A f \in DOMAIN g : hasFieldType(f, g[f])
  <2> SUFFICES ASSUME NEW f \in DOMAIN g PROVE hasFieldType(f, g[f])
    OBVIOUS
  <2>1. CASE f = "EnableDebug"
    <3>1. g[f] = read[f]
      BY <1>4, <2>1
    <3> QED BY <1>3, <1>4, <3>1 DEF ReadTyped
  <2>2. CASE f # "EnableDebug"
    <3>1. g[f] = m[f]
      BY <1>4, <2>2
    <3> QED BY <1>3, <1>4, <3>1
  <2> QED BY <2>1, <2>2
<1>6. t = [f \in FieldNames |-> t[f]] /\ \A f \in FieldNames : hasFieldType(f, t[f])
  <2>1. t = [f \in DOMAIN ZeroSets |-> t[f]] /\ \A f \in DOMAIN ZeroSets : hasFieldType(f, t[f])
    BY <1>5, ZeroSetsTyped, OverTyped
  <2> HIDE DEF t
  <2> QED BY <2>1, ZeroSetsTyped
<1> HIDE DEF t
<1> QED BY <1>1, <1>6 DEF Typed, AllFields

\* The invariant: what is in memory and in requests is typed, what is saved at rest.
RestInv ==
  /\ Typed(current)
  /\ savedSets = NotSaved \/ Resting(savedSets)
  /\ DOMAIN request = SettingsClients
  /\ \A c \in SettingsClients :
       request[c].busy => ReadTyped(request[c].read) /\ request[c].patch \in Patches

\* Starts and saves normalise what is saved; requests change only what is in memory.
LEMMA RestStep ==
  ASSUME RestInv, [SettingsNext]_settingsVars
  PROVE  RestInv'
<1> DEFINE Quiet == /\ DOMAIN request = SettingsClients
                    /\ \A c \in SettingsClients :
                         request[c].busy => ReadTyped(request[c].read) /\ request[c].patch \in Patches
<1>0. Typed(current) /\ (savedSets = NotSaved \/ Resting(savedSets)) /\ Quiet
  BY DEF RestInv
<1>q. UNCHANGED request => Quiet'
  BY <1>0 DEF ReadTyped
<1>1. ASSUME NEW file \in ConfigFiles, StartServer(file) PROVE RestInv'
  <2> DEFINE cfg == applyDefaults(file)
             saved == IF savedSets = NotSaved THEN SetDefaultConfig ELSE savedSets
             loaded == IF savedSets = NotSaved THEN SetDefaultConfig ELSE ensureDefaults(savedSets)
  <2>1. /\ request' = request
        /\ \/ savedSets' = saved /\ current' = ApplyToBTSets(cfg, loaded)
           \/ savedSets' \in normalised(loaded) /\ current' = ApplyToBTSets(cfg, savedSets')
    BY <1>1 DEF StartServer
  <2>2. Resting(saved)
    BY <1>0, DefaultsRest
  <2>3. Typed(loaded)
    <3>1. Resting(savedSets) => Typed(savedSets)
      BY DEF Resting
    <3>2. Typed(SetDefaultConfig)
      BY DefaultsRest DEF Resting
    <3> QED BY <1>0, <3>1, <3>2, LoadedTyped
  <2> HIDE DEF saved, loaded
  <2>4. Resting(savedSets')
    BY <2>1, <2>2, <2>3, NormalisedRests
  <2>5. Typed(savedSets')
    BY <2>4 DEF Resting
  <2>6. Typed(current')
    BY <1>1, <2>1, <2>3, <2>5, AppliedTyped
  <2>7. Quiet'
    BY <1>q, <2>1
  <2> QED BY <2>4, <2>6, <2>7 DEF RestInv, Typed, Resting, AllFields
<1>2. ASSUME NEW c \in SettingsClients, NEW patch \in Patches, ReadCurrent(c, patch) PROVE RestInv'
  <2> DEFINE r == [busy |-> TRUE, patch |-> patch, read |-> mapSettingsFromBTSets(current)]
  <2>1. request' = [request EXCEPT ![c] = r] /\ UNCHANGED <<current, savedSets>>
    BY <1>2 DEF ReadCurrent
  <2>2. ReadTyped(r.read) /\ r.patch \in Patches
    BY <1>0, ReadsTyped
  <2> HIDE DEF r
  <2>3. DOMAIN request' = SettingsClients
    BY <1>0, <2>1
  <2>4. ASSUME NEW d \in SettingsClients, request'[d].busy
        PROVE  ReadTyped(request'[d].read) /\ request'[d].patch \in Patches
    <3>1. CASE d = c
      BY <1>0, <2>1, <2>2, <3>1
    <3>2. CASE d # c
      BY <1>0, <2>1, <2>4, <3>2
    <3> QED BY <3>1, <3>2
  <2>5. Typed(current') /\ (savedSets' = NotSaved \/ Resting(savedSets'))
    BY <1>0, <2>1
  <2> QED BY <2>3, <2>4, <2>5 DEF RestInv, Typed, Resting, AllFields, ReadTyped
<1>3. ASSUME NEW c \in SettingsClients, SetCurrent(c) PROVE RestInv'
  <2>1. /\ request[c].busy /\ request' = [request EXCEPT ![c] = NoRequest]
        /\ current' = mapSettingsToBTSets(mergedRequest(request[c]))
        /\ savedSets' = savedSets
    BY <1>3 DEF SetCurrent
  <2>2. Typed(current')
    BY <1>0, <2>1, RequestTyped
  <2>3. DOMAIN request' = SettingsClients
    BY <1>0, <2>1
  <2>4. ASSUME NEW d \in SettingsClients, request'[d].busy
        PROVE  ReadTyped(request'[d].read) /\ request'[d].patch \in Patches
    BY <1>0, <2>1, <2>4 DEF NoRequest
  <2> QED BY <1>0, <2>1, <2>2, <2>3, <2>4 DEF RestInv, Typed, Resting, AllFields, ReadTyped
<1>4. CASE SetDefault
  <2>1. current' = SetDefaultConfig /\ savedSets' = SetDefaultConfig /\ request' = request
    BY <1>4 DEF SetDefault
  <2>2. Resting(current') /\ Resting(savedSets')
    BY <2>1, DefaultsRest
  <2>3. Typed(current')
    BY <2>2 DEF Resting
  <2>4. Quiet'
    BY <1>q, <2>1
  <2> QED BY <2>2, <2>3, <2>4 DEF RestInv, Typed, Resting, AllFields
<1>5. CASE SavePreferences
  <2>1. current' \in normalised(current) /\ savedSets' = current' /\ request' = request
    BY <1>5 DEF SavePreferences
  <2>2. Resting(current')
    BY <1>0, <2>1, NormalisedRests
  <2>3. Typed(current')
    BY <2>2 DEF Resting
  <2>4. Resting(savedSets')
    BY <2>1, <2>2
  <2>5. Quiet'
    BY <1>q, <2>1
  <2> QED BY <2>3, <2>4, <2>5 DEF RestInv, Typed, Resting, AllFields
<1>6. CASE EndServer
  <2>1. request' = [c \in SettingsClients |-> NoRequest] /\ UNCHANGED <<current, savedSets>>
    BY <1>6 DEF EndServer
  <2>2. Quiet'
    BY <2>1 DEF NoRequest
  <2> QED BY <1>0, <2>1, <2>2 DEF RestInv, Typed, Resting, AllFields
<1>7. CASE UNCHANGED settingsVars
  <2>1. UNCHANGED <<current, savedSets, request>>
    BY <1>7 DEF settingsVars
  <2>2. Quiet'
    BY <1>q, <2>1
  <2> QED BY <1>0, <2>1, <2>2 DEF RestInv, Typed, Resting, AllFields
<1> QED BY <1>1, <1>2, <1>3, <1>4, <1>5, <1>6, <1>7 DEF SettingsNext

\* What is saved is in range and at rest, for any patches, configurations and spellings,
\* any number of clients and processors and any order of requests, resets, saves and
\* restarts (SetBTSets: ApplyCoreProfile and validateAndNormalize).
THEOREM SavedStaysAtRest == SettingsSpec => []SavedAtRest
<1>1. SettingsInit => RestInv
  <2> SUFFICES ASSUME SettingsInit PROVE RestInv
    OBVIOUS
  <2>1. /\ current = ZeroSets /\ savedSets = NotSaved
        /\ request = [c \in SettingsClients |-> NoRequest]
    BY DEF SettingsInit
  <2>2. AllFields(ZeroSets)
    BY DEF ZeroSets, AllFields
  <2>3. Typed(ZeroSets)
    BY <2>2, ZeroSetsTyped DEF Typed
  <2>4. \A c \in SettingsClients : ~request[c].busy
    BY <2>1 DEF NoRequest
  <2> QED BY <2>1, <2>3, <2>4 DEF RestInv
<1>2. RestInv /\ [SettingsNext]_settingsVars => RestInv'
  BY RestStep
<1>3. RestInv => SavedAtRest
  <2> SUFFICES ASSUME RestInv, savedSets # NotSaved
               PROVE  /\ savedSets["AdaptiveRAMinMB"] \in 1 .. savedSets["AdaptiveRAMaxMB"]
                      /\ savedSets["ReaderReadAHead"] \in 5 .. 100
                      /\ savedSets["PreloadCache"] \in 0 .. 100
                      /\ \A f \in NonNegativeFields \cup {"WarmDiskCacheTTLMin"} : savedSets[f] >= 0
                      /\ savedSets \in {[n EXCEPT !.PreloadCache = IF savedSets["PreloadCache"] = 0 THEN 0 ELSE n["PreloadCache"]] :
                                          n \in normalised(savedSets)}
    BY DEF SavedAtRest
  <2>1. Resting(savedSets)
    BY DEF RestInv
  <2> QED BY <2>1, RestKept
<1> QED BY <1>1, <1>2, <1>3, PTL DEF SettingsSpec

-----------------------------------------------------------------------------
(* CacheMetrics.  The invariant: what every worker has left is shaped like  *)
(* the operations are (Structure), and every sum is what the caches have of *)
(* it, with what the workers have taken or changed and not told (Balance).  *)

\* What unregisterMetrics takes one after the other; the others go with the subtraction.
TakenGauges == {"filled", "chunks", "readers", "resident", "trackedPieces"}

Dos == {"change", "tell", "set", "count", "countAll", "max", "get", "put", "pooled", "mark",
        "unmark", "unlock", "take", "unset", "subtract", "trim", "release", "diagnose",
        "undiagnose", "forget"}
Ons == Gauges \cup Counters \cup {"idle", "pool", "held", "cache", "registered", "all"}
Steps == [do : Dos, on : Ons, by : Int]

WorkerType ==
  [cache : MeteredCaches \cup {"none"}, steps : Seq(Steps), change : Int, late : BOOLEAN,
   locks : BOOLEAN, taken : [Gauges -> Int]]
MeterType ==
  [open : BOOLEAN, closed : BOOLEAN, registered : BOOLEAN, disk : BOOLEAN, held : BOOLEAN,
   marked : {"no", "yes", "nil"}, gauge : [Gauges -> Int], count : [Counters -> Int],
   gone : SUBSET Gauges]

\* What a step works on.
StepOk(a) ==
  /\ a.do \in {"change", "set", "tell"} => a.on \in Gauges
  /\ a.do = "take" => a.on \in TakenGauges
  /\ a.do \in {"count", "countAll"} => a.on \in Counters

\* A step that is only the first part of something ...
Opens(a) == a.do \in {"change", "set", "count", "mark", "unmark", "get", "put", "release"}
\* ... one that nothing is told or counted by ...
Calm(a) == a.do \notin {"tell", "countAll", "pooled"}
\* ... and what may follow on what.
Follows(a, b) ==
  /\ a.do \in {"change", "set"} => b.do = "tell" /\ b.on = a.on
  /\ a.do = "count" => b.do = "countAll" /\ b.on = a.on
  /\ a.do \in {"mark", "unmark"} => b.do = "change"
  /\ a.do \notin {"change", "set", "count"} => Calm(b)

Linked(s) ==
  /\ \A i \in 1..Len(s) : StepOk(s[i])
  /\ \A i \in 1..Len(s) : i + 1 <= Len(s) => Follows(s[i], s[i + 1])
Shape(s) == Linked(s) /\ (s # <<>> => ~Opens(s[Len(s)]))

Has(s, do) == \E i \in 1..Len(s) : s[i].do = do
Takes(s, g) == \E i \in 1..Len(s) : s[i].do = "take" /\ s[i].on = g

\* An unregistration: the flag, every gauge once, the subtraction.
Before(a, b) ==
  \/ a.do = "unset" /\ b.do \in {"take", "subtract"}
  \/ a.do = "take" /\ b.do = "subtract"
  \/ a.do = "take" /\ b.do = "take" /\ a.on # b.on
  \/ a.do \notin {"unset", "take", "subtract"}
  \/ b.do \notin {"unset", "take", "subtract"}
Ordered(s) ==
  /\ \A i, j \in 1..Len(s) : i < j => Before(s[i], s[j])
  /\ Has(s, "unset") \/ Has(s, "take") => Has(s, "subtract")
  /\ Has(s, "unset") => \A g \in TakenGauges : Takes(s, g)

WorkerOk(r) == r \in WorkerType /\ Shape(r.steps) /\ Ordered(r.steps)

CacheOk(m) ==
  /\ m \in MeterType
  /\ ~m.open => /\ ~m.closed /\ ~m.registered /\ m.gone = {}
                /\ \A g \in Gauges : m.gauge[g] = 0
                /\ \A k \in Counters : m.count[k] = 0
  /\ m.open /\ ~m.closed => m.registered
  /\ m.registered => m.gone = {}

\* How far the unregistration of a cache is, told by what is left of it.
Closes(r, m) ==
  /\ m.closed /\ "caches" \notin m.gone /\ "capacity" \notin m.gone
  /\ \A g \in TakenGauges : g \in m.gone <=> ~Takes(r.steps, g)
  /\ \A g \in Gauges : g \notin m.gone => r.taken[g] = 0
  /\ m.registered <=> Has(r.steps, "unset")

\* What a worker on a cache relies on.
Tied(r, m) ==
  /\ m.open
  /\ Has(r.steps, "subtract") => Closes(r, m)
  /\ Has(r.steps, "undiagnose") => m.closed
  /\ r.steps[1].do = "tell" /\ r.late => ~m.registered

\* What the cache has of a gauge that is in the global sum, and what a worker has taken
\* from the cache and not from the sum, or changed in the cache and not told.
part(m, g) == IF g \in m.gone THEN 0 ELSE m.gauge[g]
taking(r, g) == IF Has(r.steps, "subtract") THEN r.taken[g] ELSE 0
untold(r, g) ==
  IF r.steps # <<>> /\ r.steps[1].do = "tell" /\ r.steps[1].on = g /\ ~r.late THEN r.change ELSE 0
owes(r, g) == taking(r, g) - untold(r, g)
\* Counters, and the pool.
uncounted(r, k) ==
  IF r.steps # <<>> /\ r.steps[1].do = "countAll" /\ r.steps[1].on = k THEN 1 ELSE 0
unpooled(r) == IF r.steps # <<>> /\ r.steps[1].do = "pooled" THEN r.steps[1].by ELSE 0

\* What a gauge is short of in the sums.
unsaid(g) == IF g = "filled" THEN foundBytes ELSE 0

sumParts(g) == SumFunctionOnSet([c \in MeteredCaches |-> part(meter[c], g)], MeteredCaches)
sumOwed(g) == SumFunctionOnSet([w \in MeterWorkers |-> owes(worker[w], g)], MeterWorkers)
sumCounts(k) == SumFunctionOnSet([c \in MeteredCaches |-> meter[c].count[k]], MeteredCaches)
sumUncounted(k) == SumFunctionOnSet([w \in MeterWorkers |-> uncounted(worker[w], k)], MeterWorkers)
sumUnpooled == SumFunctionOnSet([w \in MeterWorkers |-> unpooled(worker[w])], MeterWorkers)

Structure ==
  /\ worker \in [MeterWorkers -> WorkerType] /\ meter \in [MeteredCaches -> MeterType]
  /\ \A w \in MeterWorkers :
       /\ WorkerOk(worker[w])
       /\ worker[w].steps # <<>> => worker[w].cache \in MeteredCaches /\ Tied(worker[w], meter[worker[w].cache])
  /\ \A c \in MeteredCaches : CacheOk(meter[c])
  /\ \A v, w \in MeterWorkers :
       Has(worker[v].steps, "subtract") /\ Has(worker[w].steps, "subtract")
         /\ worker[v].cache = worker[w].cache => v = w
  /\ \A c \in MeteredCaches : meter[c].closed =>
       \/ meter[c].gone = Gauges
       \/ \E w \in MeterWorkers : worker[w].cache = c /\ Has(worker[w].steps, "subtract")
  /\ \A c \in MeteredCaches : meter[c].open /\ ~meter[c].closed =>
       \/ c \in diagnosed
       \/ \E w \in MeterWorkers : worker[w].cache = c /\ Has(worker[w].steps, "diagnose")
  /\ diagnosed \subseteq {c \in MeteredCaches : meter[c].open}

Balance ==
  /\ total \in [Gauges -> Int] /\ totalCount \in [Counters -> Int]
  /\ pool \in 0..PoolLimit /\ pooled \in Int /\ idleMax = idleSeen
  /\ foundBytes \in Int
  /\ \A g \in Gauges \ straddled : total[g] + unsaid(g) = sumParts(g) + sumOwed(g)
  /\ \A k \in Counters : totalCount[k] + sumUncounted(k) = sumCounts(k)
  /\ pooled + sumUnpooled = pool

MetricsInv == Structure /\ Balance

-----------------------------------------------------------------------------
(* What is left of an operation, and what the operations do. *)

\* The steps that are left when the first n are done.
LEMMA Rest ==
  ASSUME NEW s \in Seq(Steps), NEW n \in 1..Len(s)
  PROVE  /\ SubSeq(s, n + 1, Len(s)) \in Seq(Steps)
         /\ Len(SubSeq(s, n + 1, Len(s))) = Len(s) - n
         /\ \A i \in 1..(Len(s) - n) : SubSeq(s, n + 1, Len(s))[i] = s[n + i]
         /\ \A i \in 1..Len(s) : s[i] \in Steps
<1>1. /\ \A i \in n + 1 .. Len(s) : s[i] \in Steps
      /\ \A i \in 1 .. Len(s) : s[i] \in Steps
  OBVIOUS
<1>2. Len(s) \in Nat
  OBVIOUS
<1> QED BY <1>1, <1>2, SubSeqProperties

After(s, t) ==
  /\ t \in Seq(Steps) /\ Shape(t) /\ Ordered(t)
  /\ Head(s) = s[1] /\ s[1] \in Steps /\ StepOk(s[1])
  /\ t # <<>> => Follows(s[1], t[1])
  /\ Opens(s[1]) => t # <<>>
  /\ \A d : Has(s, d) <=> s[1].do = d \/ Has(t, d)
  /\ \A g : Takes(s, g) <=> (s[1].do = "take" /\ s[1].on = g) \/ Takes(t, g)
  /\ Has(t, "unset") => s[1].do \notin {"unset", "take", "subtract"}
  /\ Has(t, "take") => s[1].do # "subtract"
  /\ Has(t, "subtract") => s[1].do # "subtract"
  /\ s[1].do = "take" => ~Takes(t, s[1].on)

LEMMA RestKeeps ==
  ASSUME NEW s \in Seq(Steps), s # <<>>, Shape(s), Ordered(s)
  PROVE  After(s, SubSeq(s, 1 + 1, Len(s)))
<1>0. PICK t : t = SubSeq(s, 1 + 1, Len(s))
  OBVIOUS
<1>1. Len(s) \in Nat /\ Len(s) >= 1 /\ Head(s) = s[1]
  OBVIOUS
<1>2. /\ t \in Seq(Steps) /\ Len(t) = Len(s) - 1
      /\ \A i \in 1..(Len(s) - 1) : t[i] = s[1 + i]
      /\ \A i \in 1..Len(s) : s[i] \in Steps
  <2>1. 1 \in 1..Len(s)
    BY <1>1
  <2> QED BY <1>0, <1>1, <2>1, Rest
<1>3. \A i \in 1..Len(t) : i + 1 \in 1..Len(s) /\ t[i] = s[i + 1]
  BY <1>1, <1>2
<1>4. Shape(t)
  <2>1. Linked(t)
    BY <1>1, <1>2, <1>3 DEF Linked, Shape
  <2>2. t # <<>> => t[Len(t)] = s[Len(s)]
    BY <1>1, <1>2
  <2> QED BY <2>1, <2>2 DEF Shape
<1>5. \A d : Has(s, d) <=> s[1].do = d \/ Has(t, d)
  <2> SUFFICES ASSUME NEW d PROVE Has(s, d) <=> s[1].do = d \/ Has(t, d)
    OBVIOUS
  <2>1. ASSUME NEW i \in 1..Len(s), i # 1 PROVE i - 1 \in 1..Len(t) /\ t[i - 1] = s[i]
    BY <1>1, <1>2, <2>1
  <2>2. ASSUME Has(s, d), s[1].do # d PROVE Has(t, d)
    <3>1. PICK i \in 1..Len(s) : s[i].do = d
      BY <2>2 DEF Has
    <3>2. i # 1
      BY <2>2, <3>1
    <3>3. i - 1 \in 1..Len(t) /\ t[i - 1].do = d
      BY <2>1, <3>1, <3>2
    <3> QED BY <3>3 DEF Has
  <2>3. s[1].do = d => Has(s, d)
    BY <1>1 DEF Has
  <2>4. Has(t, d) => Has(s, d)
    BY <1>3 DEF Has
  <2> QED BY <2>2, <2>3, <2>4
<1>6. \A g : Takes(s, g) <=> (s[1].do = "take" /\ s[1].on = g) \/ Takes(t, g)
  <2> SUFFICES ASSUME NEW g PROVE Takes(s, g) <=> (s[1].do = "take" /\ s[1].on = g) \/ Takes(t, g)
    OBVIOUS
  <2>1. ASSUME NEW i \in 1..Len(s), i # 1 PROVE i - 1 \in 1..Len(t) /\ t[i - 1] = s[i]
    BY <1>1, <1>2, <2>1
  <2>2. ASSUME Takes(s, g), ~(s[1].do = "take" /\ s[1].on = g) PROVE Takes(t, g)
    <3>1. PICK i \in 1..Len(s) : s[i].do = "take" /\ s[i].on = g
      BY <2>2 DEF Takes
    <3>2. i # 1
      BY <2>2, <3>1
    <3>3. i - 1 \in 1..Len(t) /\ t[i - 1].do = "take" /\ t[i - 1].on = g
      BY <2>1, <3>1, <3>2
    <3> QED BY <3>3 DEF Takes
  <2>3. s[1].do = "take" /\ s[1].on = g => Takes(s, g)
    BY <1>1 DEF Takes
  <2>4. Takes(t, g) => Takes(s, g)
    BY <1>3 DEF Takes
  <2> QED BY <2>2, <2>3, <2>4
<1>7. \A i, j \in 1..Len(t) : i < j => Before(t[i], t[j])
  <2> SUFFICES ASSUME NEW i \in 1..Len(t), NEW j \in 1..Len(t), i < j PROVE Before(t[i], t[j])
    OBVIOUS
  <2>1. i \in Int /\ j \in Int /\ i + 1 < j + 1
    OBVIOUS
  <2>2. Before(s[i + 1], s[j + 1])
    BY <1>3, <2>1 DEF Ordered
  <2> QED BY <1>3, <2>2
<1>8. \A i \in 1..Len(t) : Before(s[1], t[i])
  <2> SUFFICES ASSUME NEW i \in 1..Len(t) PROVE Before(s[1], t[i])
    OBVIOUS
  <2>1. 1 \in 1..Len(s) /\ 1 < i + 1
    BY <1>1
  <2> QED BY <1>3, <2>1 DEF Ordered
<1>9. /\ Has(t, "unset") => s[1].do \notin {"unset", "take", "subtract"}
      /\ Has(t, "take") => s[1].do # "subtract"
      /\ Has(t, "subtract") => s[1].do # "subtract"
      /\ s[1].do = "take" => ~Takes(t, s[1].on)
  BY <1>8 DEF Before, Has, Takes
<1>10. Ordered(t)
  <2>1. Has(t, "unset") \/ Has(t, "take") => Has(t, "subtract")
    BY <1>5, <1>9 DEF Ordered
  <2>2. Has(t, "unset") => \A g \in TakenGauges : Takes(t, g)
    BY <1>5, <1>6, <1>9 DEF Ordered
  <2> QED BY <1>7, <2>1, <2>2 DEF Ordered
<1>11. t # <<>> => Follows(s[1], t[1])
  <2> SUFFICES ASSUME t # <<>> PROVE Follows(s[1], t[1])
    OBVIOUS
  <2>1. 1 \in 1..Len(s) /\ 1 + 1 <= Len(s)
    BY <1>1, <1>2
  <2>2. Follows(s[1], s[1 + 1])
    BY <2>1 DEF Shape, Linked
  <2> QED BY <1>2, <2>1, <2>2
<1>12. Opens(s[1]) => t # <<>>
  <2>1. t = <<>> => Len(s) = 1
    BY <1>1, <1>2
  <2>2. ~Opens(s[Len(s)])
    BY DEF Shape
  <2> QED BY <2>1, <2>2, Zenon
<1>13. StepOk(s[1]) /\ s[1] \in Steps
  BY <1>1, <1>2 DEF Shape, Linked
<1>14. After(s, t)
  BY <1>1, <1>2, <1>4, <1>5, <1>6, <1>9, <1>10, <1>11, <1>12, <1>13 DEF After
<1> QED BY <1>0, <1>14

\* Steps that unregister nothing, from the first to the last.
Plain(s) == \A i \in 1..Len(s) : s[i].do \notin {"unset", "take", "subtract", "diagnose", "undiagnose"}
Work(s, first, last) ==
  /\ s \in Seq(Steps) /\ s # <<>> /\ Linked(s) /\ Plain(s)
  /\ s[1] = first /\ s[Len(s)] = last

\* Steps after steps.
LEMMA Joined ==
  ASSUME NEW p \in Seq(Steps), NEW t \in Seq(Steps), p # <<>>, t # <<>>,
         Linked(p), Linked(t), Follows(p[Len(p)], t[1])
  PROVE  /\ p \o t \in Seq(Steps) /\ p \o t # <<>> /\ Linked(p \o t)
         /\ (p \o t)[1] = p[1] /\ (p \o t)[Len(p \o t)] = t[Len(t)]
         /\ \A i \in 1..Len(p \o t) : \/ i \in 1..Len(p) /\ (p \o t)[i] = p[i]
                                      \/ i - Len(p) \in 1..Len(t) /\ (p \o t)[i] = t[i - Len(p)]
<1>1. Len(p) \in Nat /\ Len(t) \in Nat /\ Len(p) >= 1 /\ Len(t) >= 1
  OBVIOUS
<1>2. /\ p \o t \in Seq(Steps) /\ Len(p \o t) = Len(p) + Len(t)
      /\ \A i \in 1..(Len(p) + Len(t)) : (p \o t)[i] = IF i <= Len(p) THEN p[i] ELSE t[i - Len(p)]
  BY ConcatProperties
<1> DEFINE q == p \o t
           n == Len(p)
           k == Len(t)
<1>3. \A i \in 1..Len(q) : \/ i \in 1..n /\ q[i] = p[i]
                           \/ i - n \in 1..k /\ q[i] = t[i - n]
  BY <1>1, <1>2
<1>4. q[1] = p[1] /\ q[Len(q)] = t[k] /\ q # <<>>
  <2>1. n + k - n = k /\ ~(n + k <= n) /\ n + k \in 1..(n + k) /\ 1 \in 1..(n + k) /\ 1 <= n
    BY <1>1
  <2> QED BY <1>1, <1>2, <2>1
<1>5. \A i \in 1..Len(q) : StepOk(q[i])
  BY <1>3 DEF Linked
<1>6. ASSUME NEW i \in 1..Len(q), i + 1 <= Len(q) PROVE Follows(q[i], q[i + 1])
  <2>1. i \in Int /\ i + 1 \in 1..(n + k) /\ i \in 1..(n + k)
    BY <1>1, <1>2, <1>6
  <2>2. CASE i + 1 <= n
    <3>1. i \in 1..n /\ q[i] = p[i] /\ q[i + 1] = p[i + 1]
      BY <1>1, <1>2, <2>1, <2>2
    <3> QED BY <2>2, <3>1 DEF Linked
  <2>3. CASE i = n
    <3>1. q[i] = p[n] /\ q[i + 1] = t[1]
      <4>1. i <= n /\ ~(i + 1 <= n) /\ i + 1 - n = 1
        BY <1>1, <2>3
      <4>2. q[i] = p[i] /\ q[i + 1] = t[i + 1 - n]
        BY <1>2, <2>1, <4>1
      <4> QED BY <2>3, <4>1, <4>2
    <3> QED BY <3>1
  <2>4. CASE i > n
    <3>1. i - n \in 1..k /\ (i - n) + 1 <= k /\ i + 1 - n = (i - n) + 1
      BY <1>1, <1>2, <1>6, <2>1, <2>4
    <3>2. ~(i <= n) /\ ~(i + 1 <= n)
      BY <1>1, <2>1, <2>4
    <3>3. q[i] = t[i - n] /\ q[i + 1] = t[i + 1 - n]
      BY <1>2, <2>1, <3>2
    <3>4. Follows(t[i - n], t[(i - n) + 1])
      BY <3>1 DEF Linked
    <3> QED BY <3>1, <3>3, <3>4
  <2> QED BY <1>1, <2>1, <2>2, <2>3, <2>4
<1>7. Linked(q)
  BY <1>5, <1>6 DEF Linked
<1> QED BY <1>2, <1>3, <1>4, <1>7

LEMMA WorkJoined ==
  ASSUME NEW p, NEW t, NEW a, NEW b, NEW d, NEW e, Work(p, a, b), Work(t, d, e), Follows(b, d)
  PROVE  Work(p \o t, a, e)
<1>1. /\ p \o t \in Seq(Steps) /\ p \o t # <<>> /\ Linked(p \o t)
      /\ (p \o t)[1] = a /\ (p \o t)[Len(p \o t)] = e
      /\ \A i \in 1..Len(p \o t) : \/ i \in 1..Len(p) /\ (p \o t)[i] = p[i]
                                   \/ i - Len(p) \in 1..Len(t) /\ (p \o t)[i] = t[i - Len(p)]
  BY Joined DEF Work
<1>2. Plain(p \o t)
  BY <1>1 DEF Plain, Work
<1> QED BY <1>1, <1>2 DEF Work

LEMMA WorkOne ==
  ASSUME NEW a \in Steps, StepOk(a), a.do \notin {"unset", "take", "subtract", "diagnose", "undiagnose"}
  PROVE  Work(<<a>>, a, a)
<1>1. <<a>> \in Seq(Steps) /\ <<a>> # <<>> /\ Len(<<a>>) = 1 /\ <<a>>[1] = a
  OBVIOUS
<1> QED BY <1>1 DEF Work, Linked, Plain

LEMMA WorkTwo ==
  ASSUME NEW a \in Steps, NEW b \in Steps, StepOk(a), StepOk(b), Follows(a, b),
         a.do \notin {"unset", "take", "subtract", "diagnose", "undiagnose"},
         b.do \notin {"unset", "take", "subtract", "diagnose", "undiagnose"}
  PROVE  Work(<<a, b>>, a, b)
<1>1. /\ <<a, b>> \in Seq(Steps) /\ <<a, b>> # <<>> /\ Len(<<a, b>>) = 2
      /\ <<a, b>>[1] = a /\ <<a, b>>[2] = b
  OBVIOUS
<1>2. \A i \in 1..2 : i = 1 \/ i = 2
  OBVIOUS
<1> HIDE DEF Steps
<1>3. Linked(<<a, b>>)
  BY <1>1, <1>2 DEF Linked
<1>4. Plain(<<a, b>>)
  BY <1>1, <1>2 DEF Plain
<1> QED BY <1>1, <1>3, <1>4 DEF Work

\* What the operations do.
LEMMA StepsAre ==
  /\ \A g \in Gauges, by \in Int : \A do \in {"change", "set", "tell"} :
       step(do, g, by) \in Steps /\ StepOk(step(do, g, by))
  /\ \A k \in Counters : \A do \in {"count", "countAll"} :
       step(do, k, 1) \in Steps /\ StepOk(step(do, k, 1))
  /\ \A idle \in Int : step("max", "idle", idle) \in Steps /\ StepOk(step("max", "idle", idle))
  /\ \A do \in {"get", "put"} : step(do, "pool", 0) \in Steps /\ StepOk(step(do, "pool", 0))
  /\ \A do \in {"mark", "unmark"} : step(do, "resident", 0) \in Steps /\ StepOk(step(do, "resident", 0))
  /\ \A by \in {0, 1} : step("unlock", "held", by) \in Steps /\ StepOk(step("unlock", "held", by))
<1> USE DEF step, Steps, StepOk, Dos, Ons, Gauges
<1>1. \A g \in Gauges, by \in Int : \A do \in {"change", "set", "tell"} :
        step(do, g, by) \in Steps /\ StepOk(step(do, g, by))
  OBVIOUS
<1>2. \A k \in Counters : \A do \in {"count", "countAll"} :
        step(do, k, 1) \in Steps /\ StepOk(step(do, k, 1))
  OBVIOUS
<1>3. \A idle \in Int : step("max", "idle", idle) \in Steps /\ StepOk(step("max", "idle", idle))
  OBVIOUS
<1>4. \A do \in {"get", "put"} : step(do, "pool", 0) \in Steps /\ StepOk(step(do, "pool", 0))
  OBVIOUS
<1>5. \A do \in {"mark", "unmark"} : step(do, "resident", 0) \in Steps /\ StepOk(step(do, "resident", 0))
  OBVIOUS
<1>6. \A by \in {0, 1} : step("unlock", "held", by) \in Steps /\ StepOk(step("unlock", "held", by))
  OBVIOUS
<1> QED BY <1>1, <1>2, <1>3, <1>4, <1>5, <1>6

LEMMA WorkAdd ==
  ASSUME NEW g \in Gauges, NEW by \in Int
  PROVE  Work(add(g, by), step("change", g, by), step("tell", g, 0))
<1> DEFINE a == step("change", g, by)
           b == step("tell", g, 0)
<1>1. a \in Steps /\ StepOk(a) /\ b \in Steps /\ StepOk(b)
  BY StepsAre
<1>2. Follows(a, b) /\ a.do = "change" /\ b.do = "tell"
  BY DEF Follows, step, Calm
<1> HIDE DEF a, b
<1>3. Work(<<a, b>>, a, b)
  BY <1>1, <1>2, WorkTwo
<1> QED BY <1>3 DEF add, a, b

LEMMA WorkSet ==
  ASSUME NEW g \in Gauges, NEW n \in Int
  PROVE  Work(<<step("set", g, n), step("tell", g, 0)>>, step("set", g, n), step("tell", g, 0))
<1> DEFINE a == step("set", g, n)
           b == step("tell", g, 0)
<1>1. a \in Steps /\ StepOk(a) /\ b \in Steps /\ StepOk(b)
  BY StepsAre
<1>2. Follows(a, b) /\ a.do = "set" /\ b.do = "tell"
  BY DEF Follows, step, Calm
<1> HIDE DEF a, b
<1>3. Work(<<a, b>>, a, b)
  BY <1>1, <1>2, WorkTwo
<1> QED BY <1>3 DEF a, b

LEMMA WorkRecord ==
  ASSUME NEW k \in Counters
  PROVE  Work(record(k), step("count", k, 1), step("countAll", k, 1))
<1> DEFINE a == step("count", k, 1)
           b == step("countAll", k, 1)
<1>1. a \in Steps /\ StepOk(a) /\ b \in Steps /\ StepOk(b)
  BY StepsAre
<1>2. Follows(a, b) /\ a.do = "count" /\ b.do = "countAll"
  BY DEF Follows, step, Calm
<1> HIDE DEF a, b
<1>3. Work(<<a, b>>, a, b)
  BY <1>1, <1>2, WorkTwo
<1> QED BY <1>3 DEF record, a, b

LEMMA WorkPriorityUpdate ==
  ASSUME NEW k \in Counters, NEW n \in Int
  PROVE  Work(recordPriorityUpdate(k, n), step("count", k, 1), step("tell", "trackedPieces", 0))
<1>1. Follows(step("countAll", k, 1), step("set", "trackedPieces", n))
  BY DEF Follows, step, Calm
<1>2. "trackedPieces" \in Gauges
  BY DEF Gauges
<1> QED BY <1>1, <1>2, WorkRecord, WorkSet, WorkJoined DEF recordPriorityUpdate, setTrackedPriorityPieces

LEMMA WorkDemotion ==
  ASSUME NEW idle \in Int
  PROVE  Work(addActiveReaders(-1) \o recordReaderIdleDemotion(idle),
              step("change", "readers", -1), step("max", "idle", idle))
<1> DEFINE a == step("max", "idle", idle)
<1>1. Work(<<a>>, a, a)
  <2>1. a \in Steps /\ StepOk(a) /\ a.do = "max"
    BY StepsAre DEF step
  <2> HIDE DEF a
  <2> QED BY <2>1, WorkOne
<1>2. Follows(step("tell", "readers", 0), a)
  BY DEF Follows, step, Calm
<1>3. Work(addActiveReaders(-1), step("change", "readers", -1), step("tell", "readers", 0))
  BY WorkAdd DEF addActiveReaders, Gauges
<1> QED BY <1>1, <1>2, <1>3, WorkJoined DEF recordReaderIdleDemotion

\* Both operations on the chunk of a piece.
LEMMA WorkDisk ==
  ASSUME NEW middle \in {"mark", "unmark"}, NEW by \in Int, NEW held \in {0, 1}
  PROVE  Work(addFilled(by) \o <<step(middle, "resident", 0)>> \o addResidentPieces(by)
                \o <<step("unlock", "held", held)>>,
              step("change", "filled", by), step("unlock", "held", held))
<1> DEFINE b == step(middle, "resident", 0)
           c == step("unlock", "held", held)
<1>1. /\ b \in Steps /\ StepOk(b) /\ c \in Steps /\ StepOk(c)
      /\ b.do \in {"mark", "unmark"} /\ c.do = "unlock"
  BY StepsAre DEF step
<1>2. /\ Follows(step("tell", "filled", 0), b) /\ Follows(b, step("change", "resident", by))
      /\ Follows(step("tell", "resident", 0), c)
  BY DEF Follows, step, Calm
<1> HIDE DEF b, c
<1>3. Work(<<b>>, b, b) /\ Work(<<c>>, c, c)
  BY <1>1, WorkOne
<1>4. /\ Work(addFilled(by), step("change", "filled", by), step("tell", "filled", 0))
      /\ Work(addResidentPieces(by), step("change", "resident", by), step("tell", "resident", 0))
  BY WorkAdd DEF addFilled, addResidentPieces, Gauges
<1>5. Work(addFilled(by) \o <<b>>, step("change", "filled", by), b)
  BY <1>2, <1>3, <1>4, WorkJoined
<1>6. Work(addFilled(by) \o <<b>> \o addResidentPieces(by), step("change", "filled", by), step("tell", "resident", 0))
  BY <1>2, <1>4, <1>5, WorkJoined
<1>7. Work(addFilled(by) \o <<b>> \o addResidentPieces(by) \o <<c>>, step("change", "filled", by), c)
  BY <1>2, <1>3, <1>6, WorkJoined
<1> QED BY <1>7 DEF b, c

\* A chunk is moved first.
LEMMA WorkChunk ==
  ASSUME NEW first \in {"get", "put"}, NEW by \in Int, NEW p, NEW b, Work(p, step("change", "filled", by), b)
  PROVE  Work(<<step(first, "pool", 0)>> \o addInMemoryChunks(by) \o p, step(first, "pool", 0), b)
<1> DEFINE a == step(first, "pool", 0)
<1>1. a \in Steps /\ StepOk(a) /\ a.do \in {"get", "put"}
  BY StepsAre DEF step
<1>2. Follows(a, step("change", "chunks", by)) /\ Follows(step("tell", "chunks", 0), step("change", "filled", by))
  BY DEF Follows, step, Calm
<1> HIDE DEF a
<1>3. Work(<<a>>, a, a)
  BY <1>1, WorkOne
<1>4. Work(addInMemoryChunks(by), step("change", "chunks", by), step("tell", "chunks", 0))
  BY WorkAdd DEF addInMemoryChunks, Gauges
<1>5. Work(<<a>> \o addInMemoryChunks(by), a, step("tell", "chunks", 0))
  BY <1>2, <1>3, <1>4, WorkJoined
<1>6. Work(<<a>> \o addInMemoryChunks(by) \o p, a, b)
  BY <1>2, <1>5, WorkJoined
<1> QED BY <1>6 DEF a

LEMMA WorkWrite ==
  /\ Work(writeDisk, step("change", "filled", 1), step("unlock", "held", 1))
  /\ Work(writeChunk, step("get", "pool", 0), step("unlock", "held", 1))
<1>1. Work(writeDisk, step("change", "filled", 1), step("unlock", "held", 1))
  BY WorkDisk DEF writeDisk
<1> QED BY <1>1, WorkChunk DEF writeChunk

LEMMA WorkRelease ==
  /\ Work(releaseDisk, step("change", "filled", -1), step("unlock", "held", 0))
  /\ Work(releaseChunk, step("put", "pool", 0), step("unlock", "held", 0))
<1>1. Work(releaseDisk, step("change", "filled", -1), step("unlock", "held", 0))
  BY WorkDisk DEF releaseDisk
<1> QED BY <1>1, WorkChunk DEF releaseChunk

\* Steps that unregister nothing, put before others or on their own.
LEMMA WorkBefore ==
  ASSUME NEW p, NEW a, NEW b, Work(p, a, b), ~Opens(b), NEW t \in Seq(Steps), t # <<>>, Shape(t), Ordered(t),
         Follows(b, t[1])
  PROVE  /\ p \o t \in Seq(Steps) /\ p \o t # <<>> /\ Shape(p \o t) /\ Ordered(p \o t) /\ (p \o t)[1] = a
         /\ \A d \in {"unset", "take", "subtract", "diagnose", "undiagnose"} : Has(p \o t, d) <=> Has(t, d)
         /\ \A g : Takes(p \o t, g) <=> Takes(t, g)
<1> DEFINE q == p \o t
<1>1. /\ q \in Seq(Steps) /\ q # <<>> /\ Linked(q) /\ q[1] = a /\ q[Len(q)] = t[Len(t)]
      /\ \A i \in 1..Len(q) : \/ i \in 1..Len(p) /\ q[i] = p[i]
                              \/ i - Len(p) \in 1..Len(t) /\ q[i] = t[i - Len(p)]
  BY Joined DEF Work, Shape
<1>2. /\ Len(p) \in Nat /\ Len(t) \in Nat
      /\ \A i \in 1..Len(t) : i + Len(p) \in 1..Len(q) /\ q[i + Len(p)] = t[i]
  <2>1. p \in Seq(Steps)
    BY DEF Work
  <2>2. /\ Len(q) = Len(p) + Len(t) /\ Len(p) \in Nat /\ Len(t) \in Nat
        /\ \A i \in 1..(Len(p) + Len(t)) : q[i] = IF i <= Len(p) THEN p[i] ELSE t[i - Len(p)]
    BY <2>1, ConcatProperties
  <2>3. ASSUME NEW i \in 1..Len(t)
        PROVE  i + Len(p) \in 1..Len(q) /\ ~(i + Len(p) <= Len(p)) /\ i + Len(p) - Len(p) = i
    BY <2>2
  <2> QED BY <2>2, <2>3
<1>3. \A i \in 1..Len(p) : p[i].do \notin {"unset", "take", "subtract", "diagnose", "undiagnose"}
  BY DEF Work, Plain
<1> HIDE DEF q
<1>4. \A d \in {"unset", "take", "subtract", "diagnose", "undiagnose"} : Has(q, d) <=> Has(t, d)
  <2> SUFFICES ASSUME NEW d \in {"unset", "take", "subtract", "diagnose", "undiagnose"}
               PROVE  Has(q, d) <=> Has(t, d)
    OBVIOUS
  <2>1. ASSUME Has(q, d) PROVE Has(t, d)
    <3>1. PICK i \in 1..Len(q) : q[i].do = d
      BY <2>1 DEF Has
    <3>2. i - Len(p) \in 1..Len(t) /\ t[i - Len(p)].do = d
      BY <1>1, <1>3, <3>1
    <3> QED BY <3>2 DEF Has
  <2>2. Has(t, d) => Has(q, d)
    BY <1>2 DEF Has
  <2> QED BY <2>1, <2>2
<1>5. \A g : Takes(q, g) <=> Takes(t, g)
  <2> SUFFICES ASSUME NEW g PROVE Takes(q, g) <=> Takes(t, g)
    OBVIOUS
  <2>1. ASSUME Takes(q, g) PROVE Takes(t, g)
    <3>1. PICK i \in 1..Len(q) : q[i].do = "take" /\ q[i].on = g
      BY <2>1 DEF Takes
    <3>2. i - Len(p) \in 1..Len(t) /\ t[i - Len(p)].do = "take" /\ t[i - Len(p)].on = g
      BY <1>1, <1>3, <3>1
    <3> QED BY <3>2 DEF Takes
  <2>2. Takes(t, g) => Takes(q, g)
    BY <1>2 DEF Takes
  <2> QED BY <2>1, <2>2
<1>6. Ordered(q)
  <2>1. ASSUME NEW i \in 1..Len(q), NEW j \in 1..Len(q), i < j PROVE Before(q[i], q[j])
    <3>1. CASE i \in 1..Len(p) /\ q[i] = p[i]
      BY <1>3, <3>1 DEF Before
    <3>2. CASE j \in 1..Len(p) /\ q[j] = p[j]
      BY <1>3, <3>2 DEF Before
    <3>3. CASE i - Len(p) \in 1..Len(t) /\ q[i] = t[i - Len(p)] /\ j - Len(p) \in 1..Len(t) /\ q[j] = t[j - Len(p)]
      <4>1. i - Len(p) < j - Len(p)
        BY <1>2, <2>1
      <4> QED BY <3>3, <4>1 DEF Ordered
    <3> QED BY <1>1, <3>1, <3>2, <3>3
  <2>2. /\ Has(q, "unset") \/ Has(q, "take") => Has(q, "subtract")
        /\ Has(q, "unset") => \A g \in TakenGauges : Takes(q, g)
    BY <1>4, <1>5 DEF Ordered
  <2> QED BY <2>1, <2>2 DEF Ordered
<1>7. Shape(q)
  BY <1>1 DEF Shape
<1> QED BY <1>1, <1>4, <1>5, <1>6, <1>7 DEF q

LEMMA WorkAlone ==
  ASSUME NEW p, NEW a, NEW b, Work(p, a, b), ~Opens(b)
  PROVE  /\ p \in Seq(Steps) /\ p # <<>> /\ Shape(p) /\ Ordered(p) /\ p[1] = a
         /\ \A d \in {"unset", "take", "subtract", "diagnose", "undiagnose"} : ~Has(p, d)
<1>1. \A i \in 1..Len(p) : p[i].do \notin {"unset", "take", "subtract", "diagnose", "undiagnose"}
  BY DEF Work, Plain
<1>2. \A d \in {"unset", "take", "subtract", "diagnose", "undiagnose"} : ~Has(p, d)
  BY <1>1 DEF Has
<1>3. Ordered(p)
  BY <1>1, <1>2 DEF Ordered, Before
<1> QED BY <1>2, <1>3 DEF Work, Shape

LEMMA Concat11 ==
  ASSUME NEW a \in Seq(Steps), NEW b \in Seq(Steps), NEW c \in Seq(Steps),
         Len(a) = 2, Len(b) = 8, Len(c) = 1
  PROVE  /\ a \o b \o c \in Seq(Steps) /\ Len(a \o b \o c) = 11
         /\ (a \o b \o c)[1] = a[1] /\ (a \o b \o c)[2] = a[2]
         /\ \A i \in 1..8 : (a \o b \o c)[i + 2] = b[i]
         /\ (a \o b \o c)[11] = c[1]
<1>1. PICK d \in Seq(Steps) : d = a \o b
  BY ConcatProperties
<1>2. PICK e \in Seq(Steps) : e = d \o c
  BY ConcatProperties
<1>3. /\ Len(d) = Len(a) + Len(b)
      /\ \A i \in 1..(Len(a) + Len(b)) : d[i] = IF i <= Len(a) THEN a[i] ELSE b[i - Len(a)]
  BY <1>1, ConcatProperties
<1>4. /\ Len(e) = Len(d) + Len(c)
      /\ \A i \in 1..(Len(d) + Len(c)) : e[i] = IF i <= Len(d) THEN d[i] ELSE c[i - Len(d)]
  BY <1>2, ConcatProperties
<1>5. Len(d) = 10 /\ \A i \in 1..10 : d[i] = IF i <= 2 THEN a[i] ELSE b[i - 2]
  BY <1>3
<1>6. Len(e) = 11 /\ \A i \in 1..11 : e[i] = IF i <= 10 THEN d[i] ELSE c[i - 10]
  BY <1>4, <1>5
<1>7. \A i \in 1..8 : i + 2 \in 1..10 /\ ~(i + 2 <= 2) /\ i + 2 - 2 = i /\ i + 2 \in 1..11 /\ i + 2 <= 10
  OBVIOUS
<1>8. \A i \in 1..8 : e[i + 2] = b[i]
  BY <1>5, <1>6, <1>7
<1>9. e[1] = a[1] /\ e[2] = a[2] /\ e[11] = c[1]
  BY <1>5, <1>6
<1> QED BY <1>1, <1>2, <1>6, <1>8, <1>9

\* Close: what it begins with, and what it says of the unregistration to come.
LEMMA CloseSteps ==
  /\ closeCache \in Seq(Steps) /\ closeCache # <<>> /\ Shape(closeCache) /\ Ordered(closeCache)
  /\ closeCache[1] = step("release", "held", 0)
  /\ Has(closeCache, "subtract") /\ Has(closeCache, "unset")
  /\ ~Has(closeCache, "diagnose")
  /\ \A g \in TakenGauges : Takes(closeCache, g)
<1> DEFINE u == unregisterMetrics
           front == <<step("release", "held", 0), step("undiagnose", "cache", 0)>>
           back == <<step("forget", "resident", 0)>>
           q == front \o u \o back
<1>1. /\ Len(u) = 8 /\ u[1] = step("unset", "registered", 0) /\ u[2] = step("take", "filled", 0)
      /\ u[3] = step("take", "chunks", 0) /\ u[4] = step("take", "readers", 0)
      /\ u[5] = step("take", "resident", 0) /\ u[6] = step("take", "trackedPieces", 0)
      /\ u[7] = step("subtract", "all", 0) /\ u[8] = step("trim", "pool", 0)
  BY DEF unregisterMetrics
<1>2. front \in Seq(Steps) /\ u \in Seq(Steps) /\ back \in Seq(Steps)
  BY DEF unregisterMetrics, step, Steps, Dos, Ons, Gauges
<1>3. Len(front) = 2 /\ Len(back) = 1
  OBVIOUS
<1>4. /\ front[1] = step("release", "held", 0) /\ front[2] = step("undiagnose", "cache", 0)
      /\ back[1] = step("forget", "resident", 0)
  OBVIOUS
<1> HIDE DEF front, u, back
<1>5. /\ q \in Seq(Steps) /\ Len(q) = 11
      /\ q[1] = front[1] /\ q[2] = front[2] /\ \A i \in 1..8 : q[i + 2] = u[i]
      /\ q[11] = back[1]
  <2>1. Len(u) = 8
    BY <1>1
  <2>2. PICK a \in Seq(Steps) : a = front
    BY <1>2
  <2>3. PICK b \in Seq(Steps) : b = u
    BY <1>2
  <2>4. PICK c \in Seq(Steps) : c = back
    BY <1>2
  <2>5. Len(a) = 2 /\ Len(b) = 8 /\ Len(c) = 1
    BY <1>3, <2>1, <2>2, <2>3, <2>4
  <2>6. /\ a \o b \o c \in Seq(Steps) /\ Len(a \o b \o c) = 11
        /\ (a \o b \o c)[1] = a[1] /\ (a \o b \o c)[2] = a[2]
        /\ \A i \in 1..8 : (a \o b \o c)[i + 2] = b[i]
        /\ (a \o b \o c)[11] = c[1]
    BY <2>5, Concat11
  <2> QED BY <2>2, <2>3, <2>4, <2>6 DEF q
<1> HIDE DEF q
<1>6. /\ q[1] = step("release", "held", 0) /\ q[2] = step("undiagnose", "cache", 0)
      /\ q[11] = step("forget", "resident", 0)
  BY <1>4, <1>5
<1>7. /\ q[3] = u[1] /\ q[4] = u[2] /\ q[5] = u[3] /\ q[6] = u[4]
      /\ q[7] = u[5] /\ q[8] = u[6] /\ q[9] = u[7] /\ q[10] = u[8]
  <2>1. /\ q[1 + 2] = u[1] /\ q[2 + 2] = u[2] /\ q[3 + 2] = u[3] /\ q[4 + 2] = u[4]
        /\ q[5 + 2] = u[5] /\ q[6 + 2] = u[6] /\ q[7 + 2] = u[7] /\ q[8 + 2] = u[8]
    BY <1>5
  <2> QED BY <2>1
<1>8. q = closeCache
  BY DEF closeCache, q, u, front, back
<1>9. /\ q[1].do = "release" /\ q[2].do = "undiagnose" /\ q[3].do = "unset"
      /\ q[4].do = "take" /\ q[4].on = "filled" /\ q[5].do = "take" /\ q[5].on = "chunks"
      /\ q[6].do = "take" /\ q[6].on = "readers" /\ q[7].do = "take" /\ q[7].on = "resident"
      /\ q[8].do = "take" /\ q[8].on = "trackedPieces" /\ q[9].do = "subtract"
      /\ q[10].do = "trim" /\ q[11].do = "forget"
  BY <1>1, <1>6, <1>7 DEF step
<1>10. Has(q, "subtract") /\ Has(q, "unset")
  BY <1>5, <1>9 DEF Has
<1>11. \A i \in 1..11 : i \in {1, 2, 3, 4, 5, 6, 7, 8, 9, 10, 11}
  OBVIOUS
<1>12. \A i \in 1..11 : q[i].do \in {"release", "undiagnose", "unset", "take", "subtract", "trim", "forget"}
  BY <1>9, <1>11
<1>13. ~Has(q, "diagnose")
  BY <1>5, <1>12 DEF Has
<1>14. \A g \in TakenGauges : Takes(q, g)
  BY <1>5, <1>9 DEF Takes, TakenGauges
<1>15. Shape(q)
  <2>1. \A i \in 1..11 : StepOk(q[i])
    BY <1>9, <1>11 DEF StepOk, TakenGauges
  <2>2. \A i \in 1..11 : \A j \in 1..11 : Follows(q[i], q[j])
    BY <1>12 DEF Follows, Calm
  <2>3. ~Opens(q[11])
    BY <1>9 DEF Opens
  <2> QED BY <1>5, <2>1, <2>2, <2>3 DEF Shape, Linked
<1>16. Ordered(q)
  <2>1. \A i, j \in 1..11 : i < j => Before(q[i], q[j])
    <3> SUFFICES ASSUME NEW i \in 1..11, NEW j \in 1..11, i < j PROVE Before(q[i], q[j])
      OBVIOUS
    <3>1. CASE i \in {1, 2}
      BY <1>9, <3>1 DEF Before
    <3>2. CASE i = 3
      <4>1. j \in {4, 5, 6, 7, 8, 9, 10, 11}
        BY <3>2
      <4> QED BY <1>9, <3>2, <4>1 DEF Before
    <3>3. CASE i = 4
      <4>1. j \in {5, 6, 7, 8, 9, 10, 11}
        BY <3>3
      <4> QED BY <1>9, <3>3, <4>1 DEF Before
    <3>4. CASE i = 5
      <4>1. j \in {6, 7, 8, 9, 10, 11}
        BY <3>4
      <4> QED BY <1>9, <3>4, <4>1 DEF Before
    <3>5. CASE i = 6
      <4>1. j \in {7, 8, 9, 10, 11}
        BY <3>5
      <4> QED BY <1>9, <3>5, <4>1 DEF Before
    <3>6. CASE i = 7
      <4>1. j \in {8, 9, 10, 11}
        BY <3>6
      <4> QED BY <1>9, <3>6, <4>1 DEF Before
    <3>7. CASE i = 8
      <4>1. j \in {9, 10, 11}
        BY <3>7
      <4> QED BY <1>9, <3>7, <4>1 DEF Before
    <3>8. CASE i = 9
      <4>1. j \in {10, 11}
        BY <3>8
      <4> QED BY <1>9, <3>8, <4>1 DEF Before
    <3>9. CASE i \in {10, 11}
      BY <1>9, <3>9 DEF Before
    <3>10. i \in {1, 2, 3, 4, 5, 6, 7, 8, 9, 10, 11}
      BY <1>11
    <3> QED BY <3>1, <3>2, <3>3, <3>4, <3>5, <3>6, <3>7, <3>8, <3>9, <3>10
  <2>2. Has(q, "unset") \/ Has(q, "take") => Has(q, "subtract")
    BY <1>10
  <2>3. Has(q, "unset") => \A g \in TakenGauges : Takes(q, g)
    BY <1>14
  <2> QED BY <1>5, <2>1, <2>2, <2>3 DEF Ordered
<1>17. q # <<>>
  BY <1>10 DEF Has
<1> QED BY <1>5, <1>6, <1>8, <1>10, <1>13, <1>14, <1>15, <1>16, <1>17

-----------------------------------------------------------------------------
(* A step of a worker: what it keeps of the structure and of the numbers. *)

\* A step of worker w on cache c, which leaves it with r and the cache with m.
MeterMove(w, c, r, m) ==
  /\ worker' = [worker EXCEPT ![w] = r] /\ meter' = [meter EXCEPT ![c] = m]
  /\ worker[w].steps # <<>> => worker[w].cache = c
  /\ r.cache = c /\ WorkerOk(r) /\ CacheOk(m) /\ (r.steps # <<>> => Tied(r, m))
  /\ meter[c].open => m.open
  /\ meter[c].closed => m.closed
  /\ meter[c].open => \/ m.gone = meter[c].gone /\ m.registered = meter[c].registered
                      \/ Has(worker[w].steps, "subtract") /\ (m.registered => meter[c].registered)
  /\ Has(r.steps, "subtract") => Has(worker[w].steps, "subtract") \/ ~meter[c].closed
  /\ m.closed => \/ m.gone = Gauges
                 \/ Has(r.steps, "subtract")
                 \/ meter[c].closed /\ m.gone = meter[c].gone /\ ~Has(worker[w].steps, "subtract")
  /\ m.open /\ ~m.closed => \/ c \in diagnosed'
                            \/ Has(r.steps, "diagnose")
                            \/ meter[c].open /\ ~Has(worker[w].steps, "diagnose") /\ c \notin diagnosed
  /\ \A d \in MeteredCaches \ {c} : d \in diagnosed' <=> d \in diagnosed
  /\ diagnosed' \subseteq diagnosed \cup {c}
  /\ c \in diagnosed' => m.open

LEMMA StructureStep ==
  ASSUME Structure, NEW w \in MeterWorkers, NEW c \in MeteredCaches, NEW r, NEW m, MeterMove(w, c, r, m)
  PROVE  Structure'
<1>1. /\ worker' = [worker EXCEPT ![w] = r] /\ meter' = [meter EXCEPT ![c] = m]
      /\ WorkerOk(r) /\ CacheOk(m) /\ r \in WorkerType /\ m \in MeterType
      /\ worker \in [MeterWorkers -> WorkerType] /\ meter \in [MeteredCaches -> MeterType]
  BY DEF MeterMove, Structure, WorkerOk, CacheOk
<1>2. /\ worker' \in [MeterWorkers -> WorkerType] /\ meter' \in [MeteredCaches -> MeterType]
      /\ worker'[w] = r /\ \A v \in MeterWorkers \ {w} : worker'[v] = worker[v]
      /\ meter'[c] = m /\ \A d \in MeteredCaches \ {c} : meter'[d] = meter[d]
  BY <1>1
<1>3. \A v \in MeterWorkers : \A d : Has(worker[v].steps, d) => worker[v].steps # <<>>
  BY DEF Has
<1>4. /\ worker[w].steps # <<>> => worker[w].cache = c
      /\ r.cache = c
  BY DEF MeterMove
<1>5. ASSUME NEW v \in MeterWorkers
      PROVE  /\ WorkerOk(worker'[v])
             /\ worker'[v].steps # <<>> =>
                  worker'[v].cache \in MeteredCaches /\ Tied(worker'[v], meter'[worker'[v].cache])
  <2>1. CASE v = w
    BY <1>1, <1>2, <1>4, <2>1 DEF MeterMove
  <2>2. CASE v # w /\ worker[v].cache # c
    BY <1>2, <2>2 DEF Structure
  <2>3. CASE v # w /\ worker[v].cache = c
    <3>1. worker'[v] = worker[v] /\ WorkerOk(worker[v])
      BY <1>2, <2>3 DEF Structure
    <3>2. ASSUME worker[v].steps # <<>> PROVE Tied(worker[v], m)
      <4>1. Tied(worker[v], meter[c])
        BY <2>3, <3>2 DEF Structure
      <4>2. /\ meter[c].open /\ m.open
            /\ Has(worker[v].steps, "undiagnose") => m.closed
        BY <4>1 DEF Tied, MeterMove
      <4>3. worker[v].steps[1].do = "tell" /\ worker[v].late => ~m.registered
        BY <4>1, <4>2 DEF Tied, MeterMove
      <4>4. ASSUME Has(worker[v].steps, "subtract") PROVE Closes(worker[v], m)
        <5>1. ~Has(worker[w].steps, "subtract")
          BY <1>3, <1>4, <2>3, <4>4 DEF Structure
        <5>2. m.gone = meter[c].gone /\ m.registered = meter[c].registered
          BY <4>2, <5>1 DEF MeterMove
        <5>3. Closes(worker[v], meter[c])
          BY <4>1, <4>4 DEF Tied
        <5> QED BY <5>2, <5>3 DEF Closes, MeterMove
      <4> QED BY <4>2, <4>3, <4>4 DEF Tied
    <3> QED BY <1>2, <2>3, <3>1, <3>2
  <2> QED BY <2>1, <2>2, <2>3
<1>6. \A d \in MeteredCaches : CacheOk(meter'[d])
  BY <1>1, <1>2 DEF Structure
<1>7. ASSUME NEW v \in MeterWorkers, NEW u \in MeterWorkers, v # u,
             Has(worker'[v].steps, "subtract"), Has(worker'[u].steps, "subtract"),
             worker'[v].cache = worker'[u].cache
      PROVE  FALSE
  <2>1. ASSUME NEW x \in MeterWorkers, x # w, Has(worker[x].steps, "subtract"), worker[x].cache = c,
               Has(r.steps, "subtract")
        PROVE  FALSE
    <3>1. Tied(worker[x], meter[c])
      BY <1>3, <2>1 DEF Structure
    <3>2. meter[c].closed
      BY <2>1, <3>1 DEF Tied, Closes
    <3>3. Has(worker[w].steps, "subtract")
      BY <2>1, <3>2 DEF MeterMove
    <3>4. worker[w].cache = c
      BY <1>3, <1>4, <3>3
    <3> QED BY <2>1, <3>3, <3>4 DEF Structure
  <2>2. CASE v = w
    BY <1>2, <1>4, <1>7, <2>1, <2>2
  <2>3. CASE u = w
    BY <1>2, <1>4, <1>7, <2>1, <2>3
  <2>4. CASE v # w /\ u # w
    BY <1>2, <1>7, <2>4 DEF Structure
  <2> QED BY <2>2, <2>3, <2>4
<1>8. ASSUME NEW d \in MeteredCaches, meter'[d].closed
      PROVE  \/ meter'[d].gone = Gauges
             \/ \E v \in MeterWorkers : worker'[v].cache = d /\ Has(worker'[v].steps, "subtract")
  <2>1. CASE d # c
    <3>1. \/ meter[d].gone = Gauges
          \/ \E v \in MeterWorkers : worker[v].cache = d /\ Has(worker[v].steps, "subtract")
      BY <1>2, <1>8, <2>1 DEF Structure
    <3>2. ASSUME NEW v \in MeterWorkers, worker[v].cache = d, Has(worker[v].steps, "subtract")
          PROVE  v # w
      BY <1>3, <1>4, <2>1, <3>2
    <3> QED BY <1>2, <2>1, <3>1, <3>2
  <2>2. CASE d = c
    <3>1. m.closed
      BY <1>2, <1>8, <2>2
    <3>2. CASE m.gone = Gauges
      BY <1>2, <2>2, <3>2
    <3>3. CASE Has(r.steps, "subtract")
      BY <1>2, <1>4, <2>2, <3>3
    <3>4. CASE meter[c].closed /\ m.gone = meter[c].gone /\ ~Has(worker[w].steps, "subtract")
      <4>1. \/ meter[c].gone = Gauges
            \/ \E v \in MeterWorkers : worker[v].cache = c /\ Has(worker[v].steps, "subtract")
        BY <3>4 DEF Structure
      <4>2. ASSUME NEW v \in MeterWorkers, worker[v].cache = c, Has(worker[v].steps, "subtract")
            PROVE  v # w
        BY <3>4, <4>2
      <4> QED BY <1>2, <2>2, <3>4, <4>1, <4>2
    <3> QED BY <3>1, <3>2, <3>3, <3>4 DEF MeterMove
  <2> QED BY <2>1, <2>2
<1>9. ASSUME NEW d \in MeteredCaches, meter'[d].open, ~meter'[d].closed
      PROVE  \/ d \in diagnosed'
             \/ \E v \in MeterWorkers : worker'[v].cache = d /\ Has(worker'[v].steps, "diagnose")
  <2>1. CASE d # c
    <3>1. \/ d \in diagnosed
          \/ \E v \in MeterWorkers : worker[v].cache = d /\ Has(worker[v].steps, "diagnose")
      BY <1>2, <1>9, <2>1 DEF Structure
    <3>2. ASSUME NEW v \in MeterWorkers, worker[v].cache = d, Has(worker[v].steps, "diagnose")
          PROVE  v # w
      BY <1>3, <1>4, <2>1, <3>2
    <3>3. d \in diagnosed => d \in diagnosed'
      BY <2>1 DEF MeterMove
    <3> QED BY <1>2, <2>1, <3>1, <3>2, <3>3
  <2>2. CASE d = c
    <3>1. m.open /\ ~m.closed
      BY <1>2, <1>9, <2>2
    <3>2. CASE c \in diagnosed'
      BY <2>2, <3>2
    <3>3. CASE Has(r.steps, "diagnose")
      BY <1>2, <1>4, <2>2, <3>3
    <3>4. CASE meter[c].open /\ ~Has(worker[w].steps, "diagnose") /\ c \notin diagnosed
      <4>1. ~meter[c].closed
        BY <3>1 DEF MeterMove
      <4>2. PICK v \in MeterWorkers : worker[v].cache = c /\ Has(worker[v].steps, "diagnose")
        BY <3>4, <4>1 DEF Structure
      <4>3. v # w
        BY <3>4, <4>2
      <4> QED BY <1>2, <2>2, <4>2, <4>3
    <3> QED BY <3>1, <3>2, <3>3, <3>4 DEF MeterMove
  <2> QED BY <2>1, <2>2
<1>10. diagnosed' \subseteq {d \in MeteredCaches : meter'[d].open}
  <2> SUFFICES ASSUME NEW d \in diagnosed' PROVE d \in MeteredCaches /\ meter'[d].open
    OBVIOUS
  <2>1. CASE d = c
    BY <1>2, <2>1 DEF MeterMove
  <2>2. CASE d # c
    <3>1. d \in diagnosed
      BY <2>2 DEF MeterMove
    <3> QED BY <1>2, <2>2, <3>1 DEF Structure
  <2> QED BY <2>1, <2>2
<1> QED BY <1>2, <1>5, <1>6, <1>7, <1>8, <1>9, <1>10 DEF Structure

LEMMA OwesInt ==
  ASSUME NEW r \in WorkerType, \A i \in 1..Len(r.steps) : StepOk(r.steps[i])
  PROVE  /\ \A g \in Gauges : taking(r, g) \in Int /\ untold(r, g) \in Int /\ owes(r, g) \in Int
         /\ \A k : uncounted(r, k) \in Int
         /\ unpooled(r) \in Int
<1>1. r.change \in Int /\ r.taken \in [Gauges -> Int] /\ r.steps \in Seq(Steps)
  BY DEF WorkerType
<1>2. \A g \in Gauges : taking(r, g) \in Int /\ untold(r, g) \in Int
  BY <1>1 DEF taking, untold
<1>3. \A g \in Gauges : owes(r, g) \in Int
  BY <1>2 DEF owes
<1>4. \A k : uncounted(r, k) \in Int
  BY DEF uncounted
<1>5. unpooled(r) \in Int
  <2>1. r.steps # <<>> => r.steps[1] \in Steps
    BY <1>1
  <2>2. r.steps # <<>> => r.steps[1].by \in Int
    BY <2>1 DEF Steps
  <2> QED BY <2>2 DEF unpooled
<1> QED BY <1>2, <1>3, <1>4, <1>5

LEMMA WorkersOwe ==
  ASSUME Structure, NEW w \in MeterWorkers
  PROVE  /\ \A g \in Gauges : owes(worker[w], g) \in Int
         /\ \A k : uncounted(worker[w], k) \in Int
         /\ unpooled(worker[w]) \in Int
<1>1. worker[w] \in WorkerType /\ WorkerOk(worker[w])
  BY DEF Structure
<1> QED BY <1>1, OwesInt DEF WorkerOk, Shape, Linked

LEMMA PartsInt ==
  ASSUME NEW m \in MeterType
  PROVE  /\ \A g \in Gauges : part(m, g) \in Int
         /\ \A k \in Counters : m.count[k] \in Int
BY DEF MeterType, part

\* What the step changes in the sums.
LEMMA SumsMove ==
  ASSUME Structure, NEW w \in MeterWorkers, NEW c \in MeteredCaches, NEW r, NEW m, MeterMove(w, c, r, m)
  PROVE  /\ \A g \in Gauges : /\ sumParts(g)' = sumParts(g) + (part(m, g) - part(meter[c], g))
                              /\ sumOwed(g)' = sumOwed(g) + (owes(r, g) - owes(worker[w], g))
                              /\ sumParts(g) \in Int /\ sumOwed(g) \in Int
         /\ \A k \in Counters : /\ sumCounts(k)' = sumCounts(k) + (m.count[k] - meter[c].count[k])
                                /\ sumUncounted(k)' = sumUncounted(k) + (uncounted(r, k) - uncounted(worker[w], k))
                                /\ sumCounts(k) \in Int /\ sumUncounted(k) \in Int
         /\ sumUnpooled' = sumUnpooled + (unpooled(r) - unpooled(worker[w]))
         /\ sumUnpooled \in Int
<1>1. /\ worker \in [MeterWorkers -> WorkerType] /\ meter \in [MeteredCaches -> MeterType]
      /\ WorkerOk(r) /\ r \in WorkerType /\ m \in MeterType
      /\ worker' = [worker EXCEPT ![w] = r] /\ meter' = [meter EXCEPT ![c] = m]
  BY DEF MeterMove, Structure, WorkerOk, CacheOk
<1>2. /\ worker'[w] = r /\ \A v \in MeterWorkers \ {w} : worker'[v] = worker[v]
      /\ meter'[c] = m /\ \A d \in MeteredCaches \ {c} : meter'[d] = meter[d]
  BY <1>1
<1>3. /\ \A g \in Gauges : owes(r, g) \in Int
      /\ \A k : uncounted(r, k) \in Int
      /\ unpooled(r) \in Int
  BY <1>1, OwesInt DEF WorkerOk, Shape, Linked
<1>4. IsFiniteSet(MeteredCaches) /\ IsFiniteSet(MeterWorkers)
  BY MetricsAssumption
<1>5. ASSUME NEW g \in Gauges
      PROVE  /\ sumParts(g)' = sumParts(g) + (part(m, g) - part(meter[c], g)) /\ sumParts(g) \in Int
             /\ sumOwed(g)' = sumOwed(g) + (owes(r, g) - owes(worker[w], g)) /\ sumOwed(g) \in Int
  <2> DEFINE f == [d \in MeteredCaches |-> part(meter[d], g)]
             h == [d \in MeteredCaches |-> part(meter'[d], g)]
             o == [v \in MeterWorkers |-> owes(worker[v], g)]
             p == [v \in MeterWorkers |-> owes(worker'[v], g)]
  <2>1. \A d \in MeteredCaches : part(meter[d], g) \in Int /\ part(meter'[d], g) \in Int
    BY <1>1, <1>2, PartsInt
  <2>2. \A v \in MeterWorkers : owes(worker[v], g) \in Int /\ owes(worker'[v], g) \in Int
    BY <1>2, <1>3, WorkersOwe
  <2>3. /\ \A d \in MeteredCaches : f[d] \in Int /\ h[d] \in Int
        /\ \A d \in MeteredCaches \ {c} : h[d] = f[d]
        /\ f[c] = part(meter[c], g) /\ h[c] = part(m, g)
    BY <1>2, <2>1
  <2>4. /\ \A v \in MeterWorkers : o[v] \in Int /\ p[v] \in Int
        /\ \A v \in MeterWorkers \ {w} : p[v] = o[v]
        /\ o[w] = owes(worker[w], g) /\ p[w] = owes(r, g)
    BY <1>2, <2>2
  <2>5. sumParts(g) = SumFunctionOnSet(f, MeteredCaches) /\ sumParts(g)' = SumFunctionOnSet(h, MeteredCaches)
    BY DEF sumParts, part
  <2>6. sumOwed(g) = SumFunctionOnSet(o, MeterWorkers) /\ sumOwed(g)' = SumFunctionOnSet(p, MeterWorkers)
    BY DEF sumOwed
  <2> HIDE DEF f, h, o, p
  <2>7. SumFunctionOnSet(h, MeteredCaches) = SumFunctionOnSet(f, MeteredCaches) + (h[c] - f[c])
    BY <1>4, <2>3, SumChange
  <2>8. SumFunctionOnSet(p, MeterWorkers) = SumFunctionOnSet(o, MeterWorkers) + (p[w] - o[w])
    BY <1>4, <2>4, SumChange
  <2>9. SumFunctionOnSet(f, MeteredCaches) \in Int /\ SumFunctionOnSet(o, MeterWorkers) \in Int
    BY <1>4, <2>3, <2>4, SumInt
  <2> QED BY <2>3, <2>4, <2>5, <2>6, <2>7, <2>8, <2>9
<1>6. ASSUME NEW k \in Counters
      PROVE  /\ sumCounts(k)' = sumCounts(k) + (m.count[k] - meter[c].count[k]) /\ sumCounts(k) \in Int
             /\ sumUncounted(k)' = sumUncounted(k) + (uncounted(r, k) - uncounted(worker[w], k))
             /\ sumUncounted(k) \in Int
  <2> DEFINE f == [d \in MeteredCaches |-> meter[d].count[k]]
             h == [d \in MeteredCaches |-> meter'[d].count[k]]
             o == [v \in MeterWorkers |-> uncounted(worker[v], k)]
             p == [v \in MeterWorkers |-> uncounted(worker'[v], k)]
  <2>1. \A d \in MeteredCaches : meter[d].count[k] \in Int /\ meter'[d].count[k] \in Int
    BY <1>1, <1>2, PartsInt
  <2>2. \A v \in MeterWorkers : uncounted(worker[v], k) \in Int /\ uncounted(worker'[v], k) \in Int
    BY <1>2, <1>3, WorkersOwe
  <2>3. /\ \A d \in MeteredCaches : f[d] \in Int /\ h[d] \in Int
        /\ \A d \in MeteredCaches \ {c} : h[d] = f[d]
        /\ f[c] = meter[c].count[k] /\ h[c] = m.count[k]
    BY <1>2, <2>1
  <2>4. /\ \A v \in MeterWorkers : o[v] \in Int /\ p[v] \in Int
        /\ \A v \in MeterWorkers \ {w} : p[v] = o[v]
        /\ o[w] = uncounted(worker[w], k) /\ p[w] = uncounted(r, k)
    BY <1>2, <2>2
  <2>5. sumCounts(k) = SumFunctionOnSet(f, MeteredCaches) /\ sumCounts(k)' = SumFunctionOnSet(h, MeteredCaches)
    BY DEF sumCounts
  <2>6. sumUncounted(k) = SumFunctionOnSet(o, MeterWorkers) /\ sumUncounted(k)' = SumFunctionOnSet(p, MeterWorkers)
    BY DEF sumUncounted
  <2> HIDE DEF f, h, o, p
  <2>7. SumFunctionOnSet(h, MeteredCaches) = SumFunctionOnSet(f, MeteredCaches) + (h[c] - f[c])
    BY <1>4, <2>3, SumChange
  <2>8. SumFunctionOnSet(p, MeterWorkers) = SumFunctionOnSet(o, MeterWorkers) + (p[w] - o[w])
    BY <1>4, <2>4, SumChange
  <2>9. SumFunctionOnSet(f, MeteredCaches) \in Int /\ SumFunctionOnSet(o, MeterWorkers) \in Int
    BY <1>4, <2>3, <2>4, SumInt
  <2> QED BY <2>3, <2>4, <2>5, <2>6, <2>7, <2>8, <2>9
<1>7. sumUnpooled' = sumUnpooled + (unpooled(r) - unpooled(worker[w])) /\ sumUnpooled \in Int
  <2> DEFINE o == [v \in MeterWorkers |-> unpooled(worker[v])]
             p == [v \in MeterWorkers |-> unpooled(worker'[v])]
  <2>1. \A v \in MeterWorkers : unpooled(worker[v]) \in Int /\ unpooled(worker'[v]) \in Int
    BY <1>2, <1>3, WorkersOwe
  <2>2. /\ \A v \in MeterWorkers : o[v] \in Int /\ p[v] \in Int
        /\ \A v \in MeterWorkers \ {w} : p[v] = o[v]
        /\ o[w] = unpooled(worker[w]) /\ p[w] = unpooled(r)
    BY <1>2, <2>1
  <2>3. sumUnpooled = SumFunctionOnSet(o, MeterWorkers) /\ sumUnpooled' = SumFunctionOnSet(p, MeterWorkers)
    BY DEF sumUnpooled
  <2> HIDE DEF o, p
  <2>4. SumFunctionOnSet(p, MeterWorkers) = SumFunctionOnSet(o, MeterWorkers) + (p[w] - o[w])
    BY <1>4, <2>2, SumChange
  <2>5. SumFunctionOnSet(o, MeterWorkers) \in Int
    BY <1>4, <2>2, SumInt
  <2> QED BY <2>2, <2>3, <2>4, <2>5
<1> QED BY <1>5, <1>6, <1>7

\* What it has to change in the numbers.
NumbersMove(w, c, r, m) ==
  /\ total' \in [Gauges -> Int] /\ totalCount' \in [Counters -> Int]
  /\ pool' \in 0..PoolLimit /\ pooled' \in Int /\ idleMax' = idleSeen'
  /\ straddled \subseteq straddled' /\ foundBytes' \in Int
  /\ \A g \in Gauges \ straddled' :
       total'[g] + unsaid(g)'
         = total[g] + unsaid(g) + (part(m, g) - part(meter[c], g)) + (owes(r, g) - owes(worker[w], g))
  /\ \A k \in Counters :
       totalCount'[k] + (uncounted(r, k) - uncounted(worker[w], k))
         = totalCount[k] + (m.count[k] - meter[c].count[k])
  /\ pooled' + (unpooled(r) - unpooled(worker[w])) = pooled + (pool' - pool)

LEMMA BalanceStep ==
  ASSUME Structure, Balance, NEW w \in MeterWorkers, NEW c \in MeteredCaches, NEW r, NEW m,
         MeterMove(w, c, r, m), NumbersMove(w, c, r, m)
  PROVE  Balance'
<1>1. /\ r \in WorkerType /\ \A i \in 1..Len(r.steps) : StepOk(r.steps[i])
      /\ m \in MeterType /\ meter[c] \in MeterType
  BY DEF MeterMove, Structure, WorkerOk, CacheOk, Shape, Linked
<1>2. \A g \in Gauges : part(m, g) \in Int /\ part(meter[c], g) \in Int
  BY <1>1, PartsInt
<1>3. \A k \in Counters : m.count[k] \in Int /\ meter[c].count[k] \in Int
  BY <1>1, PartsInt
<1>4. /\ \A g \in Gauges : owes(r, g) \in Int /\ owes(worker[w], g) \in Int
      /\ \A k : uncounted(r, k) \in Int /\ uncounted(worker[w], k) \in Int
      /\ unpooled(r) \in Int /\ unpooled(worker[w]) \in Int
  BY <1>1, OwesInt, WorkersOwe
<1>5. ASSUME NEW g \in Gauges \ straddled' PROVE total'[g] + unsaid(g)' = sumParts(g)' + sumOwed(g)'
  <2>1. total[g] + unsaid(g) = sumParts(g) + sumOwed(g) /\ g \in Gauges
    BY DEF Balance, NumbersMove
  <2>2. total'[g] + unsaid(g)'
          = total[g] + unsaid(g) + (part(m, g) - part(meter[c], g)) + (owes(r, g) - owes(worker[w], g))
    BY DEF NumbersMove
  <2>3. /\ sumParts(g)' = sumParts(g) + (part(m, g) - part(meter[c], g))
        /\ sumOwed(g)' = sumOwed(g) + (owes(r, g) - owes(worker[w], g))
        /\ sumParts(g) \in Int /\ sumOwed(g) \in Int
    BY SumsMove
  <2> QED BY <1>2, <1>4, <2>1, <2>2, <2>3
<1>6. ASSUME NEW k \in Counters PROVE totalCount'[k] + sumUncounted(k)' = sumCounts(k)'
  <2>1. totalCount[k] + sumUncounted(k) = sumCounts(k) /\ totalCount[k] \in Int /\ totalCount'[k] \in Int
    BY DEF Balance, NumbersMove
  <2>2. totalCount'[k] + (uncounted(r, k) - uncounted(worker[w], k))
          = totalCount[k] + (m.count[k] - meter[c].count[k])
    BY DEF NumbersMove
  <2>3. /\ sumCounts(k)' = sumCounts(k) + (m.count[k] - meter[c].count[k])
        /\ sumUncounted(k)' = sumUncounted(k) + (uncounted(r, k) - uncounted(worker[w], k))
        /\ sumCounts(k) \in Int /\ sumUncounted(k) \in Int
    BY SumsMove
  <2> QED BY <1>3, <1>4, <2>1, <2>2, <2>3
<1>7. pooled' + sumUnpooled' = pool'
  <2>1. /\ sumUnpooled' = sumUnpooled + (unpooled(r) - unpooled(worker[w]))
        /\ sumUnpooled \in Int
    BY SumsMove
  <2>2. /\ pooled + sumUnpooled = pool /\ pooled \in Int /\ pool \in Int
        /\ pooled' + (unpooled(r) - unpooled(worker[w])) = pooled + (pool' - pool)
        /\ pooled' \in Int /\ pool' \in Int
    BY MetricsAssumption DEF Balance, NumbersMove
  <2> QED BY <1>4, <2>1, <2>2
<1> QED BY <1>5, <1>6, <1>7 DEF Balance, NumbersMove

-----------------------------------------------------------------------------
(* The steps, one by one. *)

\* A step that finds nothing on disk.
LEMMA NothingFound ==
  ASSUME Balance, foundBytes' = foundBytes
  PROVE  foundBytes' \in Int /\ \A g : unsaid(g)' = unsaid(g) /\ unsaid(g) \in Int
BY DEF Balance, unsaid

LEMMA Moves ==
  ASSUME MetricsInv, NEW w \in MeterWorkers, NEW c \in MeteredCaches, NEW r, NEW m,
         MeterMove(w, c, r, m), NumbersMove(w, c, r, m)
  PROVE  MetricsInv'
BY StructureStep, BalanceStep DEF MetricsInv

\* A worker at work on c, with the steps s, of which t are left after the next one.
Working(w, s, t, c) ==
  /\ s = worker[w].steps /\ c = worker[w].cache /\ worker[w].steps # <<>>
  /\ c \in MeteredCaches /\ cacheOf(w) = c
  /\ worker \in [MeterWorkers -> WorkerType] /\ meter \in [MeteredCaches -> MeterType]
  /\ worker[w] \in WorkerType /\ meter[c] \in MeterType
  /\ CacheOk(meter[c]) /\ Tied(worker[w], meter[c]) /\ meter[c].open
  /\ s \in Seq(Steps) /\ s # <<>> /\ Shape(s) /\ Ordered(s)
  /\ After(s, t) /\ t \in Seq(Steps) /\ Shape(t) /\ Ordered(t)
  /\ skip(w, 1) = [worker[w] EXCEPT !.steps = t]
  /\ \A do : Doing(w, do) <=> s[1].do = do
  /\ gaugeOf(w) = s[1].on /\ amountOf(w) = s[1].by /\ s[1].by \in Int /\ StepOk(s[1])

LEMMA BusyWorker ==
  ASSUME Structure, NEW w \in MeterWorkers, worker[w].steps # <<>>
  PROVE  \E s, t, c : Working(w, s, t, c)
<1>1. PICK s : s = worker[w].steps
  OBVIOUS
<1>2. PICK t : t = SubSeq(s, 1 + 1, Len(s))
  OBVIOUS
<1>3. PICK c : c = worker[w].cache
  OBVIOUS
<1>4. /\ c \in MeteredCaches /\ worker[w] \in WorkerType /\ meter[c] \in MeterType
      /\ CacheOk(meter[c]) /\ Tied(worker[w], meter[c]) /\ WorkerOk(worker[w])
      /\ worker \in [MeterWorkers -> WorkerType] /\ meter \in [MeteredCaches -> MeterType]
  BY <1>3 DEF Structure
<1>5. meter[c].open
  BY <1>4 DEF Tied
<1>6. s \in Seq(Steps) /\ s # <<>> /\ Shape(s) /\ Ordered(s)
  BY <1>1, <1>4 DEF WorkerType, WorkerOk
<1>7. skip(w, 1) = [worker[w] EXCEPT !.steps = t]
  BY <1>1, <1>2 DEF skip
<1>8. After(s, t)
  BY <1>2, <1>6, RestKeeps
<1>9. t \in Seq(Steps) /\ Shape(t) /\ Ordered(t) /\ Head(s) = s[1] /\ s[1] \in Steps /\ StepOk(s[1])
  BY <1>8 DEF After
<1>10. /\ \A do : Doing(w, do) <=> s[1].do = do
       /\ gaugeOf(w) = s[1].on /\ amountOf(w) = s[1].by /\ s[1].by \in Int
  BY <1>1, <1>6, <1>9 DEF Doing, gaugeOf, amountOf, Steps
<1>11. Working(w, s, t, c)
  BY <1>1, <1>3, <1>4, <1>5, <1>6, <1>7, <1>8, <1>9, <1>10 DEF Working, cacheOf
<1> QED BY <1>11

\* A step that is none of an unregistration, and of no diagnostics.
Special == {"unset", "take", "subtract", "diagnose", "undiagnose"}
SameSpecial(q, s) ==
  /\ \A d \in Special : Has(q, d) <=> Has(s, d)
  /\ \A g : Takes(q, g) <=> Takes(s, g)
CalmAt(s) == s = <<>> \/ Calm(s[1])

LEMMA QuietMove ==
  ASSUME Structure, NEW w \in MeterWorkers, worker[w].steps # <<>>, NEW c, c = worker[w].cache,
         NEW r \in WorkerType, NEW m \in MeterType,
         worker' = [worker EXCEPT ![w] = r], meter' = [meter EXCEPT ![c] = m], diagnosed' = diagnosed,
         r.cache = c, r.taken = worker[w].taken, Shape(r.steps), Ordered(r.steps),
         SameSpecial(r.steps, worker[w].steps),
         m.open = meter[c].open, m.closed = meter[c].closed, m.registered = meter[c].registered,
         m.gone = meter[c].gone,
         r.steps # <<>> /\ r.steps[1].do = "tell" /\ r.late => ~m.registered
  PROVE  /\ MeterMove(w, c, r, m)
         /\ \A g : taking(r, g) = taking(worker[w], g)
<1>1. /\ c \in MeteredCaches /\ CacheOk(meter[c]) /\ Tied(worker[w], meter[c]) /\ meter[c].open
  BY DEF Structure, Tied
<1>2. /\ Has(r.steps, "subtract") <=> Has(worker[w].steps, "subtract")
      /\ Has(r.steps, "unset") <=> Has(worker[w].steps, "unset")
      /\ Has(r.steps, "diagnose") <=> Has(worker[w].steps, "diagnose")
      /\ Has(r.steps, "undiagnose") <=> Has(worker[w].steps, "undiagnose")
  BY DEF Special, SameSpecial
<1>3. CacheOk(m)
  BY <1>1 DEF CacheOk
<1>4. Has(r.steps, "subtract") => Closes(r, m)
  BY <1>1, <1>2 DEF Tied, Closes, SameSpecial
<1>5. r.steps # <<>> => Tied(r, m)
  BY <1>1, <1>2, <1>4 DEF Tied
<1>6. m.closed => \/ m.gone = Gauges
                  \/ Has(r.steps, "subtract")
                  \/ meter[c].closed /\ m.gone = meter[c].gone /\ ~Has(worker[w].steps, "subtract")
  BY <1>2
<1>7. m.open /\ ~m.closed => \/ c \in diagnosed'
                             \/ Has(r.steps, "diagnose")
                             \/ meter[c].open /\ ~Has(worker[w].steps, "diagnose") /\ c \notin diagnosed
  BY <1>1, <1>2
<1>8. c \in diagnosed' => m.open
  BY <1>1
<1>9. \A g : taking(r, g) = taking(worker[w], g)
  BY <1>2 DEF taking
<1>10. WorkerOk(r)
  BY DEF WorkerOk
<1> QED BY <1>2, <1>3, <1>5, <1>6, <1>7, <1>8, <1>9, <1>10 DEF MeterMove

\* Nothing to be told, counted or pooled.
LEMMA CalmWorker ==
  ASSUME NEW r, CalmAt(r.steps)
  PROVE  /\ \A g : untold(r, g) = 0
         /\ \A k : uncounted(r, k) = 0
         /\ unpooled(r) = 0
BY DEF Calm, CalmAt, untold, uncounted, unpooled

\* A step that leaves the sums and the counters alone.
LEMMA CalmNumbers ==
  ASSUME Structure, Balance, NEW w \in MeterWorkers, NEW c \in MeteredCaches, NEW r \in WorkerType, NEW m \in MeterType,
         Shape(r.steps),
         \A g : taking(r, g) = taking(worker[w], g),
         CalmAt(worker[w].steps), CalmAt(r.steps),
         m.gauge = meter[c].gauge, m.gone = meter[c].gone, m.count = meter[c].count,
         total' = total, totalCount' = totalCount, pool' = pool, pooled' = pooled,
         straddled' = straddled, foundBytes' = foundBytes, idleMax' = idleSeen'
  PROVE  NumbersMove(w, c, r, m)
<1>1. /\ \A g : untold(r, g) = 0 /\ untold(worker[w], g) = 0
      /\ \A k : uncounted(r, k) = 0 /\ uncounted(worker[w], k) = 0
      /\ unpooled(r) = 0 /\ unpooled(worker[w]) = 0
  BY CalmWorker
<1>2. \A g \in Gauges : owes(r, g) = owes(worker[w], g) /\ owes(worker[w], g) \in Int
  BY <1>1, WorkersOwe DEF owes
<1>3. \A g \in Gauges : part(m, g) = part(meter[c], g) /\ part(m, g) \in Int
  BY PartsInt DEF part
<1>4. \A k \in Counters : m.count[k] \in Int
  BY PartsInt
<1>5. /\ total \in [Gauges -> Int] /\ totalCount \in [Counters -> Int]
      /\ pool \in 0..PoolLimit /\ pooled \in Int /\ pool \in Int
  BY MetricsAssumption DEF Balance
<1>6. ASSUME NEW g \in Gauges
      PROVE  total'[g] + unsaid(g)'
               = total[g] + unsaid(g) + (part(m, g) - part(meter[c], g)) + (owes(r, g) - owes(worker[w], g))
  BY <1>2, <1>3, <1>5, NothingFound
<1>7. ASSUME NEW k \in Counters
      PROVE  totalCount'[k] + (uncounted(r, k) - uncounted(worker[w], k))
               = totalCount[k] + (m.count[k] - meter[c].count[k])
  BY <1>1, <1>4, <1>5
<1>8. pooled' + (unpooled(r) - unpooled(worker[w])) = pooled + (pool' - pool)
  BY <1>1, <1>5
<1> QED BY <1>5, <1>6, <1>7, <1>8, NothingFound DEF NumbersMove

LEMMA SimpleMoves ==
  ASSUME MetricsInv, foundBytes' = foundBytes, NEW w \in MeterWorkers, worker[w].steps # <<>>, NEW c, c = worker[w].cache,
         NEW r \in WorkerType, NEW m \in MeterType,
         worker' = [worker EXCEPT ![w] = r], meter' = [meter EXCEPT ![c] = m],
         r.cache = c, r.taken = worker[w].taken, Shape(r.steps), Ordered(r.steps),
         SameSpecial(r.steps, worker[w].steps), CalmAt(worker[w].steps), CalmAt(r.steps),
         m.open = meter[c].open, m.closed = meter[c].closed, m.registered = meter[c].registered,
         m.gone = meter[c].gone, m.gauge = meter[c].gauge, m.count = meter[c].count,
         total' = total, totalCount' = totalCount, pool' = pool, pooled' = pooled,
         straddled' = straddled, idleMax' = idleSeen', diagnosed' = diagnosed
  PROVE  MetricsInv'
<1>1. Structure /\ Balance /\ c \in MeteredCaches
  BY DEF MetricsInv, Structure
<1>2. r.steps # <<>> /\ r.steps[1].do = "tell" /\ r.late => ~m.registered
  BY DEF CalmAt, Calm
<1>3. MeterMove(w, c, r, m) /\ \A g : taking(r, g) = taking(worker[w], g)
  BY <1>1, <1>2, QuietMove
<1>4. NumbersMove(w, c, r, m)
  BY <1>1, <1>3, CalmNumbers
<1> QED BY <1>1, <1>3, <1>4, Moves

LEMMA SimpleRest ==
  ASSUME NEW s, NEW t, After(s, t), s[1].do \notin Special
  PROVE  /\ SameSpecial(t, s)
         /\ s[1].do \notin {"change", "set", "count"} => CalmAt(t)
<1>1. /\ \A d \in Special : Has(t, d) <=> Has(s, d)
      /\ \A g : Takes(t, g) <=> Takes(s, g)
  BY DEF After, Special
<1>2. s[1].do \notin {"change", "set", "count"} => CalmAt(t)
  BY DEF After, Follows, CalmAt
<1> QED BY <1>1, <1>2 DEF SameSpecial

\* updateAtomicMax, the end of a write, of a release and of Close.
LEMMA PlainStepsMove ==
  ASSUME MetricsInv, foundBytes' = foundBytes, NEW w \in MeterWorkers,
         UpdateAtomicMax(w) \/ UnlockPiece(w) \/ ForgetPieces(w)
  PROVE  MetricsInv'
<1>0. Structure /\ Balance /\ worker[w].steps # <<>>
  BY DEF MetricsInv, UpdateAtomicMax, UnlockPiece, ForgetPieces, Doing
<1>1. PICK s, t, c : Working(w, s, t, c)
  BY <1>0, BusyWorker
<1>3. s = worker[w].steps /\ c = worker[w].cache
  BY <1>1 DEF Working
<1>4. /\ c \in MeteredCaches /\ worker[w] \in WorkerType /\ meter[c] \in MeterType
      /\ skip(w, 1) = [worker[w] EXCEPT !.steps = t] /\ After(s, t) /\ cacheOf(w) = c
      /\ worker \in [MeterWorkers -> WorkerType] /\ meter \in [MeteredCaches -> MeterType]
  BY <1>1 DEF Working
<1>5. t \in Seq(Steps) /\ Shape(t) /\ Ordered(t)
  BY <1>1 DEF Working
<1>6. s[1].do \in {"max", "unlock", "forget"}
  BY <1>1 DEF Working, UpdateAtomicMax, UnlockPiece, ForgetPieces
<1>7. SameSpecial(t, s) /\ CalmAt(t) /\ CalmAt(s)
  BY <1>4, <1>6, SimpleRest DEF Special, CalmAt, Calm
<1>9. CASE UpdateAtomicMax(w)
  <2>1. PICK r \in WorkerType : r = [worker[w] EXCEPT !.steps = t]
    BY <1>4, <1>5 DEF WorkerType
  <2>2. r.steps = t /\ r.cache = c /\ r.taken = worker[w].taken
    BY <1>3, <1>4, <2>1 DEF WorkerType
  <2>3. worker' = [worker EXCEPT ![w] = r] /\ meter' = [meter EXCEPT ![c] = meter[c]]
    BY <1>4, <1>9, <2>1 DEF UpdateAtomicMax, Does
  <2>4. /\ total' = total /\ totalCount' = totalCount /\ pool' = pool /\ pooled' = pooled
        /\ straddled' = straddled /\ diagnosed' = diagnosed /\ idleMax' = idleSeen'
    BY <1>0, <1>9 DEF UpdateAtomicMax, Balance
  <2> QED BY <1>0, <1>3, <1>4, <1>5, <1>7, <2>2, <2>3, <2>4, SimpleMoves
<1>10. CASE UnlockPiece(w)
  <2>1. PICK r \in WorkerType : r = [[worker[w] EXCEPT !.steps = t] EXCEPT !.locks = FALSE]
    BY <1>4, <1>5 DEF WorkerType
  <2>2. r.steps = t /\ r.cache = c /\ r.taken = worker[w].taken
    BY <1>3, <1>4, <2>1 DEF WorkerType
  <2>3. PICK held \in BOOLEAN : held = (amountOf(w) = 1)
    OBVIOUS
  <2>4. PICK m \in MeterType : m = [meter[c] EXCEPT !.held = held]
    BY <1>4 DEF MeterType
  <2>5. /\ m.open = meter[c].open /\ m.closed = meter[c].closed /\ m.registered = meter[c].registered
        /\ m.gone = meter[c].gone /\ m.gauge = meter[c].gauge /\ m.count = meter[c].count
    BY <1>4, <2>4 DEF MeterType
  <2>6. worker' = [worker EXCEPT ![w] = r] /\ meter' = [meter EXCEPT ![c] = m]
    BY <1>4, <1>10, <2>1, <2>3, <2>4 DEF UnlockPiece, Does
  <2>7. /\ total' = total /\ totalCount' = totalCount /\ pool' = pool /\ pooled' = pooled
        /\ straddled' = straddled /\ diagnosed' = diagnosed /\ idleMax' = idleSeen'
    BY <1>0, <1>10 DEF UnlockPiece, Balance
  <2> QED BY <1>0, <1>3, <1>4, <1>5, <1>7, <2>2, <2>5, <2>6, <2>7, SimpleMoves
<1>11. CASE ForgetPieces(w)
  <2>1. PICK r \in WorkerType : r = [worker[w] EXCEPT !.steps = t]
    BY <1>4, <1>5 DEF WorkerType
  <2>2. r.steps = t /\ r.cache = c /\ r.taken = worker[w].taken
    BY <1>3, <1>4, <2>1 DEF WorkerType
  <2>3. PICK m \in MeterType : m = [meter[c] EXCEPT !.marked = "nil"]
    BY <1>4 DEF MeterType
  <2>4. /\ m.open = meter[c].open /\ m.closed = meter[c].closed /\ m.registered = meter[c].registered
        /\ m.gone = meter[c].gone /\ m.gauge = meter[c].gauge /\ m.count = meter[c].count
    BY <1>4, <2>3 DEF MeterType
  <2>5. worker' = [worker EXCEPT ![w] = r] /\ meter' = [meter EXCEPT ![c] = m]
    BY <1>4, <1>11, <2>1, <2>3 DEF ForgetPieces, Does
  <2>6. /\ total' = total /\ totalCount' = totalCount /\ pool' = pool /\ pooled' = pooled
        /\ straddled' = straddled /\ diagnosed' = diagnosed /\ idleMax' = idleSeen'
    BY <1>0, <1>11 DEF ForgetPieces, Balance
  <2> QED BY <1>0, <1>3, <1>4, <1>5, <1>7, <2>2, <2>4, <2>5, <2>6, SimpleMoves
<1> QED BY <1>9, <1>10, <1>11

LEMMA MaxOfTwo ==
  ASSUME NEW a \in Int, NEW b \in Int
  PROVE  Max({a, b}) = (IF a >= b THEN a ELSE b)
<1> DEFINE m == IF a >= b THEN a ELSE b
<1>1. m \in {a, b} /\ \A y \in {a, b} : m >= y
  OBVIOUS
<1>2. Max({a, b}) \in {a, b} /\ \A y \in {a, b} : Max({a, b}) >= y
  <2>1. \E x \in {a, b} : \A y \in {a, b} : x >= y
    BY <1>1
  <2> QED BY <2>1, Zenon DEF Max
<1> QED BY <1>1, <1>2

LEMMA MinOfTwo ==
  ASSUME NEW a \in Int, NEW b \in Int
  PROVE  Min({a, b}) = (IF a <= b THEN a ELSE b)
<1> DEFINE m == IF a <= b THEN a ELSE b
<1>1. m \in {a, b} /\ \A y \in {a, b} : m <= y
  OBVIOUS
<1>2. Min({a, b}) \in {a, b} /\ \A y \in {a, b} : Min({a, b}) <= y
  <2>1. \E x \in {a, b} : \A y \in {a, b} : x <= y
    BY <1>1
  <2> QED BY <2>1, Zenon DEF Min
<1> QED BY <1>1, <1>2

\* A step on the pool or its counter.
LEMMA PoolMoves ==
  ASSUME MetricsInv, foundBytes' = foundBytes, NEW w \in MeterWorkers, worker[w].steps # <<>>, NEW c, c = worker[w].cache,
         NEW r \in WorkerType, NEW m \in MeterType,
         worker' = [worker EXCEPT ![w] = r], meter' = [meter EXCEPT ![c] = m], m = meter[c],
         r.cache = c, r.taken = worker[w].taken, Shape(r.steps), Ordered(r.steps),
         SameSpecial(r.steps, worker[w].steps),
         worker[w].steps[1].do \notin {"tell", "countAll"},
         r.steps = <<>> \/ r.steps[1].do \notin {"tell", "countAll"},
         total' = total, totalCount' = totalCount, straddled' = straddled, diagnosed' = diagnosed,
         idleMax' = idleMax, idleSeen' = idleSeen, pool' \in 0..PoolLimit, pooled' \in Int,
         pooled' + (unpooled(r) - unpooled(worker[w])) = pooled + (pool' - pool)
  PROVE  MetricsInv'
<1>1. Structure /\ Balance /\ c \in MeteredCaches
  BY DEF MetricsInv, Structure
<1>2. MeterMove(w, c, r, m) /\ \A g : taking(r, g) = taking(worker[w], g)
  <2>1. r.steps # <<>> /\ r.steps[1].do = "tell" /\ r.late => ~m.registered
    OBVIOUS
  <2>2. /\ m.open = meter[c].open /\ m.closed = meter[c].closed /\ m.registered = meter[c].registered
        /\ m.gone = meter[c].gone
    OBVIOUS
  <2> QED BY <1>1, <2>1, <2>2, QuietMove
<1>3. /\ \A g : untold(r, g) = 0 /\ untold(worker[w], g) = 0
      /\ \A k : uncounted(r, k) = 0 /\ uncounted(worker[w], k) = 0
  BY DEF untold, uncounted
<1>4. \A g \in Gauges : owes(r, g) = owes(worker[w], g) /\ owes(worker[w], g) \in Int
  BY <1>1, <1>2, <1>3, WorkersOwe DEF owes
<1>5. /\ \A g \in Gauges : part(m, g) \in Int
      /\ \A k \in Counters : m.count[k] \in Int
  BY <1>1, PartsInt
<1>6. total \in [Gauges -> Int] /\ totalCount \in [Counters -> Int] /\ idleMax = idleSeen
  BY <1>1 DEF Balance
<1>7. ASSUME NEW g \in Gauges
      PROVE  total'[g] + unsaid(g)'
               = total[g] + unsaid(g) + (part(m, g) - part(meter[c], g)) + (owes(r, g) - owes(worker[w], g))
  BY <1>1, <1>4, <1>5, <1>6, NothingFound
<1>8. ASSUME NEW k \in Counters
      PROVE  totalCount'[k] + (uncounted(r, k) - uncounted(worker[w], k))
               = totalCount[k] + (m.count[k] - meter[c].count[k])
  BY <1>3, <1>5, <1>6
<1>9. NumbersMove(w, c, r, m)
  BY <1>1, <1>6, <1>7, <1>8, NothingFound DEF NumbersMove
<1> QED BY <1>1, <1>2, <1>9, Moves

\* A chunk that the pool's counter does not know of yet, in front of other steps.
LEMMA PooledFirst ==
  ASSUME NEW d \in Int, NEW t \in Seq(Steps), t # <<>>, Shape(t), Ordered(t), Calm(t[1])
  PROVE  /\ <<step("pooled", "pool", d)>> \o t \in Seq(Steps) /\ <<step("pooled", "pool", d)>> \o t # <<>>
         /\ Shape(<<step("pooled", "pool", d)>> \o t) /\ Ordered(<<step("pooled", "pool", d)>> \o t)
         /\ (<<step("pooled", "pool", d)>> \o t)[1] = step("pooled", "pool", d)
         /\ SameSpecial(<<step("pooled", "pool", d)>> \o t, t)
<1>1. PICK a \in Steps : a = step("pooled", "pool", d)
  BY DEF step, Steps, Dos, Ons
<1>2. a.do = "pooled" /\ a.by = d /\ StepOk(a) /\ ~Opens(a) /\ Follows(a, t[1])
  BY <1>1 DEF step, StepOk, Opens, Follows
<1>3. Work(<<a>>, a, a)
  BY <1>2, WorkOne
<1>4. /\ <<a>> \o t \in Seq(Steps) /\ <<a>> \o t # <<>> /\ Shape(<<a>> \o t) /\ Ordered(<<a>> \o t)
      /\ (<<a>> \o t)[1] = a
      /\ \A d1 \in {"unset", "take", "subtract", "diagnose", "undiagnose"} : Has(<<a>> \o t, d1) <=> Has(t, d1)
      /\ \A g : Takes(<<a>> \o t, g) <=> Takes(t, g)
  BY <1>2, <1>3, WorkBefore
<1> QED BY <1>1, <1>4 DEF SameSpecial, Special

\* getMemPieceChunk and putMemPieceChunk.
LEMMA PoolChunkMoves ==
  ASSUME MetricsInv, foundBytes' = foundBytes, NEW w \in MeterWorkers, PoolChunk(w)
  PROVE  MetricsInv'
<1>0. Structure /\ Balance /\ worker[w].steps # <<>>
  BY DEF MetricsInv, PoolChunk, Doing
<1>1. PICK s, t, c : Working(w, s, t, c)
  BY <1>0, BusyWorker
<1>2. /\ s = worker[w].steps /\ c = worker[w].cache /\ c \in MeteredCaches /\ worker[w] \in WorkerType
      /\ skip(w, 1) = [worker[w] EXCEPT !.steps = t] /\ After(s, t)
      /\ t \in Seq(Steps) /\ Shape(t) /\ Ordered(t)
  BY <1>1 DEF Working
<1>3. s[1].do \in {"get", "put"} /\ (Doing(w, "get") <=> s[1].do = "get") /\ (Doing(w, "put") <=> s[1].do = "put")
  BY <1>1 DEF Working, PoolChunk
<1>4. SameSpecial(t, s) /\ CalmAt(t) /\ t # <<>>
  <2>1. s[1].do \notin Special /\ s[1].do \notin {"change", "set", "count"} /\ Opens(s[1])
    BY <1>3 DEF Special, Opens
  <2>2. t # <<>>
    BY <1>2, <2>1 DEF After
  <2> QED BY <1>2, <2>1, <2>2, SimpleRest
<1>5. pool \in 0..PoolLimit /\ pool \in Int /\ PoolLimit \in Int /\ pooled \in Int
  BY <1>0, MetricsAssumption DEF Balance
<1>6. pool' \in 0..PoolLimit /\ pool' \in Int
  <2>1. Max({pool - 1, 0}) = IF pool - 1 >= 0 THEN pool - 1 ELSE 0
    BY <1>5, MaxOfTwo
  <2>2. Min({pool + 1, PoolLimit}) = IF pool + 1 <= PoolLimit THEN pool + 1 ELSE PoolLimit
    BY <1>5, MinOfTwo
  <2>3. pool' = Max({pool - 1, 0}) \/ pool' = Min({pool + 1, PoolLimit})
    BY DEF PoolChunk
  <2> QED BY <1>5, <2>1, <2>2, <2>3
<1>7. unpooled(worker[w]) = 0
  BY <1>2, <1>3 DEF unpooled
<1>8. /\ meter' = [meter EXCEPT ![c] = meter[c]] /\ meter[c] \in MeterType /\ total' = total /\ totalCount' = totalCount /\ straddled' = straddled
      /\ diagnosed' = diagnosed /\ idleMax' = idleMax /\ idleSeen' = idleSeen /\ pooled' = pooled
  BY <1>1 DEF PoolChunk, Working
<1>9. CASE pool' = pool
  <2>1. PICK r \in WorkerType : r = [worker[w] EXCEPT !.steps = t]
    BY <1>2 DEF WorkerType
  <2>2. r.steps = t /\ r.cache = c /\ r.taken = worker[w].taken
    BY <1>2, <2>1 DEF WorkerType
  <2>3. worker' = [worker EXCEPT ![w] = r]
    BY <1>2, <1>9, <2>1 DEF PoolChunk, Does
  <2>4. unpooled(r) = 0 /\ t[1].do \notin {"tell", "countAll"}
    BY <1>4, <2>2 DEF CalmAt, Calm, unpooled
  <2>5. pooled' + (unpooled(r) - unpooled(worker[w])) = pooled + (pool' - pool)
    BY <1>5, <1>7, <1>8, <1>9, <2>4
  <2>6. worker[w].steps[1].do \notin {"tell", "countAll"}
    BY <1>2, <1>3
  <2>7. Shape(r.steps) /\ Ordered(r.steps) /\ SameSpecial(r.steps, worker[w].steps)
        /\ (r.steps = <<>> \/ r.steps[1].do \notin {"tell", "countAll"})
    BY <1>2, <1>4, <2>2, <2>4
  <2> QED BY <1>0, <1>2, <1>5, <1>6, <1>8, <2>2, <2>3, <2>5, <2>6, <2>7, PoolMoves
<1>10. CASE pool' # pool
  <2>0. pool' - pool \in Int
    BY <1>5, <1>6
  <2>1. PICK d \in Int : d = pool' - pool
    BY <2>0
  <2>2. PICK q : q = <<step("pooled", "pool", d)>> \o t
    OBVIOUS
  <2>3. /\ q \in Seq(Steps) /\ q # <<>> /\ Shape(q) /\ Ordered(q)
        /\ q[1] = step("pooled", "pool", d) /\ SameSpecial(q, t)
    BY <1>2, <1>4, <2>2, PooledFirst DEF CalmAt
  <2>4. PICK r \in WorkerType : r = [[worker[w] EXCEPT !.steps = t] EXCEPT !.steps = q]
    BY <1>2, <2>3 DEF WorkerType
  <2>5. r.steps = q /\ r.cache = c /\ r.taken = worker[w].taken
    BY <1>2, <2>4 DEF WorkerType
  <2>6. worker' = [worker EXCEPT ![w] = r]
    <3>1. Does(w, [skip(w, 1) EXCEPT !.steps = <<step("pooled", "pool", pool' - pool)>> \o @])
      BY <1>10 DEF PoolChunk
    <3>2. [worker[w] EXCEPT !.steps = t].steps = t
      BY <1>2 DEF WorkerType
    <3>3. [skip(w, 1) EXCEPT !.steps = <<step("pooled", "pool", pool' - pool)>> \o @] = r
      BY <1>2, <2>1, <2>2, <2>4, <3>2
    <3> QED BY <3>1, <3>3 DEF Does
  <2>7. unpooled(r) = d /\ q[1].do = "pooled"
    BY <2>3, <2>5 DEF unpooled, step
  <2>8. pooled' + (unpooled(r) - unpooled(worker[w])) = pooled + (pool' - pool)
    <3>1. unpooled(r) - unpooled(worker[w]) = d
      BY <1>7, <2>7
    <3>2. pooled' + d = pooled + (pool' - pool)
      BY <1>8, <2>1
    <3> QED BY <3>1, <3>2
  <2>9. worker[w].steps[1].do \notin {"tell", "countAll"}
    BY <1>2, <1>3
  <2>10. Shape(r.steps) /\ Ordered(r.steps) /\ SameSpecial(r.steps, worker[w].steps)
         /\ (r.steps = <<>> \/ r.steps[1].do \notin {"tell", "countAll"})
    BY <1>2, <1>4, <2>3, <2>5, <2>7 DEF SameSpecial
  <2> QED BY <1>0, <1>2, <1>5, <1>6, <1>8, <2>5, <2>6, <2>8, <2>9, <2>10, PoolMoves
<1> QED BY <1>9, <1>10

LEMMA CountPooledMoves ==
  ASSUME MetricsInv, foundBytes' = foundBytes, NEW w \in MeterWorkers, CountPooled(w)
  PROVE  MetricsInv'
<1>0. Structure /\ Balance /\ worker[w].steps # <<>>
  BY DEF MetricsInv, CountPooled, Doing
<1>1. PICK s, t, c : Working(w, s, t, c)
  BY <1>0, BusyWorker
<1>2. /\ s = worker[w].steps /\ c = worker[w].cache /\ c \in MeteredCaches /\ worker[w] \in WorkerType
      /\ skip(w, 1) = [worker[w] EXCEPT !.steps = t] /\ After(s, t)
      /\ t \in Seq(Steps) /\ Shape(t) /\ Ordered(t)
  BY <1>1 DEF Working
<1>3. s[1].do = "pooled" /\ amountOf(w) = s[1].by /\ s[1].by \in Int
  BY <1>1 DEF Working, CountPooled
<1>4. SameSpecial(t, s) /\ CalmAt(t)
  BY <1>2, <1>3, SimpleRest DEF Special
<1>5. pool \in 0..PoolLimit /\ pool \in Int /\ pooled \in Int
  BY <1>0, MetricsAssumption DEF Balance
<1>6. /\ meter' = [meter EXCEPT ![c] = meter[c]] /\ meter[c] \in MeterType /\ total' = total
      /\ totalCount' = totalCount /\ straddled' = straddled
      /\ diagnosed' = diagnosed /\ idleMax' = idleMax /\ idleSeen' = idleSeen /\ pool' = pool
      /\ pooled' = pooled + s[1].by
  BY <1>1, <1>3 DEF CountPooled, Working
<1>7. PICK r \in WorkerType : r = [worker[w] EXCEPT !.steps = t]
  BY <1>2 DEF WorkerType
<1>8. r.steps = t /\ r.cache = c /\ r.taken = worker[w].taken
  BY <1>2, <1>7 DEF WorkerType
<1>9. worker' = [worker EXCEPT ![w] = r]
  BY <1>2, <1>7 DEF CountPooled, Does
<1>10. unpooled(worker[w]) = s[1].by
  BY <1>0, <1>2, <1>3 DEF unpooled
<1>11. unpooled(r) = 0 /\ (t = <<>> \/ t[1].do \notin {"tell", "countAll"})
  BY <1>4, <1>8 DEF CalmAt, Calm, unpooled
<1>12. /\ pooled' + (unpooled(r) - unpooled(worker[w])) = pooled + (pool' - pool) /\ pooled' \in Int
       /\ pool' \in 0..PoolLimit
  BY <1>3, <1>5, <1>6, <1>10, <1>11
<1>13. /\ Shape(r.steps) /\ Ordered(r.steps) /\ SameSpecial(r.steps, worker[w].steps)
       /\ r.steps = <<>> \/ r.steps[1].do \notin {"tell", "countAll"}
       /\ worker[w].steps[1].do \notin {"tell", "countAll"}
  BY <1>2, <1>3, <1>4, <1>8, <1>11
<1> QED BY <1>0, <1>2, <1>6, <1>8, <1>9, <1>12, <1>13, PoolMoves

\* trimReusableMemPieceChunks.
LEMMA TrimPoolMoves ==
  ASSUME MetricsInv, foundBytes' = foundBytes, NEW w \in MeterWorkers, TrimPool(w)
  PROVE  MetricsInv'
<1>0. Structure /\ Balance /\ worker[w].steps # <<>>
  BY DEF MetricsInv, TrimPool, Doing
<1>1. PICK s, t, c : Working(w, s, t, c)
  BY <1>0, BusyWorker
<1>2. /\ s = worker[w].steps /\ c = worker[w].cache /\ c \in MeteredCaches /\ worker[w] \in WorkerType
      /\ skip(w, 1) = [worker[w] EXCEPT !.steps = t] /\ After(s, t)
      /\ s \in Seq(Steps) /\ s # <<>> /\ Shape(s) /\ Ordered(s)
      /\ t \in Seq(Steps) /\ Shape(t) /\ Ordered(t)
  BY <1>1 DEF Working
<1>3. s[1].do = "trim"
  BY <1>1 DEF Working, TrimPool
<1>4. SameSpecial(t, s) /\ CalmAt(t)
  BY <1>2, <1>3, SimpleRest DEF Special
<1>5. pool \in 0..PoolLimit /\ pool \in Int /\ PoolLimit \in Int /\ pooled \in Int
  BY <1>0, MetricsAssumption DEF Balance
<1>6. /\ meter' = [meter EXCEPT ![c] = meter[c]] /\ meter[c] \in MeterType /\ total' = total
      /\ totalCount' = totalCount /\ straddled' = straddled
      /\ diagnosed' = diagnosed /\ idleMax' = idleMax /\ idleSeen' = idleSeen /\ pooled' = pooled
  BY <1>1 DEF TrimPool, Working
<1>7. unpooled(worker[w]) = 0
  BY <1>2, <1>3 DEF unpooled
<1>8. worker[w].steps[1].do \notin {"tell", "countAll"}
  BY <1>2, <1>3
<1>9. CASE pooled > 0 /\ pool > 0
  <2>1. PICK d \in Int : d = -1
    OBVIOUS
  <2>2. PICK q : q = <<step("pooled", "pool", d)>> \o s
    OBVIOUS
  <2>3. /\ q \in Seq(Steps) /\ q # <<>> /\ Shape(q) /\ Ordered(q)
        /\ q[1] = step("pooled", "pool", d) /\ SameSpecial(q, s)
    BY <1>2, <1>3, <2>2, PooledFirst DEF Calm
  <2>4. PICK r \in WorkerType : r = [worker[w] EXCEPT !.steps = q]
    BY <1>2, <2>3 DEF WorkerType
  <2>5. r.steps = q /\ r.cache = c /\ r.taken = worker[w].taken
    BY <1>2, <2>4 DEF WorkerType
  <2>6. worker' = [worker EXCEPT ![w] = r] /\ pool' = pool - 1
    <3>1. Does(w, [worker[w] EXCEPT !.steps = <<step("pooled", "pool", -1)>> \o @]) /\ pool' = pool - 1
      BY <1>9 DEF TrimPool
    <3>2. [worker[w] EXCEPT !.steps = <<step("pooled", "pool", -1)>> \o @] = r
      BY <1>2, <2>1, <2>2, <2>4
    <3> QED BY <3>1, <3>2 DEF Does
  <2>7. unpooled(r) = d /\ q[1].do = "pooled"
    BY <2>3, <2>5 DEF unpooled, step
  <2>8. /\ pooled' + (unpooled(r) - unpooled(worker[w])) = pooled + (pool' - pool)
        /\ pool' \in 0..PoolLimit /\ pooled' \in Int
    <3>1. unpooled(r) - unpooled(worker[w]) = -1 /\ pool' - pool = -1
      BY <1>5, <1>7, <2>1, <2>6, <2>7
    <3> QED BY <1>5, <1>6, <1>9, <2>6, <3>1
  <2>9. Shape(r.steps) /\ Ordered(r.steps) /\ SameSpecial(r.steps, worker[w].steps)
        /\ (r.steps = <<>> \/ r.steps[1].do \notin {"tell", "countAll"})
    BY <1>2, <2>3, <2>5, <2>7
  <2> QED BY <1>0, <1>2, <1>6, <1>8, <2>5, <2>6, <2>8, <2>9, PoolMoves
<1>10. CASE ~(pooled > 0 /\ pool > 0)
  <2>1. PICK r \in WorkerType : r = [worker[w] EXCEPT !.steps = t]
    BY <1>2 DEF WorkerType
  <2>2. r.steps = t /\ r.cache = c /\ r.taken = worker[w].taken
    BY <1>2, <2>1 DEF WorkerType
  <2>3. worker' = [worker EXCEPT ![w] = r] /\ pool' = pool
    BY <1>2, <1>10, <2>1 DEF TrimPool, Does
  <2>4. unpooled(r) = 0 /\ (t = <<>> \/ t[1].do \notin {"tell", "countAll"})
    BY <1>4, <2>2 DEF CalmAt, Calm, unpooled
  <2>5. /\ pooled' + (unpooled(r) - unpooled(worker[w])) = pooled + (pool' - pool)
        /\ pool' \in 0..PoolLimit /\ pooled' \in Int
    BY <1>5, <1>6, <1>7, <2>3, <2>4
  <2>6. Shape(r.steps) /\ Ordered(r.steps) /\ SameSpecial(r.steps, worker[w].steps)
        /\ (r.steps = <<>> \/ r.steps[1].do \notin {"tell", "countAll"})
    BY <1>2, <1>4, <2>2, <2>4
  <2> QED BY <1>0, <1>2, <1>6, <1>8, <2>2, <2>3, <2>5, <2>6, PoolMoves
<1> QED BY <1>9, <1>10

\* releaseInMemoryPieces.
LEMMA ReleaseInMemoryMoves ==
  ASSUME MetricsInv, foundBytes' = foundBytes, NEW w \in MeterWorkers, ReleaseInMemory(w)
  PROVE  MetricsInv'
<1>0. Structure /\ Balance /\ worker[w].steps # <<>>
  BY DEF MetricsInv, ReleaseInMemory, Doing
<1>1. PICK s, t, c : Working(w, s, t, c)
  BY <1>0, BusyWorker
<1>2. /\ s = worker[w].steps /\ c = worker[w].cache /\ c \in MeteredCaches /\ worker[w] \in WorkerType
      /\ skip(w, 1) = [worker[w] EXCEPT !.steps = t] /\ After(s, t) /\ cacheOf(w) = c
      /\ t \in Seq(Steps) /\ Shape(t) /\ Ordered(t)
  BY <1>1 DEF Working
<1>3. s[1].do = "release"
  BY <1>1 DEF Working, ReleaseInMemory
<1>4. SameSpecial(t, s) /\ CalmAt(t) /\ CalmAt(s) /\ t # <<>>
  <2>1. SameSpecial(t, s) /\ CalmAt(t) /\ CalmAt(s) /\ Opens(s[1])
    BY <1>2, <1>3, SimpleRest DEF Special, CalmAt, Calm, Opens
  <2> QED BY <1>2, <2>1 DEF After
<1>5. /\ meter' = [meter EXCEPT ![c] = meter[c]] /\ meter[c] \in MeterType /\ total' = total
      /\ totalCount' = totalCount /\ straddled' = straddled /\ pool' = pool
      /\ diagnosed' = diagnosed /\ idleMax' = idleSeen' /\ pooled' = pooled
  BY <1>0, <1>1 DEF ReleaseInMemory, Working, Balance
<1>6. CASE meter[c].held /\ ~meter[c].disk
  <2>1. PICK q : q = releaseChunk \o t
    OBVIOUS
  <2>2. /\ Follows(step("unlock", "held", 0), t[1]) /\ ~Opens(step("unlock", "held", 0))
        /\ step("put", "pool", 0).do = "put"
    BY <1>4 DEF Follows, CalmAt, Opens, step
  <2>3. /\ q \in Seq(Steps) /\ q # <<>> /\ Shape(q) /\ Ordered(q) /\ q[1] = step("put", "pool", 0)
        /\ \A d \in {"unset", "take", "subtract", "diagnose", "undiagnose"} : Has(q, d) <=> Has(t, d)
        /\ \A g : Takes(q, g) <=> Takes(t, g)
    BY <1>2, <1>4, <2>1, <2>2, WorkRelease, WorkBefore
  <2>4. SameSpecial(q, s) /\ CalmAt(q)
    BY <1>4, <2>2, <2>3 DEF SameSpecial, Special, CalmAt, Calm
  <2>5. PICK r \in WorkerType : r = [[[worker[w] EXCEPT !.steps = t] EXCEPT !.steps = q] EXCEPT !.locks = TRUE]
    BY <1>2, <2>3 DEF WorkerType
  <2>6. r.steps = q /\ r.cache = c /\ r.taken = worker[w].taken
    BY <1>2, <2>5 DEF WorkerType
  <2>7. worker' = [worker EXCEPT ![w] = r]
    <3>1. Does(w, [skip(w, 1) EXCEPT !.steps = releaseChunk \o @, !.locks = TRUE])
      BY <1>2, <1>6 DEF ReleaseInMemory
    <3>2. [worker[w] EXCEPT !.steps = t].steps = t
      BY <1>2 DEF WorkerType
    <3>3. [skip(w, 1) EXCEPT !.steps = releaseChunk \o @, !.locks = TRUE] = r
      BY <1>2, <2>1, <2>5, <3>2
    <3> QED BY <3>1, <3>3 DEF Does
  <2> QED BY <1>0, <1>2, <1>4, <1>5, <2>3, <2>4, <2>6, <2>7, SimpleMoves
<1>7. CASE ~(meter[c].held /\ ~meter[c].disk)
  <2>1. PICK r \in WorkerType : r = [worker[w] EXCEPT !.steps = t]
    BY <1>2 DEF WorkerType
  <2>2. r.steps = t /\ r.cache = c /\ r.taken = worker[w].taken
    BY <1>2, <2>1 DEF WorkerType
  <2>3. worker' = [worker EXCEPT ![w] = r]
    BY <1>2, <1>7, <2>1 DEF ReleaseInMemory, Does
  <2> QED BY <1>0, <1>2, <1>4, <1>5, <2>2, <2>3, SimpleMoves
<1> QED BY <1>6, <1>7

\* A mark or unmark and the change of the gauge that goes with it.
LEMMA SkipThree ==
  ASSUME NEW s \in Seq(Steps), s # <<>>, Shape(s), Ordered(s), s[1].do \in {"mark", "unmark"}
  PROVE  /\ SubSeq(s, 3 + 1, Len(s)) \in Seq(Steps) /\ Shape(SubSeq(s, 3 + 1, Len(s)))
         /\ Ordered(SubSeq(s, 3 + 1, Len(s)))
         /\ SameSpecial(SubSeq(s, 3 + 1, Len(s)), s) /\ CalmAt(SubSeq(s, 3 + 1, Len(s)))
<1>1. PICK t : t = SubSeq(s, 1 + 1, Len(s))
  OBVIOUS
<1>2. After(s, t)
  BY <1>1, RestKeeps
<1>3. t \in Seq(Steps) /\ t # <<>> /\ Shape(t) /\ Ordered(t) /\ t[1].do = "change"
  BY <1>2 DEF After, Opens, Follows
<1>4. PICK u : u = SubSeq(t, 1 + 1, Len(t))
  OBVIOUS
<1>5. After(t, u)
  BY <1>3, <1>4, RestKeeps
<1>6. u \in Seq(Steps) /\ u # <<>> /\ Shape(u) /\ Ordered(u) /\ u[1].do = "tell"
  BY <1>3, <1>5 DEF After, Opens, Follows
<1>7. PICK x : x = SubSeq(u, 1 + 1, Len(u))
  OBVIOUS
<1>8. After(u, x)
  BY <1>6, <1>7, RestKeeps
<1>9. x \in Seq(Steps) /\ Shape(x) /\ Ordered(x)
  BY <1>8 DEF After
<1>10. SameSpecial(t, s) /\ SameSpecial(u, t) /\ SameSpecial(x, u) /\ CalmAt(x)
  BY <1>2, <1>3, <1>5, <1>6, <1>8, SimpleRest DEF Special
<1>11. SameSpecial(x, s)
  BY <1>10 DEF SameSpecial
<1>12. SubSeq(s, 3 + 1, Len(s)) = x
  <2>1. /\ Len(s) \in Nat /\ Len(s) >= 1 /\ Len(t) \in Nat /\ Len(t) >= 1
        /\ Len(u) \in Nat /\ Len(u) >= 1
    BY <1>3, <1>6
  <2>2. Len(t) = Len(s) - 1 /\ \A i \in 1..(Len(s) - 1) : t[i] = s[1 + i]
    BY <1>1, <2>1, Rest
  <2>3. Len(u) = Len(t) - 1 /\ \A i \in 1..(Len(t) - 1) : u[i] = t[1 + i]
    BY <1>3, <1>4, <2>1, Rest
  <2>4. Len(x) = Len(u) - 1 /\ \A i \in 1..(Len(u) - 1) : x[i] = u[1 + i]
    <3>1. 1 \in 1..Len(u) /\ u \in Seq(Steps)
      BY <1>6, <2>1
    <3>2. /\ Len(SubSeq(u, 1 + 1, Len(u))) = Len(u) - 1
          /\ \A i \in 1..(Len(u) - 1) : SubSeq(u, 1 + 1, Len(u))[i] = u[1 + i]
      BY <3>1, Rest
    <3> QED BY <1>7, <3>2
  <2>5. 3 \in 1..Len(s)
    BY <2>1, <2>2, <2>3
  <2>6. PICK y : y = SubSeq(s, 3 + 1, Len(s))
    OBVIOUS
  <2>7. y \in Seq(Steps) /\ Len(y) = Len(s) - 3 /\ \A i \in 1..(Len(s) - 3) : y[i] = s[3 + i]
    BY <2>5, <2>6, Rest
  <2>8. Len(y) = Len(x)
    BY <2>1, <2>2, <2>3, <2>4, <2>7
  <2>9. ASSUME NEW i \in 1..Len(y) PROVE y[i] = x[i]
    <3>1. /\ i \in Int /\ i \in 1..(Len(u) - 1) /\ 1 + i \in 1..(Len(t) - 1) /\ 1 + (1 + i) \in 1..(Len(s) - 1)
          /\ 1 + (1 + (1 + i)) = 3 + i /\ i \in 1..(Len(s) - 3)
      BY <2>1, <2>2, <2>3, <2>7
    <3>2. x[i] = u[1 + i] /\ u[1 + i] = t[1 + (1 + i)] /\ t[1 + (1 + i)] = s[1 + (1 + (1 + i))]
      BY <2>2, <2>3, <2>4, <3>1
    <3> QED BY <2>7, <3>1, <3>2
  <2>10. y = x
    BY <1>9, <2>7, <2>8, <2>9, SeqEqual
  <2> QED BY <2>6, <2>10
<1> QED BY <1>9, <1>10, <1>11, <1>12

\* markResidentPiece and unmarkResidentPiece.
LEMMA MarkResidentMoves ==
  ASSUME MetricsInv, foundBytes' = foundBytes, NEW w \in MeterWorkers, MarkResident(w)
  PROVE  MetricsInv'
<1>0. Structure /\ Balance /\ worker[w].steps # <<>>
  BY DEF MetricsInv, MarkResident, Doing
<1>1. PICK s, t, c : Working(w, s, t, c)
  BY <1>0, BusyWorker
<1>2. /\ s = worker[w].steps /\ c = worker[w].cache /\ c \in MeteredCaches /\ worker[w] \in WorkerType
      /\ skip(w, 1) = [worker[w] EXCEPT !.steps = t] /\ After(s, t) /\ cacheOf(w) = c
      /\ t \in Seq(Steps) /\ Shape(t) /\ Ordered(t)
      /\ s \in Seq(Steps) /\ s # <<>> /\ Shape(s) /\ Ordered(s) /\ meter[c] \in MeterType
      /\ worker \in [MeterWorkers -> WorkerType] /\ meter \in [MeteredCaches -> MeterType]
  BY <1>1 DEF Working
<1>3. s[1].do \in {"mark", "unmark"}
  BY <1>1 DEF Working, MarkResident
<1>4. SameSpecial(t, s) /\ CalmAt(t) /\ CalmAt(s)
  BY <1>2, <1>3, SimpleRest DEF Special, CalmAt, Calm
<1>5. /\ total' = total /\ totalCount' = totalCount /\ straddled' = straddled /\ pool' = pool
      /\ diagnosed' = diagnosed /\ idleMax' = idleSeen' /\ pooled' = pooled
  BY <1>0 DEF MarkResident, Balance
<1>6. CASE \E how \in {"yes", "no"} : meter' = [meter EXCEPT ![c].marked = how] /\ Does(w, skip(w, 1))
  <2>1. PICK how \in {"yes", "no"} : meter' = [meter EXCEPT ![c].marked = how] /\ Does(w, skip(w, 1))
    BY <1>6
  <2>2. PICK r \in WorkerType : r = [worker[w] EXCEPT !.steps = t]
    BY <1>2 DEF WorkerType
  <2>3. r.steps = t /\ r.cache = c /\ r.taken = worker[w].taken
    BY <1>2, <2>2 DEF WorkerType
  <2>4. PICK m \in MeterType : m = [meter[c] EXCEPT !.marked = how]
    BY <1>2 DEF MeterType
  <2>5. /\ m.open = meter[c].open /\ m.closed = meter[c].closed /\ m.registered = meter[c].registered
        /\ m.gone = meter[c].gone /\ m.gauge = meter[c].gauge /\ m.count = meter[c].count
    BY <1>2, <2>4 DEF MeterType
  <2>6. worker' = [worker EXCEPT ![w] = r] /\ meter' = [meter EXCEPT ![c] = m]
    BY <1>2, <2>1, <2>2, <2>4 DEF Does
  <2> QED BY <1>0, <1>2, <1>4, <1>5, <2>3, <2>5, <2>6, SimpleMoves
<1>7. CASE Does(w, skip(w, 3)) /\ meter' = meter
  <2>1. PICK x : x = SubSeq(s, 3 + 1, Len(s))
    OBVIOUS
  <2>2. x \in Seq(Steps) /\ Shape(x) /\ Ordered(x) /\ SameSpecial(x, s) /\ CalmAt(x)
    BY <1>2, <1>3, <2>1, SkipThree
  <2>3. PICK r \in WorkerType : r = [worker[w] EXCEPT !.steps = x]
    BY <1>2, <2>2 DEF WorkerType
  <2>4. r.steps = x /\ r.cache = c /\ r.taken = worker[w].taken
    BY <1>2, <2>3 DEF WorkerType
  <2>5. skip(w, 3) = r
    BY <1>2, <2>1, <2>3 DEF skip
  <2>6. worker' = [worker EXCEPT ![w] = r] /\ meter' = [meter EXCEPT ![c] = meter[c]]
    BY <1>2, <1>7, <2>5 DEF Does
  <2> QED BY <1>0, <1>2, <1>4, <1>5, <2>2, <2>4, <2>6, SimpleMoves
<1>8. \/ \E how \in {"yes", "no"} : meter' = [meter EXCEPT ![c].marked = how] /\ Does(w, skip(w, 1))
      \/ Does(w, skip(w, 3)) /\ meter' = meter
  BY <1>2 DEF MarkResident
<1> QED BY <1>6, <1>7, <1>8

\* record: a cache's counter and then the global one.
LEMMA CountMoves ==
  ASSUME MetricsInv, foundBytes' = foundBytes, NEW w \in MeterWorkers, Count(w)
  PROVE  MetricsInv'
<1>0. Structure /\ Balance /\ worker[w].steps # <<>>
  BY DEF MetricsInv, Count, Doing
<1>1. PICK s, t, c : Working(w, s, t, c)
  BY <1>0, BusyWorker
<1>2. /\ s = worker[w].steps /\ c = worker[w].cache /\ c \in MeteredCaches /\ worker[w] \in WorkerType
      /\ skip(w, 1) = [worker[w] EXCEPT !.steps = t] /\ After(s, t) /\ cacheOf(w) = c
      /\ t \in Seq(Steps) /\ Shape(t) /\ Ordered(t) /\ meter[c] \in MeterType /\ s # <<>>
      /\ worker \in [MeterWorkers -> WorkerType] /\ meter \in [MeteredCaches -> MeterType]
  BY <1>1 DEF Working
<1>3. PICK k \in Counters : k = s[1].on /\ gaugeOf(w) = k
  BY <1>1 DEF Working, Count, StepOk
<1>4. s[1].do \in {"count", "countAll"}
  BY <1>1 DEF Working, Count
<1>5. SameSpecial(t, s)
  BY <1>2, <1>4, SimpleRest DEF Special
<1>6. /\ total' = total /\ straddled' = straddled /\ pool' = pool /\ pooled' = pooled
      /\ diagnosed' = diagnosed /\ idleMax' = idleSeen'
      /\ total \in [Gauges -> Int] /\ totalCount \in [Counters -> Int]
      /\ pool \in 0..PoolLimit /\ pooled \in Int /\ pool \in Int
  BY <1>0, MetricsAssumption DEF Count, Balance
<1>7. PICK r \in WorkerType : r = [worker[w] EXCEPT !.steps = t]
  BY <1>2 DEF WorkerType
<1>8. r.steps = t /\ r.cache = c /\ r.taken = worker[w].taken
  BY <1>2, <1>7 DEF WorkerType
<1>9. worker' = [worker EXCEPT ![w] = r]
  BY <1>2, <1>7 DEF Count, Does
<1>10. ASSUME NEW m \in MeterType, meter' = [meter EXCEPT ![c] = m],
              m.open = meter[c].open, m.closed = meter[c].closed, m.registered = meter[c].registered,
              m.gone = meter[c].gone, m.gauge = meter[c].gauge, totalCount' \in [Counters -> Int],
              t = <<>> \/ t[1].do \notin {"tell", "pooled"},
              \A j \in Counters : totalCount'[j] + (uncounted(r, j) - uncounted(worker[w], j))
                                    = totalCount[j] + (m.count[j] - meter[c].count[j])
       PROVE  MetricsInv'
  <2>1. MeterMove(w, c, r, m) /\ \A g : taking(r, g) = taking(worker[w], g)
    <3>1. Shape(r.steps) /\ Ordered(r.steps) /\ SameSpecial(r.steps, worker[w].steps)
          /\ (r.steps # <<>> /\ r.steps[1].do = "tell" /\ r.late => ~m.registered)
      BY <1>2, <1>5, <1>8, <1>10
    <3> QED BY <1>0, <1>2, <1>6, <1>8, <1>9, <1>10, <3>1, QuietMove
  <2>2. \A g : untold(r, g) = 0 /\ untold(worker[w], g) = 0
    BY <1>2, <1>4, <1>8, <1>10 DEF untold
  <2>3. \A g \in Gauges : owes(r, g) = owes(worker[w], g) /\ owes(worker[w], g) \in Int
    BY <1>0, <2>1, <2>2, WorkersOwe DEF owes
  <2>4. \A g \in Gauges : part(m, g) = part(meter[c], g) /\ part(m, g) \in Int
    BY <1>10, PartsInt DEF part
  <2>5. \A g \in Gauges :
          total'[g] + unsaid(g)'
            = total[g] + unsaid(g) + (part(m, g) - part(meter[c], g)) + (owes(r, g) - owes(worker[w], g))
    BY <1>0, <1>6, <2>3, <2>4, NothingFound
  <2>6. unpooled(r) = 0 /\ unpooled(worker[w]) = 0
    BY <1>2, <1>4, <1>8, <1>10 DEF unpooled
  <2>7. pooled' + (unpooled(r) - unpooled(worker[w])) = pooled + (pool' - pool)
    BY <1>6, <2>6
  <2>8. NumbersMove(w, c, r, m)
    BY <1>0, <1>6, <1>10, <2>5, <2>7, NothingFound DEF NumbersMove
  <2> QED BY <1>2, <2>1, <2>8, Moves
<1>11. meter[c].count \in [Counters -> Int]
  BY <1>2 DEF MeterType
<1>12. CASE s[1].do = "count"
  <2>1. meter' = [meter EXCEPT ![c].count[k] = @ + 1] /\ totalCount' = totalCount
    BY <1>1, <1>2, <1>3, <1>12 DEF Count, Working
  <2>2. PICK n \in [Counters -> Int] : n = [meter[c].count EXCEPT ![k] = @ + 1]
    <3>1. meter[c].count[k] + 1 \in Int
      BY <1>11
    <3>2. [meter[c].count EXCEPT ![k] = @ + 1] \in [Counters -> Int]
      BY <1>11, <3>1
    <3> QED BY <3>2
  <2>3. PICK m \in MeterType : m = [meter[c] EXCEPT !.count = n]
    BY <1>2 DEF MeterType
  <2>4. /\ m.open = meter[c].open /\ m.closed = meter[c].closed /\ m.registered = meter[c].registered
        /\ m.gone = meter[c].gone /\ m.gauge = meter[c].gauge /\ m.count = n
    BY <1>2, <2>3 DEF MeterType
  <2>5. meter' = [meter EXCEPT ![c] = m]
    BY <1>2, <2>1, <2>2, <2>3
  <2>6. t # <<>> /\ t[1].do = "countAll" /\ t[1].on = k
    BY <1>2, <1>3, <1>12 DEF After, Opens, Follows
  <2>7. ASSUME NEW j \in Counters
        PROVE  totalCount'[j] + (uncounted(r, j) - uncounted(worker[w], j))
                 = totalCount[j] + (m.count[j] - meter[c].count[j])
    <3>1. uncounted(worker[w], j) = 0
      BY <1>2, <1>12 DEF uncounted
    <3>2. uncounted(r, j) = IF j = k THEN 1 ELSE 0
      BY <1>8, <2>6 DEF uncounted
    <3>3. m.count[j] = (IF j = k THEN meter[c].count[j] + 1 ELSE meter[c].count[j]) /\ meter[c].count[j] \in Int
      BY <1>11, <2>2, <2>4
    <3>4. totalCount'[j] = totalCount[j] /\ totalCount[j] \in Int
      BY <1>6, <2>1
    <3> QED BY <3>1, <3>2, <3>3, <3>4
  <2>8. totalCount' \in [Counters -> Int] /\ t[1].do \notin {"tell", "pooled"}
    BY <1>6, <2>1, <2>6
  <2> QED BY <1>10, <2>4, <2>5, <2>7, <2>8
<1>13. CASE s[1].do = "countAll"
  <2>1. meter' = meter /\ totalCount' = [totalCount EXCEPT ![k] = @ + 1]
    BY <1>1, <1>2, <1>3, <1>13 DEF Count, Working
  <2>2. PICK m \in MeterType : m = meter[c]
    BY <1>2
  <2>3. meter' = [meter EXCEPT ![c] = m]
    BY <1>2, <2>1, <2>2
  <2>4. CalmAt(t)
    BY <1>2, <1>13, SimpleRest DEF Special
  <2>5. t = <<>> \/ t[1].do \notin {"tell", "pooled", "countAll"}
    BY <2>4 DEF CalmAt, Calm
  <2>6. ASSUME NEW j \in Counters
        PROVE  totalCount'[j] + (uncounted(r, j) - uncounted(worker[w], j))
                 = totalCount[j] + (m.count[j] - meter[c].count[j])
    <3>1. uncounted(worker[w], j) = IF j = k THEN 1 ELSE 0
      BY <1>2, <1>3, <1>13 DEF uncounted
    <3>2. uncounted(r, j) = 0
      BY <1>8, <2>5 DEF uncounted
    <3>3. m.count[j] - meter[c].count[j] = 0
      BY <1>11, <2>2
    <3>4. totalCount'[j] = (IF j = k THEN totalCount[j] + 1 ELSE totalCount[j]) /\ totalCount[j] \in Int
      BY <1>6, <2>1
    <3> QED BY <3>1, <3>2, <3>3, <3>4
  <2>7. totalCount' \in [Counters -> Int]
    BY <1>6, <2>1
  <2> QED BY <1>10, <2>2, <2>3, <2>5, <2>6, <2>7
<1> QED BY <1>4, <1>12, <1>13

\* A step on a gauge or on the sum of one.
GaugeMove(w, c, r, m) ==
  /\ worker[w].steps # <<>> /\ c = worker[w].cache
  /\ worker' = [worker EXCEPT ![w] = r] /\ meter' = [meter EXCEPT ![c] = m]
  /\ r.cache = c /\ r.taken = worker[w].taken /\ Shape(r.steps) /\ Ordered(r.steps)
  /\ SameSpecial(r.steps, worker[w].steps)
  /\ worker[w].steps[1].do \notin {"pooled", "countAll"}
  /\ r.steps = <<>> \/ r.steps[1].do \notin {"pooled", "countAll"}
  /\ r.steps # <<>> /\ r.steps[1].do = "tell" /\ r.late => ~m.registered
  /\ m.open = meter[c].open /\ m.closed = meter[c].closed /\ m.registered = meter[c].registered
  /\ m.gone = meter[c].gone /\ m.count = meter[c].count
  /\ totalCount' = totalCount /\ pool' = pool /\ pooled' = pooled /\ diagnosed' = diagnosed
  /\ idleMax' = idleMax /\ idleSeen' = idleSeen /\ straddled \subseteq straddled'
  /\ total' \in [Gauges -> Int]
  /\ \A g \in Gauges \ straddled' :
       total'[g] = total[g] + (part(m, g) - part(meter[c], g)) + (untold(worker[w], g) - untold(r, g))

LEMMA GaugeMoves ==
  ASSUME MetricsInv, foundBytes' = foundBytes, NEW w \in MeterWorkers, NEW c, NEW r \in WorkerType, NEW m \in MeterType,
         GaugeMove(w, c, r, m)
  PROVE  MetricsInv'
<1> USE DEF GaugeMove
<1>1. Structure /\ Balance /\ c \in MeteredCaches
  BY DEF MetricsInv, Structure
<1>2. MeterMove(w, c, r, m) /\ \A g : taking(r, g) = taking(worker[w], g)
  BY <1>1, QuietMove
<1>3. /\ worker[w] \in WorkerType /\ \A i \in 1..Len(worker[w].steps) : StepOk(worker[w].steps[i])
      /\ \A i \in 1..Len(r.steps) : StepOk(r.steps[i])
  BY <1>1 DEF Structure, WorkerOk, Shape, Linked
<1>4. \A g \in Gauges : /\ taking(worker[w], g) \in Int /\ untold(worker[w], g) \in Int
                        /\ untold(r, g) \in Int
  BY <1>3, OwesInt
<1>5. ASSUME NEW g \in Gauges
      PROVE  owes(r, g) - owes(worker[w], g) = untold(worker[w], g) - untold(r, g)
  <2>1. PICK k \in Int : k = taking(worker[w], g) /\ k = taking(r, g)
    BY <1>2, <1>4
  <2>2. PICK a \in Int, b \in Int : a = untold(worker[w], g) /\ b = untold(r, g)
    BY <1>4
  <2>3. owes(r, g) = k - b /\ owes(worker[w], g) = k - a
    BY <2>1, <2>2 DEF owes
  <2> QED BY <2>2, <2>3
<1>6. \A g \in Gauges \ straddled' :
        total'[g] + unsaid(g)'
          = total[g] + unsaid(g) + (part(m, g) - part(meter[c], g)) + (owes(r, g) - owes(worker[w], g))
  <2> SUFFICES ASSUME NEW g \in Gauges \ straddled'
               PROVE  total'[g] + unsaid(g)'
                        = total[g] + unsaid(g) + (part(m, g) - part(meter[c], g)) + (owes(r, g) - owes(worker[w], g))
    OBVIOUS
  <2>1. PICK a \in Int, b \in Int : a = part(m, g) /\ b = part(meter[c], g)
    BY <1>1, PartsInt DEF Structure
  <2>2. PICK p \in Int, q \in Int : p = untold(worker[w], g) /\ q = untold(r, g)
    BY <1>4
  <2>3. PICK n \in Int : n = unsaid(g) /\ n = unsaid(g)'
    BY <1>1, NothingFound
  <2>4. total[g] \in Int
    BY <1>1 DEF Balance
  <2>5. total'[g] = total[g] + (a - b) + (p - q)
    BY <2>1, <2>2
  <2>6. owes(r, g) - owes(worker[w], g) = p - q
    BY <1>5, <2>2
  <2> QED BY <2>1, <2>3, <2>4, <2>5, <2>6
<1>7. /\ \A k : uncounted(r, k) = 0 /\ uncounted(worker[w], k) = 0
      /\ unpooled(r) = 0 /\ unpooled(worker[w]) = 0
  BY DEF uncounted, unpooled
<1>8. /\ totalCount \in [Counters -> Int] /\ pool \in 0..PoolLimit /\ pooled \in Int /\ pool \in Int
      /\ idleMax = idleSeen
  BY <1>1, MetricsAssumption DEF Balance
<1>9. \A k \in Counters : m.count[k] \in Int
  BY PartsInt
<1>10. \A k \in Counters : totalCount'[k] + (uncounted(r, k) - uncounted(worker[w], k))
                             = totalCount[k] + (m.count[k] - meter[c].count[k])
  BY <1>7, <1>8, <1>9
<1>11. pooled' + (unpooled(r) - unpooled(worker[w])) = pooled + (pool' - pool)
  BY <1>7, <1>8
<1>12. NumbersMove(w, c, r, m)
  BY <1>1, <1>6, <1>8, <1>10, <1>11, NothingFound DEF NumbersMove
<1> QED BY <1>1, <1>2, <1>12, Moves

\* addGauge, setCapacity, setTrackedPriorityPieces: the atomic of the cache.
LEMMA ChangeGaugeMoves ==
  ASSUME MetricsInv, foundBytes' = foundBytes, NEW w \in MeterWorkers, ChangeGauge(w)
  PROVE  MetricsInv'
<1>0. Structure /\ Balance /\ worker[w].steps # <<>>
  BY DEF MetricsInv, ChangeGauge, Doing
<1>1. PICK s, t, c : Working(w, s, t, c)
  BY <1>0, BusyWorker
<1>2. /\ s = worker[w].steps /\ c = worker[w].cache /\ c \in MeteredCaches /\ worker[w] \in WorkerType
      /\ skip(w, 1) = [worker[w] EXCEPT !.steps = t] /\ After(s, t) /\ cacheOf(w) = c
      /\ t \in Seq(Steps) /\ Shape(t) /\ Ordered(t) /\ meter[c] \in MeterType /\ s # <<>>
      /\ worker \in [MeterWorkers -> WorkerType] /\ meter \in [MeteredCaches -> MeterType]
      /\ CacheOk(meter[c])
  BY <1>1 DEF Working
<1>3. s[1].do \in {"change", "set"}
  BY <1>1 DEF Working, ChangeGauge
<1>4. PICK g \in Gauges : g = s[1].on /\ gaugeOf(w) = g
  BY <1>1, <1>3 DEF Working, StepOk
<1>5. SameSpecial(t, s) /\ t # <<>> /\ t[1].do = "tell" /\ t[1].on = g
  BY <1>2, <1>3, <1>4, SimpleRest DEF Special, After, Opens, Follows
<1>6. meter[c].gauge \in [Gauges -> Int] /\ meter[c].gauge[g] \in Int
  BY <1>2 DEF MeterType
<1>7. newValue(w) \in Int
  BY <1>1, <1>2, <1>4, <1>6 DEF newValue, Working
<1>8. PICK v \in Int : v = newValue(w)
  BY <1>7
<1>9. PICK d \in Int : d = v - meter[c].gauge[g]
  BY <1>6
<1>10. PICK l \in BOOLEAN : l = (g \in meter[c].gone)
  <2>1. (g \in meter[c].gone) \in BOOLEAN
    OBVIOUS
  <2> QED BY <2>1, Zenon
<1>11. PICK r \in WorkerType : r = [[[worker[w] EXCEPT !.steps = t] EXCEPT !.change = d] EXCEPT !.late = l]
  BY <1>2 DEF WorkerType
<1>12. r.steps = t /\ r.cache = c /\ r.taken = worker[w].taken /\ r.change = d /\ r.late = l
  BY <1>2, <1>11 DEF WorkerType
<1>13. PICK n \in [Gauges -> Int] : n = [meter[c].gauge EXCEPT ![g] = v]
  BY <1>6
<1>14. PICK m \in MeterType : m = [meter[c] EXCEPT !.gauge = n]
  BY <1>2 DEF MeterType
<1>15. /\ m.open = meter[c].open /\ m.closed = meter[c].closed /\ m.registered = meter[c].registered
       /\ m.gone = meter[c].gone /\ m.gauge = n /\ m.count = meter[c].count
  BY <1>2, <1>14 DEF MeterType
<1>16. /\ worker' = [worker EXCEPT ![w] = r] /\ meter' = [meter EXCEPT ![c] = m]
  <2>1. Does(w, [skip(w, 1) EXCEPT !.change = d, !.late = l])
    BY <1>2, <1>4, <1>8, <1>9, <1>10 DEF ChangeGauge
  <2>2. worker' = [worker EXCEPT ![w] = r]
    BY <1>2, <1>11, <2>1 DEF Does
  <2>3. meter' = [meter EXCEPT ![c].gauge[g] = v]
    BY <1>2, <1>4, <1>8 DEF ChangeGauge
  <2> QED BY <1>2, <1>13, <1>14, <2>2, <2>3
<1>17. /\ totalCount' = totalCount /\ pool' = pool /\ pooled' = pooled /\ diagnosed' = diagnosed
       /\ idleMax' = idleMax /\ idleSeen' = idleSeen /\ straddled' = straddled /\ total' = total
       /\ total \in [Gauges -> Int]
  BY <1>0 DEF ChangeGauge, Balance
<1>18. r.late => ~m.registered
  BY <1>2, <1>10, <1>12, <1>15 DEF CacheOk
<1>19. ASSUME NEW h \in Gauges
       PROVE  total'[h] = total[h] + (part(m, h) - part(meter[c], h)) + (untold(worker[w], h) - untold(r, h))
  <2>1. untold(worker[w], h) = 0
    BY <1>2, <1>3 DEF untold
  <2>2. untold(r, h) = IF h = g /\ g \notin meter[c].gone THEN d ELSE 0
    BY <1>5, <1>10, <1>12 DEF untold
  <2>3. PICK a \in Int : a = meter[c].gauge[h]
    BY <1>6
  <2>4. m.gauge[h] = IF h = g THEN v ELSE a
    BY <1>6, <1>13, <1>15, <2>3
  <2>5. part(meter[c], h) = IF h \in meter[c].gone THEN 0 ELSE a
    BY <2>3 DEF part
  <2>6. part(m, h) = IF h \in meter[c].gone THEN 0 ELSE IF h = g THEN v ELSE a
    BY <1>15, <2>4 DEF part
  <2>7. total'[h] = total[h] /\ total[h] \in Int
    BY <1>17
  <2>8. h = g => d = v - a
    BY <1>9, <2>3
  <2> QED BY <2>1, <2>2, <2>5, <2>6, <2>7, <2>8
<1>20. /\ Shape(r.steps) /\ Ordered(r.steps) /\ SameSpecial(r.steps, worker[w].steps)
       /\ worker[w].steps[1].do \notin {"pooled", "countAll"}
       /\ r.steps[1].do \notin {"pooled", "countAll"}
       /\ straddled \subseteq straddled' /\ total' \in [Gauges -> Int]
  BY <1>2, <1>3, <1>5, <1>12, <1>17
<1>21. /\ r.taken = worker[w].taken /\ r.cache = c /\ c = worker[w].cache /\ worker[w].steps # <<>>
       /\ (r.steps # <<>> /\ r.steps[1].do = "tell" /\ r.late => ~m.registered)
       /\ (r.steps = <<>> \/ r.steps[1].do \notin {"pooled", "countAll"})
       /\ \A h \in Gauges \ straddled' :
            total'[h] = total[h] + (part(m, h) - part(meter[c], h)) + (untold(worker[w], h) - untold(r, h))
  BY <1>0, <1>2, <1>12, <1>18, <1>19, <1>20
<1>22. GaugeMove(w, c, r, m)
  BY <1>15, <1>16, <1>17, <1>20, <1>21 DEF GaugeMove
<1> QED BY <1>22, GaugeMoves

\* The same, the global sum.
LEMMA TellGaugeMoves ==
  ASSUME MetricsInv, foundBytes' = foundBytes, NEW w \in MeterWorkers, TellGauge(w)
  PROVE  MetricsInv'
<1>0. Structure /\ Balance /\ worker[w].steps # <<>>
  BY DEF MetricsInv, TellGauge, Doing
<1>1. PICK s, t, c : Working(w, s, t, c)
  BY <1>0, BusyWorker
<1>2. /\ s = worker[w].steps /\ c = worker[w].cache /\ c \in MeteredCaches /\ worker[w] \in WorkerType
      /\ skip(w, 1) = [worker[w] EXCEPT !.steps = t] /\ After(s, t) /\ cacheOf(w) = c
      /\ t \in Seq(Steps) /\ Shape(t) /\ Ordered(t) /\ meter[c] \in MeterType /\ s # <<>>
      /\ worker \in [MeterWorkers -> WorkerType] /\ meter \in [MeteredCaches -> MeterType]
      /\ Tied(worker[w], meter[c])
  BY <1>1 DEF Working
<1>3. s[1].do = "tell"
  BY <1>1 DEF Working, TellGauge
<1>4. PICK g \in Gauges : g = s[1].on /\ gaugeOf(w) = g
  BY <1>1, <1>3 DEF Working, StepOk
<1>5. SameSpecial(t, s) /\ CalmAt(t)
  BY <1>2, <1>3, SimpleRest DEF Special
<1>6. t = <<>> \/ t[1].do \notin {"tell", "countAll", "pooled"}
  BY <1>5 DEF CalmAt, Calm
<1>7. PICK r \in WorkerType : r = [worker[w] EXCEPT !.steps = t]
  BY <1>2 DEF WorkerType
<1>8. r.steps = t /\ r.cache = c /\ r.taken = worker[w].taken
  BY <1>2, <1>7 DEF WorkerType
<1>9. PICK m \in MeterType : m = meter[c]
  BY <1>2
<1>10. worker' = [worker EXCEPT ![w] = r] /\ meter' = [meter EXCEPT ![c] = m]
  BY <1>2, <1>7, <1>9 DEF TellGauge, Does
<1>11. /\ totalCount' = totalCount /\ pool' = pool /\ pooled' = pooled /\ diagnosed' = diagnosed
       /\ idleMax' = idleMax /\ idleSeen' = idleSeen /\ total \in [Gauges -> Int]
  BY <1>0 DEF TellGauge, Balance
<1>12. PICK d \in Int : d = worker[w].change
  BY <1>2 DEF WorkerType
<1>13. \A h \in Gauges : /\ untold(r, h) = 0
                         /\ untold(worker[w], h) = IF h = g /\ ~worker[w].late THEN d ELSE 0
                         /\ part(m, h) = part(meter[c], h) /\ part(m, h) \in Int
                         /\ total[h] \in Int
  <2>1. \A h \in Gauges : untold(r, h) = 0
    BY <1>6, <1>8 DEF untold
  <2>2. \A h \in Gauges : untold(worker[w], h) = IF h = g /\ ~worker[w].late THEN d ELSE 0
    BY <1>2, <1>3, <1>4, <1>12 DEF untold
  <2> QED BY <1>9, <1>11, <2>1, <2>2, PartsInt
<1>14. /\ straddled \subseteq straddled' /\ total' \in [Gauges -> Int]
       /\ \A h \in Gauges \ straddled' :
            total'[h] = total[h] + (part(m, h) - part(meter[c], h)) + (untold(worker[w], h) - untold(r, h))
  <2>1. CASE meter[c].registered
    <3>1. total' = [total EXCEPT ![g] = @ + d] /\ straddled' = straddled
      BY <1>2, <1>4, <1>12, <2>1 DEF TellGauge
    <3>2. ~worker[w].late
      BY <1>2, <1>3, <2>1 DEF Tied, WorkerType
    <3>3. total' \in [Gauges -> Int] /\ \A h \in Gauges : total'[h] = IF h = g THEN total[h] + d ELSE total[h]
      BY <1>11, <3>1
    <3> QED BY <1>13, <3>1, <3>2, <3>3
  <2>2. CASE ~meter[c].registered
    <3>1. /\ total' = total
          /\ straddled' = IF worker[w].late \/ d = 0 THEN straddled ELSE straddled \cup {g}
      BY <1>2, <1>4, <1>12, <2>2 DEF TellGauge
    <3>2. ASSUME NEW h \in Gauges \ straddled'
          PROVE  total'[h] = total[h] + (part(m, h) - part(meter[c], h)) + (untold(worker[w], h) - untold(r, h))
      <4>1. untold(worker[w], h) = 0
        BY <1>13, <3>1
      <4> QED BY <1>13, <3>1, <4>1
    <3> QED BY <1>11, <3>1, <3>2
  <2> QED BY <2>1, <2>2
<1>15. /\ Shape(r.steps) /\ Ordered(r.steps) /\ SameSpecial(r.steps, worker[w].steps)
       /\ worker[w].steps[1].do \notin {"pooled", "countAll"}
       /\ r.steps = <<>> \/ r.steps[1].do \notin {"pooled", "countAll"}
       /\ (r.steps # <<>> /\ r.steps[1].do = "tell" /\ r.late => ~m.registered)
  BY <1>2, <1>3, <1>5, <1>6, <1>8
<1>16. /\ m.open = meter[c].open /\ m.closed = meter[c].closed /\ m.registered = meter[c].registered
       /\ m.gone = meter[c].gone /\ m.count = meter[c].count
  BY <1>9
<1>17. r.taken = worker[w].taken /\ r.cache = c /\ c = worker[w].cache /\ worker[w].steps # <<>>
  BY <1>0, <1>2, <1>8
<1>18. GaugeMove(w, c, r, m)
  BY <1>10, <1>11, <1>14, <1>15, <1>16, <1>17 DEF GaugeMove
<1> QED BY <1>18, GaugeMoves

\* A step with nothing to tell, count or pool, before it or after it.
LEMMA CalmSums ==
  ASSUME Structure, Balance, NEW w \in MeterWorkers, NEW c \in MeteredCaches, NEW r \in WorkerType, NEW m \in MeterType,
         Shape(r.steps), CalmAt(worker[w].steps), CalmAt(r.steps), m.count = meter[c].count,
         totalCount' = totalCount, pool' = pool, pooled' = pooled, straddled' = straddled,
         idleMax' = idleMax, idleSeen' = idleSeen, total' \in [Gauges -> Int], foundBytes' \in Int,
         \A g \in Gauges : total'[g] + unsaid(g)' = total[g] + unsaid(g) + (part(m, g) - part(meter[c], g))
                                                       + (taking(r, g) - taking(worker[w], g))
  PROVE  NumbersMove(w, c, r, m)
<1>1. /\ \A g : untold(r, g) = 0 /\ untold(worker[w], g) = 0
      /\ \A k : uncounted(r, k) = 0 /\ uncounted(worker[w], k) = 0
      /\ unpooled(r) = 0 /\ unpooled(worker[w]) = 0
  BY CalmWorker
<1>2. /\ worker[w] \in WorkerType /\ \A i \in 1..Len(worker[w].steps) : StepOk(worker[w].steps[i])
      /\ \A i \in 1..Len(r.steps) : StepOk(r.steps[i])
  BY DEF Structure, WorkerOk, Shape, Linked
<1>3. \A g \in Gauges : taking(r, g) \in Int /\ taking(worker[w], g) \in Int
  BY <1>2, OwesInt
<1>4. \A g \in Gauges : owes(r, g) = taking(r, g) /\ owes(worker[w], g) = taking(worker[w], g)
  BY <1>1, <1>3 DEF owes
<1>5. \A k \in Counters : m.count[k] \in Int
  BY PartsInt
<1>6. /\ totalCount \in [Counters -> Int] /\ idleMax = idleSeen
      /\ pool \in 0..PoolLimit /\ pooled \in Int /\ pool \in Int
  BY MetricsAssumption DEF Balance
<1>7. \A g \in Gauges :
        total'[g] + unsaid(g)'
          = total[g] + unsaid(g) + (part(m, g) - part(meter[c], g)) + (owes(r, g) - owes(worker[w], g))
  BY <1>4
<1>8. \A k \in Counters : totalCount'[k] + (uncounted(r, k) - uncounted(worker[w], k))
                            = totalCount[k] + (m.count[k] - meter[c].count[k])
  BY <1>1, <1>5, <1>6
<1>9. pooled' + (unpooled(r) - unpooled(worker[w])) = pooled + (pool' - pool)
  BY <1>1, <1>6
<1> QED BY <1>6, <1>7, <1>8, <1>9 DEF NumbersMove

\* The capacity diagnostics.
LEMMA DiagnoseMoves ==
  ASSUME MetricsInv, foundBytes' = foundBytes, NEW w \in MeterWorkers, Diagnose(w)
  PROVE  MetricsInv'
<1>0. Structure /\ Balance /\ worker[w].steps # <<>>
  BY DEF MetricsInv, Diagnose, Doing
<1>1. PICK s, t, c : Working(w, s, t, c)
  BY <1>0, BusyWorker
<1>2. /\ s = worker[w].steps /\ c = worker[w].cache /\ c \in MeteredCaches /\ worker[w] \in WorkerType
      /\ skip(w, 1) = [worker[w] EXCEPT !.steps = t] /\ After(s, t) /\ cacheOf(w) = c
      /\ t \in Seq(Steps) /\ Shape(t) /\ Ordered(t) /\ meter[c] \in MeterType /\ s # <<>>
      /\ worker \in [MeterWorkers -> WorkerType] /\ meter \in [MeteredCaches -> MeterType]
      /\ Tied(worker[w], meter[c]) /\ CacheOk(meter[c]) /\ meter[c].open
  BY <1>1 DEF Working
<1>3. s[1].do \in {"diagnose", "undiagnose"}
  BY <1>1 DEF Working, Diagnose
<1>4. /\ \A d : Has(s, d) <=> s[1].do = d \/ Has(t, d)
      /\ \A g : Takes(s, g) <=> Takes(t, g)
      /\ CalmAt(t) /\ CalmAt(s)
  BY <1>2, <1>3 DEF After, CalmAt, Follows, Calm
<1>5. PICK r \in WorkerType : r = [worker[w] EXCEPT !.steps = t]
  BY <1>2 DEF WorkerType
<1>6. r.steps = t /\ r.cache = c /\ r.taken = worker[w].taken
  BY <1>2, <1>5 DEF WorkerType
<1>7. PICK m \in MeterType : m = meter[c]
  BY <1>2
<1>8. worker' = [worker EXCEPT ![w] = r] /\ meter' = [meter EXCEPT ![c] = m]
  BY <1>2, <1>5, <1>7 DEF Diagnose, Does
<1>9. Has(r.steps, "subtract") => Closes(r, m)
  <2>1. /\ Has(t, "subtract") <=> Has(s, "subtract")
        /\ Has(t, "unset") <=> Has(s, "unset")
    BY <1>3, <1>4
  <2> QED BY <1>2, <1>4, <1>6, <1>7, <2>1 DEF Tied, Closes
<1>10. r.steps # <<>> => Tied(r, m)
  <2>1. Has(r.steps, "undiagnose") => m.closed
    BY <1>2, <1>4, <1>6, <1>7 DEF Tied
  <2>2. r.steps # <<>> => r.steps[1].do # "tell"
    BY <1>4, <1>6 DEF CalmAt, Calm
  <2> QED BY <1>2, <1>7, <1>9, <2>1, <2>2 DEF Tied
<1>11. /\ diagnosed' \subseteq diagnosed \cup {c}
       /\ \A d \in MeteredCaches \ {c} : d \in diagnosed' <=> d \in diagnosed
       /\ m.open /\ ~m.closed => c \in diagnosed'
  <2>1. s[1].do = "undiagnose" => m.closed
    BY <1>2, <1>4, <1>7 DEF Tied
  <2>2. \/ s[1].do = "diagnose" /\ diagnosed' = diagnosed \cup {c}
        \/ s[1].do = "undiagnose" /\ diagnosed' = diagnosed \ {c}
    BY <1>1, <1>2 DEF Diagnose, Working
  <2> QED BY <2>1, <2>2
<1>12. MeterMove(w, c, r, m)
  <2>1. Has(r.steps, "subtract") <=> Has(worker[w].steps, "subtract")
    BY <1>2, <1>3, <1>4, <1>6
  <2>2. WorkerOk(r) /\ CacheOk(m)
    BY <1>2, <1>6, <1>7 DEF WorkerOk
  <2> QED BY <1>2, <1>6, <1>7, <1>8, <1>10, <1>11, <2>1, <2>2 DEF MeterMove
<1>13. /\ totalCount' = totalCount /\ pool' = pool /\ pooled' = pooled /\ straddled' = straddled
       /\ idleMax' = idleMax /\ idleSeen' = idleSeen /\ total' = total /\ total \in [Gauges -> Int]
  BY <1>0 DEF Diagnose, Balance
<1>14. \A g \in Gauges : total'[g] + unsaid(g)' = total[g] + unsaid(g) + (part(m, g) - part(meter[c], g))
                                                       + (taking(r, g) - taking(worker[w], g))
  <2>1. \A g \in Gauges : part(m, g) = part(meter[c], g) /\ part(m, g) \in Int /\ total[g] \in Int
    BY <1>7, <1>13, PartsInt
  <2>2. \A g \in Gauges : taking(r, g) = taking(worker[w], g)
    BY <1>2, <1>3, <1>4, <1>6 DEF taking
  <2>3. \A g \in Gauges : taking(r, g) \in Int
    BY <1>2, <1>6, OwesInt DEF Shape, Linked
  <2> QED BY <1>0, <1>13, <2>1, <2>2, <2>3, NothingFound
<1>15. /\ Shape(r.steps) /\ CalmAt(worker[w].steps) /\ CalmAt(r.steps) /\ m.count = meter[c].count
       /\ total' \in [Gauges -> Int]
  BY <1>2, <1>4, <1>6, <1>7, <1>13
<1>16. NumbersMove(w, c, r, m)
  BY <1>0, <1>2, <1>13, <1>14, <1>15, CalmSums, NothingFound
<1> QED BY <1>2, <1>12, <1>16, Moves

\* A step of an unregistration.
TakingMove(w, c, r, m) ==
  /\ worker[w].steps # <<>> /\ c = worker[w].cache
  /\ worker' = [worker EXCEPT ![w] = r] /\ meter' = [meter EXCEPT ![c] = m]
  /\ r.cache = c /\ Shape(r.steps) /\ Ordered(r.steps) /\ CalmAt(worker[w].steps) /\ CalmAt(r.steps)
  /\ Has(worker[w].steps, "subtract") /\ (Has(r.steps, "subtract") => Closes(r, m))
  /\ Has(r.steps, "subtract") \/ m.gone = Gauges
  /\ m.open /\ m.closed /\ ~m.registered /\ m.count = meter[c].count
  /\ total' \in [Gauges -> Int]
  /\ \A g \in Gauges : total'[g] = total[g] + (part(m, g) - part(meter[c], g))
                                      + (taking(r, g) - taking(worker[w], g))

LEMMA UnregisterMove ==
  ASSUME MetricsInv, foundBytes' = foundBytes, NEW w \in MeterWorkers, Unregister(w), NEW c,
         NEW r \in WorkerType, NEW m \in MeterType, TakingMove(w, c, r, m)
  PROVE  MetricsInv'
<1> USE DEF TakingMove
<1>1. Structure /\ Balance /\ c \in MeteredCaches
  BY DEF MetricsInv, Structure
<1>2. CacheOk(m) /\ WorkerOk(r)
  BY DEF CacheOk, WorkerOk
<1>3. r.steps # <<>> => Tied(r, m)
  BY DEF Tied, CalmAt, Calm
<1>4. diagnosed' = diagnosed /\ diagnosed \subseteq {d \in MeteredCaches : meter[d].open}
  BY <1>1 DEF Unregister, Structure
<1>5. MeterMove(w, c, r, m)
  BY <1>2, <1>3, <1>4 DEF MeterMove
<1>6. /\ totalCount' = totalCount /\ pool' = pool /\ pooled' = pooled /\ straddled' = straddled
      /\ idleMax' = idleMax /\ idleSeen' = idleSeen
  BY DEF Unregister
<1>7. ASSUME NEW g \in Gauges
      PROVE  total'[g] + unsaid(g)' = total[g] + unsaid(g) + (part(m, g) - part(meter[c], g))
                                        + (taking(r, g) - taking(worker[w], g))
  <2>1. PICK a \in Int, b \in Int : a = part(m, g) /\ b = part(meter[c], g)
    BY <1>1, PartsInt DEF Structure
  <2>2. /\ worker[w] \in WorkerType /\ \A i \in 1..Len(worker[w].steps) : StepOk(worker[w].steps[i])
        /\ \A i \in 1..Len(r.steps) : StepOk(r.steps[i])
    BY <1>1, <1>2 DEF Structure, WorkerOk, Shape, Linked
  <2>3. PICK p \in Int, q \in Int : p = taking(r, g) /\ q = taking(worker[w], g)
    BY <2>2, OwesInt
  <2>4. PICK n \in Int : n = unsaid(g) /\ n = unsaid(g)'
    BY <1>1, NothingFound
  <2>5. total[g] \in Int
    BY <1>1 DEF Balance
  <2>6. total'[g] = total[g] + (a - b) + (p - q)
    BY <2>1, <2>3
  <2> HIDE DEF TakingMove
  <2> QED BY <2>1, <2>3, <2>4, <2>5, <2>6
<1>8. NumbersMove(w, c, r, m)
  BY <1>1, <1>6, <1>7, CalmSums, NothingFound
<1> QED BY <1>1, <1>5, <1>8, Moves

\* unregisterMetrics: the flag, a gauge, the sums.
LEMMA UnregisterMoves ==
  ASSUME MetricsInv, foundBytes' = foundBytes, NEW w \in MeterWorkers, Unregister(w)
  PROVE  MetricsInv'
<1>0. Structure /\ Balance /\ worker[w].steps # <<>>
  BY DEF MetricsInv, Unregister, Doing
<1>1. PICK s, t, c : Working(w, s, t, c)
  BY <1>0, BusyWorker
<1>2. /\ s = worker[w].steps /\ c = worker[w].cache /\ c \in MeteredCaches /\ worker[w] \in WorkerType
      /\ skip(w, 1) = [worker[w] EXCEPT !.steps = t] /\ After(s, t) /\ cacheOf(w) = c
      /\ t \in Seq(Steps) /\ Shape(t) /\ Ordered(t) /\ meter[c] \in MeterType /\ s # <<>>
      /\ worker \in [MeterWorkers -> WorkerType] /\ meter \in [MeteredCaches -> MeterType]
      /\ Tied(worker[w], meter[c]) /\ CacheOk(meter[c]) /\ meter[c].open /\ Ordered(s) /\ gaugeOf(w) = s[1].on
  BY <1>1 DEF Working
<1>3. s[1].do \in {"unset", "take", "subtract"}
  BY <1>1 DEF Working, Unregister
<1>4. /\ \A d : Has(s, d) <=> s[1].do = d \/ Has(t, d)
      /\ \A g : Takes(s, g) <=> (s[1].do = "take" /\ s[1].on = g) \/ Takes(t, g)
      /\ ~Has(t, "unset")
      /\ Has(t, "take") => s[1].do # "subtract"
      /\ Has(t, "subtract") => s[1].do # "subtract"
      /\ s[1].do = "take" => ~Takes(t, s[1].on)
      /\ CalmAt(t) /\ CalmAt(s)
  BY <1>2, <1>3 DEF After, CalmAt, Follows, Calm
<1>5. Has(s, "subtract")
  BY <1>2, <1>3, <1>4 DEF Ordered
<1>6. Closes(worker[w], meter[c]) /\ meter[c].closed
  BY <1>2, <1>5 DEF Tied, Closes
<1>7. total \in [Gauges -> Int]
  BY <1>0 DEF Balance
<1>8. /\ meter[c].gauge \in [Gauges -> Int] /\ worker[w].taken \in [Gauges -> Int] /\ meter[c].gone \subseteq Gauges
  BY <1>2 DEF MeterType, WorkerType
<1>9. /\ \A g \in Gauges : part(meter[c], g) = IF g \in meter[c].gone THEN 0 ELSE meter[c].gauge[g]
      /\ \A g \in Gauges : taking(worker[w], g) = worker[w].taken[g]
  BY <1>2, <1>5 DEF part, taking
<1>10. CASE s[1].do = "unset"
  <2>1. PICK r \in WorkerType : r = [worker[w] EXCEPT !.steps = t]
    BY <1>2 DEF WorkerType
  <2>2. r.steps = t /\ r.cache = c /\ r.taken = worker[w].taken
    BY <1>2, <2>1 DEF WorkerType
  <2>3. PICK m \in MeterType : m = [meter[c] EXCEPT !.registered = FALSE]
    BY <1>2 DEF MeterType
  <2>4. /\ m.open = meter[c].open /\ m.closed = meter[c].closed /\ ~m.registered
        /\ m.gone = meter[c].gone /\ m.gauge = meter[c].gauge /\ m.count = meter[c].count
    BY <1>2, <2>3 DEF MeterType
  <2>5. worker' = [worker EXCEPT ![w] = r] /\ meter' = [meter EXCEPT ![c] = m] /\ total' = total
    BY <1>1, <1>2, <1>10, <2>1, <2>3 DEF Unregister, Does, Working
  <2>6. Has(t, "subtract") /\ \A g : Takes(s, g) <=> Takes(t, g)
    BY <1>4, <1>5, <1>10
  <2>7. Closes(r, m)
    BY <1>2, <1>4, <1>6, <2>2, <2>4, <2>6 DEF Closes
  <2>8. ASSUME NEW g \in Gauges
        PROVE  total'[g] = total[g] + (part(m, g) - part(meter[c], g))
                             + (taking(r, g) - taking(worker[w], g))
    <3>1. part(m, g) = part(meter[c], g) /\ part(m, g) \in Int
      BY <1>2, <2>4, PartsInt DEF part
    <3>2. taking(r, g) = taking(worker[w], g) /\ taking(r, g) \in Int
      BY <1>8, <1>9, <2>2, <2>6 DEF taking
    <3> QED BY <1>7, <2>5, <3>1, <3>2
  <2>9. /\ worker[w].steps # <<>> /\ c = worker[w].cache /\ r.cache = c
       /\ Shape(r.steps) /\ Ordered(r.steps) /\ CalmAt(worker[w].steps) /\ CalmAt(r.steps)
       /\ Has(worker[w].steps, "subtract") /\ (Has(r.steps, "subtract") => Closes(r, m))
       /\ (Has(r.steps, "subtract") \/ m.gone = Gauges)
       /\ m.open /\ m.closed /\ ~m.registered /\ m.count = meter[c].count
       /\ total' \in [Gauges -> Int]
    BY <1>0, <1>2, <1>4, <1>5, <1>6, <1>7, <2>2, <2>4, <2>5, <2>6, <2>7
  <2>10. TakingMove(w, c, r, m)
    BY <2>5, <2>8, <2>9 DEF TakingMove
  <2> QED BY <2>10, UnregisterMove
<1>11. CASE s[1].do = "take"
  <2>1. PICK g \in TakenGauges : g = s[1].on /\ gaugeOf(w) = g
    BY <1>1, <1>2, <1>11 DEF Working, StepOk
  <2>2. g \in Gauges /\ g # "caches" /\ g # "capacity"
    BY DEF TakenGauges, Gauges
  <2>3. PICK v \in Int : v = meter[c].gauge[g]
    BY <1>8, <2>2
  <2>4. PICK k \in [Gauges -> Int] : k = [worker[w].taken EXCEPT ![g] = v]
    BY <1>8
  <2>5. PICK r \in WorkerType : r = [[worker[w] EXCEPT !.steps = t] EXCEPT !.taken = k]
    BY <1>2 DEF WorkerType
  <2>6. r.steps = t /\ r.cache = c /\ r.taken = k
    BY <1>2, <2>5 DEF WorkerType
  <2>7. PICK n \in [Gauges -> Int] : n = [meter[c].gauge EXCEPT ![g] = IF g = "readers" THEN @ ELSE 0]
    <3>1. (IF g = "readers" THEN meter[c].gauge[g] ELSE 0) \in Int
      BY <2>3
    <3>2. [meter[c].gauge EXCEPT ![g] = IF g = "readers" THEN @ ELSE 0] \in [Gauges -> Int]
      BY <1>8, <3>1
    <3> QED BY <3>2
  <2>8. PICK e \in SUBSET Gauges : e = meter[c].gone \cup {g}
    BY <1>8, <2>2
  <2>9. PICK m \in MeterType : m = [[meter[c] EXCEPT !.gauge = n] EXCEPT !.gone = e]
    BY <1>2 DEF MeterType
  <2>10. /\ m.open = meter[c].open /\ m.closed = meter[c].closed /\ m.registered = meter[c].registered
         /\ m.gone = e /\ m.gauge = n /\ m.count = meter[c].count
    BY <1>2, <2>9 DEF MeterType
  <2>11. worker' = [worker EXCEPT ![w] = r] /\ meter' = [meter EXCEPT ![c] = m] /\ total' = total
    <3>0. Doing(w, "take") /\ ~Doing(w, "unset") /\ ~Doing(w, "subtract")
      BY <1>1, <1>11 DEF Working
    <3>1. /\ meter' = [meter EXCEPT ![c].gauge[g] = IF g = "readers" THEN @ ELSE 0, ![c].gone = @ \cup {g}]
          /\ Does(w, [skip(w, 1) EXCEPT !.taken[g] = v]) /\ total' = total
      BY <1>2, <2>1, <2>3, <3>0 DEF Unregister
    <3>2. [worker[w] EXCEPT !.steps = t].taken = worker[w].taken
      BY <1>2 DEF WorkerType
    <3>3. [skip(w, 1) EXCEPT !.taken[g] = v] = r
      BY <1>2, <2>4, <2>5, <3>2
    <3>4. worker' = [worker EXCEPT ![w] = r]
      BY <3>1, <3>3 DEF Does
    <3>5. meter' = [meter EXCEPT ![c] = m]
      BY <1>2, <2>7, <2>8, <2>9, <3>1
    <3> QED BY <3>1, <3>4, <3>5
  <2>12. /\ Has(t, "subtract") /\ ~Has(s, "unset") /\ ~Takes(t, g) /\ Takes(s, g)
         /\ \A h : h # g => (Takes(s, h) <=> Takes(t, h))
    BY <1>4, <1>5, <1>11, <2>1
  <2>13. ~meter[c].registered /\ g \notin meter[c].gone /\ worker[w].taken[g] = 0
    BY <1>2, <1>6, <2>2, <2>12 DEF Closes
  <2>14. Closes(r, m)
    <3>1. "caches" \notin m.gone /\ "capacity" \notin m.gone /\ m.closed
      BY <1>6, <2>2, <2>8, <2>10 DEF Closes
    <3>2. \A h \in TakenGauges : h \in m.gone <=> ~Takes(r.steps, h)
      BY <1>2, <1>6, <2>6, <2>8, <2>10, <2>12 DEF Closes
    <3>3. \A h \in Gauges : h \notin m.gone => r.taken[h] = 0
      BY <1>6, <1>8, <2>4, <2>6, <2>8, <2>10 DEF Closes
    <3> QED BY <1>4, <2>6, <2>10, <2>13, <3>1, <3>2, <3>3 DEF Closes
  <2>15. ASSUME NEW h \in Gauges
         PROVE  total'[h] = total[h] + (part(m, h) - part(meter[c], h))
                              + (taking(r, h) - taking(worker[w], h))
    <3>1. taking(r, h) = IF h = g THEN v ELSE worker[w].taken[h]
      BY <1>8, <2>4, <2>6, <2>12 DEF taking
    <3>2. taking(worker[w], h) = worker[w].taken[h] /\ worker[w].taken[h] \in Int
      BY <1>8, <1>9
    <3>3. part(m, h) = IF h = g THEN 0 ELSE part(meter[c], h)
      BY <1>8, <1>9, <2>7, <2>8, <2>10 DEF part
    <3>4. part(meter[c], h) \in Int
      BY <1>2, PartsInt
    <3>5. h = g => part(meter[c], h) = v
      BY <1>9, <2>3, <2>13
    <3>6. total'[h] = total[h] /\ total[h] \in Int
      BY <1>7, <2>11
    <3>7. CASE h = g
      BY <2>13, <3>1, <3>2, <3>3, <3>4, <3>5, <3>6, <3>7
    <3>8. CASE h # g
      BY <3>1, <3>2, <3>3, <3>4, <3>6, <3>8
    <3> QED BY <3>7, <3>8
  <2>16. /\ worker[w].steps # <<>> /\ c = worker[w].cache /\ r.cache = c
       /\ Shape(r.steps) /\ Ordered(r.steps) /\ CalmAt(worker[w].steps) /\ CalmAt(r.steps)
       /\ Has(worker[w].steps, "subtract") /\ (Has(r.steps, "subtract") => Closes(r, m))
       /\ (Has(r.steps, "subtract") \/ m.gone = Gauges)
       /\ m.open /\ m.closed /\ ~m.registered /\ m.count = meter[c].count
       /\ total' \in [Gauges -> Int]
    BY <1>0, <1>2, <1>4, <1>5, <1>6, <1>7, <2>6, <2>10, <2>11, <2>12, <2>13, <2>14
  <2>17. TakingMove(w, c, r, m)
    BY <2>11, <2>15, <2>16 DEF TakingMove
  <2> QED BY <2>17, UnregisterMove
<1>12. CASE s[1].do = "subtract"
  <2>1. PICK r \in WorkerType : r = [worker[w] EXCEPT !.steps = t]
    BY <1>2 DEF WorkerType
  <2>2. r.steps = t /\ r.cache = c /\ r.taken = worker[w].taken
    BY <1>2, <2>1 DEF WorkerType
  <2>3. ~Has(t, "subtract") /\ ~Has(s, "unset") /\ \A g : ~Takes(s, g)
    BY <1>4, <1>12 DEF Takes, Has
  <2>4. ~meter[c].registered /\ \A g \in TakenGauges : g \in meter[c].gone
    BY <1>2, <1>6, <2>3 DEF Closes
  <2>5. PICK e \in SUBSET Gauges : e = meter[c].gone \cup {"caches", "capacity"}
    BY <1>8 DEF Gauges
  <2>6. e = Gauges
    BY <2>4, <2>5 DEF Gauges, TakenGauges
  <2>7. PICK m \in MeterType : m = [meter[c] EXCEPT !.gone = e]
    BY <1>2 DEF MeterType
  <2>8. /\ m.open = meter[c].open /\ m.closed = meter[c].closed /\ m.registered = meter[c].registered
        /\ m.gone = e /\ m.gauge = meter[c].gauge /\ m.count = meter[c].count
    BY <1>2, <2>7 DEF MeterType
  <2>9. PICK k \in [Gauges -> Int] : k = [worker[w].taken EXCEPT !["caches"] = meter[c].gauge["caches"],
                                                                 !["capacity"] = meter[c].gauge["capacity"]]
    BY <1>8 DEF Gauges
  <2>10. /\ worker' = [worker EXCEPT ![w] = r] /\ meter' = [meter EXCEPT ![c] = m]
         /\ total' = [g \in Gauges |-> total[g] - k[g]]
    <3>0. Doing(w, "subtract") /\ ~Doing(w, "unset") /\ ~Doing(w, "take")
      BY <1>1, <1>12 DEF Working
    <3>1. /\ meter' = [meter EXCEPT ![c].gone = @ \cup {"caches", "capacity"}]
          /\ Does(w, skip(w, 1)) /\ total' = [g \in Gauges |-> total[g] - k[g]]
      BY <1>2, <2>9, <3>0 DEF Unregister
    <3> QED BY <1>2, <2>1, <2>5, <2>7, <3>1 DEF Does
  <2>11. total' \in [Gauges -> Int]
    BY <1>7, <2>10
  <2>12. ASSUME NEW g \in Gauges
         PROVE  total'[g] = total[g] + (part(m, g) - part(meter[c], g))
                              + (taking(r, g) - taking(worker[w], g))
    <3>1. part(m, g) = 0 /\ taking(r, g) = 0
      BY <2>2, <2>3, <2>6, <2>8 DEF part, taking
    <3>2. total'[g] = total[g] - k[g] /\ total[g] \in Int /\ k[g] \in Int
      BY <1>7, <2>10
    <3>3. part(meter[c], g) \in Int /\ taking(worker[w], g) = worker[w].taken[g] /\ worker[w].taken[g] \in Int
      BY <1>2, <1>8, <1>9, PartsInt
    <3>4. CASE g \in {"caches", "capacity"}
      <4>1. g \notin meter[c].gone /\ k[g] = meter[c].gauge[g] /\ worker[w].taken[g] = 0
        BY <1>6, <1>8, <2>9, <3>4 DEF Closes
      <4>2. part(meter[c], g) = k[g]
        BY <1>9, <4>1
      <4> QED BY <3>1, <3>2, <3>3, <4>1, <4>2
    <3>5. CASE g \in TakenGauges
      <4>1. g # "caches" /\ g # "capacity"
        BY <3>5 DEF TakenGauges
      <4>2. k[g] = worker[w].taken[g]
        BY <1>8, <2>9, <4>1
      <4>3. part(meter[c], g) = 0
        BY <1>9, <2>4, <3>5
      <4> QED BY <3>1, <3>2, <3>3, <4>2, <4>3
    <3> QED BY <3>4, <3>5 DEF Gauges, TakenGauges
  <2>13. /\ worker[w].steps # <<>> /\ c = worker[w].cache /\ r.cache = c
       /\ Shape(r.steps) /\ Ordered(r.steps) /\ CalmAt(worker[w].steps) /\ CalmAt(r.steps)
       /\ Has(worker[w].steps, "subtract") /\ (Has(r.steps, "subtract") => Closes(r, m))
       /\ (Has(r.steps, "subtract") \/ m.gone = Gauges)
       /\ m.open /\ m.closed /\ ~m.registered /\ m.count = meter[c].count
       /\ total' \in [Gauges -> Int]
    BY <1>0, <1>2, <1>4, <1>5, <1>6, <2>2, <2>3, <2>4, <2>6, <2>8, <2>10, <2>11
  <2>14. TakingMove(w, c, r, m)
    BY <2>10, <2>12, <2>13 DEF TakingMove
  <2> QED BY <2>14, UnregisterMove
<1> QED BY <1>3, <1>10, <1>11, <1>12

-----------------------------------------------------------------------------
(* The operations, when they start. *)

\* The start of an operation by a worker that is at rest, with a record of its own.
Starting(w, c, r, m) ==
  /\ worker[w].steps = <<>>
  /\ worker' = [worker EXCEPT ![w] = r] /\ meter' = [meter EXCEPT ![c] = m]
  /\ r.cache = c /\ Shape(r.steps) /\ Ordered(r.steps) /\ CalmAt(r.steps)
  /\ \A g \in Gauges : r.taken[g] = 0
  /\ CacheOk(m) /\ m.open
  /\ Has(r.steps, "subtract") => Closes(r, m) /\ ~meter[c].closed
  /\ Has(r.steps, "undiagnose") => m.closed
  /\ meter[c].closed => m.closed
  /\ m.closed => Has(r.steps, "subtract") \/ meter[c].closed
  /\ ~meter[c].open => Has(r.steps, "diagnose")
  /\ meter[c].open => m.gone = meter[c].gone /\ m.registered = meter[c].registered
  /\ m.count = meter[c].count
  /\ totalCount' = totalCount /\ pool' = pool /\ pooled' = pooled /\ straddled' = straddled
  /\ idleMax' = idleMax /\ idleSeen' = idleSeen /\ diagnosed' = diagnosed
  /\ total' \in [Gauges -> Int]
  /\ foundBytes' \in Int
  /\ \A g \in Gauges : total'[g] + unsaid(g)' = total[g] + unsaid(g) + (part(m, g) - part(meter[c], g))

LEMMA StartMove ==
  ASSUME MetricsInv, NEW w \in MeterWorkers, NEW c \in MeteredCaches, NEW r \in WorkerType, NEW m \in MeterType,
         Starting(w, c, r, m)
  PROVE  MetricsInv'
<1> USE DEF Starting
<1>1. Structure /\ Balance /\ WorkerOk(r)
  BY DEF MetricsInv, WorkerOk
<1>2. \A d : ~Has(worker[w].steps, d)
  BY DEF Has
<1>3. r.steps # <<>> => Tied(r, m)
  BY DEF Tied, CalmAt, Calm
<1>4. CacheOk(meter[c])
  BY <1>1 DEF Structure
<1>5. m.closed => \/ m.gone = Gauges
                  \/ Has(r.steps, "subtract")
                  \/ meter[c].closed /\ m.gone = meter[c].gone /\ ~Has(worker[w].steps, "subtract")
  BY <1>2, <1>4 DEF CacheOk
<1>6. MeterMove(w, c, r, m)
  BY <1>1, <1>2, <1>3, <1>4, <1>5 DEF MeterMove
<1>7. \A g \in Gauges : taking(r, g) = 0 /\ taking(worker[w], g) = 0
  BY <1>2 DEF taking
<1>8. \A g \in Gauges : /\ part(m, g) \in Int /\ part(meter[c], g) \in Int
                        /\ total[g] \in Int /\ unsaid(g) \in Int
  <2>1. meter[c] \in MeterType /\ total \in [Gauges -> Int]
    BY <1>1 DEF Structure, Balance
  <2>2. \A g \in Gauges : unsaid(g) \in Int
    BY <1>1 DEF Balance, unsaid
  <2> QED BY <2>1, <2>2, PartsInt
<1>9. \A g \in Gauges : total'[g] + unsaid(g)' = total[g] + unsaid(g) + (part(m, g) - part(meter[c], g))
                                                      + (taking(r, g) - taking(worker[w], g))
  BY <1>7, <1>8
<1>10. CalmAt(worker[w].steps)
  BY DEF CalmAt
<1>11. NumbersMove(w, c, r, m)
  BY <1>1, <1>9, <1>10, CalmSums
<1> QED BY <1>1, <1>6, <1>11, Moves

\* The start of one that closes nothing.
LEMMA PlainStart ==
  ASSUME MetricsInv, foundBytes' = foundBytes, NEW w \in MeterWorkers, NEW c \in MeteredCaches, meter[c].open,
         NEW p, NEW a, NEW b, Work(p, a, b), ~Opens(b), Calm(a), NEW l \in BOOLEAN,
         Start(w, c, p, l), UNCHANGED meter
  PROVE  MetricsInv'
<1>1. /\ p \in Seq(Steps) /\ p # <<>> /\ Shape(p) /\ Ordered(p) /\ p[1] = a
      /\ \A d \in {"unset", "take", "subtract", "diagnose", "undiagnose"} : ~Has(p, d)
  BY WorkAlone
<1>2. /\ worker \in [MeterWorkers -> WorkerType] /\ meter \in [MeteredCaches -> MeterType]
      /\ CacheOk(meter[c]) /\ total \in [Gauges -> Int]
  BY DEF MetricsInv, Structure, Balance
<1>3. AtRest \in WorkerType /\ AtRest.taken = [g \in Gauges |-> 0]
  BY DEF AtRest, WorkerType
<1>4. PICK r \in WorkerType : r = [AtRest EXCEPT !.cache = c, !.steps = p, !.locks = l]
  BY <1>1, <1>3 DEF WorkerType
<1>5. r.cache = c /\ r.steps = p /\ \A g \in Gauges : r.taken[g] = 0
  BY <1>3, <1>4 DEF WorkerType
<1>6. PICK m \in MeterType : m = meter[c]
  BY <1>2
<1>7. worker' = [worker EXCEPT ![w] = r] /\ meter' = [meter EXCEPT ![c] = m]
  BY <1>2, <1>4, <1>6 DEF Start
<1>8. /\ totalCount' = totalCount /\ pool' = pool /\ pooled' = pooled /\ straddled' = straddled
      /\ idleMax' = idleMax /\ idleSeen' = idleSeen /\ diagnosed' = diagnosed /\ total' = total
      /\ worker[w].steps = <<>>
  BY DEF Start
<1>9. /\ total' \in [Gauges -> Int] /\ foundBytes' \in Int
     /\ \A g \in Gauges : total'[g] + unsaid(g)' = total[g] + unsaid(g) + (part(m, g) - part(meter[c], g))
  <2>1. \A g \in Gauges : part(m, g) \in Int /\ part(m, g) = part(meter[c], g)
    BY <1>6, PartsInt
  <2>2. foundBytes' \in Int /\ \A g : unsaid(g)' = unsaid(g) /\ unsaid(g) \in Int
    BY NothingFound DEF MetricsInv
  <2> QED BY <1>2, <1>8, <2>1, <2>2
<1>10. Shape(r.steps) /\ Ordered(r.steps) /\ CalmAt(r.steps) /\ ~Has(r.steps, "subtract") /\ ~Has(r.steps, "undiagnose")
  BY <1>1, <1>5 DEF CalmAt
<1>11. /\ CacheOk(m) /\ m.open /\ m.closed = meter[c].closed /\ m.gone = meter[c].gone
       /\ m.registered = meter[c].registered /\ m.count = meter[c].count
  BY <1>2, <1>6
<1>12. Starting(w, c, r, m)
  BY <1>5, <1>7, <1>8, <1>9, <1>10, <1>11 DEF Starting
<1> QED BY <1>12, StartMove

\* Cache.Piece, CleanPieces, UpdatePriorities, a chunk, a new capacity.
LEMMA UseCacheMoves ==
  ASSUME MetricsInv, foundBytes' = foundBytes, NEW w \in MeterWorkers, NEW c \in MeteredCaches, UseCache(w, c)
  PROVE  MetricsInv'
<1>1. meter[c].open /\ UNCHANGED meter
  BY DEF UseCache
<1>2. ASSUME NEW do \in {"tell", "countAll", "unlock", "max"}, NEW on, NEW by PROVE ~Opens(step(do, on, by))
  BY DEF Opens, step
<1>3. ASSUME NEW do \in {"change", "set", "count", "get", "put"}, NEW on, NEW by PROVE Calm(step(do, on, by))
  BY DEF Calm, step
<1>4. CASE \E k \in Counters : Start(w, c, record(k), FALSE)
  BY <1>1, <1>2, <1>3, <1>4, WorkRecord, PlainStart
<1>5. CASE \E k \in Counters, n \in TrackedCounts : Start(w, c, recordPriorityUpdate(k, n), FALSE)
  <2>1. PICK k \in Counters, n \in TrackedCounts : Start(w, c, recordPriorityUpdate(k, n), FALSE)
    BY <1>5
  <2>2. n \in Int
    BY MetricsAssumption
  <2>3. Work(recordPriorityUpdate(k, n), step("count", k, 1), step("tell", "trackedPieces", 0))
    BY <2>2, WorkPriorityUpdate
  <2> QED BY <1>1, <1>2, <1>3, <2>1, <2>3, PlainStart
<1>6. CASE Start(w, c, writeDisk, TRUE) \/ Start(w, c, writeChunk, TRUE)
  BY <1>1, <1>2, <1>3, <1>6, WorkWrite, PlainStart
<1>7. CASE Start(w, c, releaseDisk, TRUE) \/ Start(w, c, releaseChunk, TRUE)
  BY <1>1, <1>2, <1>3, <1>7, WorkRelease, PlainStart
<1>8. CASE \E n \in Capacities : Start(w, c, setCapacity(n), FALSE)
  <2>1. PICK n \in Capacities : Start(w, c, setCapacity(n), FALSE)
    BY <1>8
  <2>2. n \in Int /\ "capacity" \in Gauges
    BY MetricsAssumption DEF Gauges
  <2>3. Work(setCapacity(n), step("set", "capacity", n), step("tell", "capacity", 0))
    BY <2>2, WorkSet DEF setCapacity
  <2> QED BY <1>1, <1>2, <1>3, <2>1, <2>3, PlainStart
<1> QED BY <1>4, <1>5, <1>6, <1>7, <1>8 DEF UseCache

\* newReader, Reader.Close, the demotion of an idle reader.
LEMMA UseReadersMoves ==
  ASSUME MetricsInv, foundBytes' = foundBytes, NEW w \in MeterWorkers, NEW c \in MeteredCaches, UseReaders(w, c)
  PROVE  MetricsInv'
<1>1. meter[c].open /\ UNCHANGED meter
  BY DEF UseReaders
<1>2. ASSUME NEW do \in {"tell", "max"}, NEW on, NEW by PROVE ~Opens(step(do, on, by))
  BY DEF Opens, step
<1>3. ASSUME NEW on, NEW by PROVE Calm(step("change", on, by))
  BY DEF Calm, step
<1>4. \A by \in Int : Work(addActiveReaders(by), step("change", "readers", by), step("tell", "readers", 0))
  BY WorkAdd DEF addActiveReaders, Gauges
<1>5. CASE Start(w, c, addActiveReaders(1), FALSE)
  <2>1. PICK d \in Int : d = 1
    OBVIOUS
  <2>2. Start(w, c, addActiveReaders(d), FALSE)
    BY <1>5, <2>1
  <2> QED BY <1>1, <1>2, <1>3, <1>4, <2>2, PlainStart
<1>6. CASE Start(w, c, addActiveReaders(-1), FALSE)
  <2>1. -1 \in Int
    OBVIOUS
  <2>2. PICK d \in Int : d = -1
    BY <2>1
  <2>3. Start(w, c, addActiveReaders(d), FALSE)
    BY <1>6, <2>2
  <2> QED BY <1>1, <1>2, <1>3, <1>4, <2>3, PlainStart
<1>7. CASE \E idle \in 1..2 : Start(w, c, addActiveReaders(-1) \o recordReaderIdleDemotion(idle), FALSE)
  <2>1. PICK idle \in 1..2 : Start(w, c, addActiveReaders(-1) \o recordReaderIdleDemotion(idle), FALSE)
    BY <1>7
  <2>2. idle \in Int
    OBVIOUS
  <2>3. Work(addActiveReaders(-1) \o recordReaderIdleDemotion(idle),
             step("change", "readers", -1), step("max", "idle", idle))
    BY <2>2, WorkDemotion
  <2> QED BY <1>1, <1>2, <1>3, <2>1, <2>3, PlainStart
<1> QED BY <1>5, <1>6, <1>7 DEF UseReaders

\* Close.
LEMMA CloseMeteredMoves ==
  ASSUME MetricsInv, foundBytes' = foundBytes, NEW w \in MeterWorkers, NEW c \in MeteredCaches, CloseMetered(w, c)
  PROVE  MetricsInv'
<1>1. /\ worker \in [MeterWorkers -> WorkerType] /\ meter \in [MeteredCaches -> MeterType]
      /\ CacheOk(meter[c]) /\ total \in [Gauges -> Int]
  BY DEF MetricsInv, Structure, Balance
<1>2. meter[c].open /\ ~meter[c].closed /\ meter[c].registered /\ meter[c].gone = {}
  BY <1>1 DEF CloseMetered, CacheOk
<1>3. AtRest \in WorkerType /\ AtRest.taken = [g \in Gauges |-> 0]
  BY DEF AtRest, WorkerType
<1>4. PICK p : p = closeCache
  OBVIOUS
<1>5. /\ p \in Seq(Steps) /\ p # <<>> /\ Shape(p) /\ Ordered(p) /\ p[1] = step("release", "held", 0)
      /\ Has(p, "subtract") /\ Has(p, "unset") /\ \A g \in TakenGauges : Takes(p, g)
  BY <1>4, CloseSteps
<1>6. PICK r \in WorkerType : r = [AtRest EXCEPT !.cache = c, !.steps = p, !.locks = FALSE]
  BY <1>3, <1>5 DEF WorkerType
<1>7. r.cache = c /\ r.steps = p /\ \A g \in Gauges : r.taken[g] = 0
  BY <1>3, <1>6 DEF WorkerType
<1>8. PICK m \in MeterType : m = [meter[c] EXCEPT !.closed = TRUE]
  BY <1>1 DEF MeterType
<1>9. /\ m.open /\ m.closed /\ m.registered /\ m.gone = {} /\ m.gauge = meter[c].gauge /\ m.count = meter[c].count
  BY <1>1, <1>2, <1>8 DEF MeterType
<1>10. worker' = [worker EXCEPT ![w] = r] /\ meter' = [meter EXCEPT ![c] = m]
  BY <1>1, <1>4, <1>6, <1>8 DEF CloseMetered, Start
<1>11. /\ totalCount' = totalCount /\ pool' = pool /\ pooled' = pooled /\ straddled' = straddled
       /\ idleMax' = idleMax /\ idleSeen' = idleSeen /\ diagnosed' = diagnosed /\ total' = total
       /\ worker[w].steps = <<>>
  BY DEF CloseMetered, Start
<1>12. /\ total' \in [Gauges -> Int] /\ foundBytes' \in Int
      /\ \A g \in Gauges : total'[g] + unsaid(g)' = total[g] + unsaid(g) + (part(m, g) - part(meter[c], g))
  <2>1. \A g \in Gauges : part(m, g) \in Int /\ part(m, g) = part(meter[c], g)
    BY <1>2, <1>9, PartsInt DEF part
  <2>2. foundBytes' \in Int /\ \A g : unsaid(g)' = unsaid(g) /\ unsaid(g) \in Int
    BY NothingFound DEF MetricsInv
  <2> QED BY <1>1, <1>11, <2>1, <2>2
<1>13. CacheOk(m) /\ Closes(r, m)
  BY <1>5, <1>7, <1>9 DEF CacheOk, Closes
<1>14. Shape(r.steps) /\ Ordered(r.steps) /\ CalmAt(r.steps) /\ Has(r.steps, "subtract")
  BY <1>5, <1>7 DEF CalmAt, Calm, step
<1>15. Starting(w, c, r, m)
  BY <1>2, <1>7, <1>9, <1>10, <1>11, <1>12, <1>13, <1>14 DEF Starting
<1> QED BY <1>15, StartMove

\* OpenTorrent.
LEMMA OpenCacheMoves ==
  ASSUME MetricsInv, NEW w \in MeterWorkers, NEW c \in MeteredCaches, OpenCache(w, c)
  PROVE  MetricsInv'
<1>1. /\ worker \in [MeterWorkers -> WorkerType] /\ meter \in [MeteredCaches -> MeterType]
      /\ CacheOk(meter[c]) /\ total \in [Gauges -> Int]
  BY DEF MetricsInv, Structure, Balance
<1>2. /\ ~meter[c].open /\ ~meter[c].closed /\ ~meter[c].registered /\ meter[c].gone = {}
      /\ \A g \in Gauges : meter[c].gauge[g] = 0
  BY <1>1 DEF OpenCache, CacheOk
<1>3. AtRest \in WorkerType /\ AtRest.taken = [g \in Gauges |-> 0]
  BY DEF AtRest, WorkerType
<1>4. PICK a \in Steps : a = step("diagnose", "cache", 0)
  <2>1. step("diagnose", "cache", 0) \in Steps
    BY DEF step, Steps, Dos, Ons
  <2> QED BY <2>1
<1>5. a.do = "diagnose" /\ StepOk(a) /\ ~Opens(a) /\ Calm(a)
  BY <1>4 DEF step, StepOk, Opens, Calm
<1>6. PICK p : p = <<a>>
  OBVIOUS
<1>7. p \in Seq(Steps) /\ p # <<>> /\ Len(p) = 1 /\ p[1] = a
  BY <1>6
<1>8. Shape(p)
  BY <1>5, <1>7 DEF Shape, Linked
<1>9. \A d : Has(p, d) <=> d = "diagnose"
  BY <1>5, <1>7 DEF Has
<1>10. Ordered(p)
  BY <1>7, <1>9 DEF Ordered
<1>11. PICK r \in WorkerType : r = [AtRest EXCEPT !.cache = c, !.steps = p]
  BY <1>3, <1>7 DEF WorkerType
<1>12. r.cache = c /\ r.steps = p /\ \A g \in Gauges : r.taken[g] = 0
  BY <1>3, <1>11 DEF WorkerType
<1>13. PICK least \in Int : least = Min(Capacities)
  <2>1. Min(Capacities) \in Capacities /\ Capacities \subseteq Nat
    BY MetricsAssumption, MinNat
  <2>2. \A x \in Capacities : x \in Int
    BY <2>1
  <2> QED BY <2>1, <2>2, Zenon
<1>14. meter[c].gauge \in [Gauges -> Int]
  BY <1>1 DEF MeterType
<1>o. PICK disk \in BOOLEAN, full \in BOOLEAN :
       LET size == IF full THEN 1 ELSE 0
       IN  /\ meter' = [meter EXCEPT ![c] =
                 [meter[c] EXCEPT !.open = TRUE, !.registered = TRUE, !.disk = disk, !.held = full,
                           !.marked = IF full THEN "yes" ELSE "no",
                           !.gauge = [meter[c].gauge EXCEPT !.caches = 1, !.capacity = Min(Capacities),
                                               !.filled = size, !.resident = size]]]
           /\ total' = [total EXCEPT !.caches = @ + 1, !.capacity = @ + Min(Capacities),
                                     !.resident = @ + size]
           /\ foundBytes' = foundBytes + size
  BY Zenon DEF OpenCache
<1>s. PICK size \in Int : size = IF full THEN 1 ELSE 0
  OBVIOUS
<1>p. /\ meter' = [meter EXCEPT ![c] =
            [meter[c] EXCEPT !.open = TRUE, !.registered = TRUE, !.disk = disk, !.held = full,
                      !.marked = IF full THEN "yes" ELSE "no",
                      !.gauge = [@ EXCEPT !.caches = 1, !.capacity = least,
                                          !.filled = size, !.resident = size]]]
      /\ total' = [total EXCEPT !.caches = @ + 1, !.capacity = @ + least, !.resident = @ + size]
      /\ foundBytes' = foundBytes + size
  <2>1. foundBytes' = foundBytes + size
    BY <1>o, <1>s
  <2>2. total' = [total EXCEPT !.caches = @ + 1, !.capacity = @ + Min(Capacities),
                               !.resident = @ + (IF full THEN 1 ELSE 0)]
    BY <1>o, Zenon
  <2>3. total' = [total EXCEPT !.caches = @ + 1, !.capacity = @ + least, !.resident = @ + size]
    BY <1>13, <1>s, <2>2, Zenon
  <2>4. meter' = [meter EXCEPT ![c] =
                 [meter[c] EXCEPT !.open = TRUE, !.registered = TRUE, !.disk = disk, !.held = full,
                           !.marked = IF full THEN "yes" ELSE "no",
                           !.gauge = [@ EXCEPT !.caches = 1, !.capacity = Min(Capacities),
                                               !.filled = IF full THEN 1 ELSE 0,
                                               !.resident = IF full THEN 1 ELSE 0]]]
    BY <1>o, Zenon
  <2>5. meter' = [meter EXCEPT ![c] =
                 [meter[c] EXCEPT !.open = TRUE, !.registered = TRUE, !.disk = disk, !.held = full,
                           !.marked = IF full THEN "yes" ELSE "no",
                           !.gauge = [@ EXCEPT !.caches = 1, !.capacity = least,
                                               !.filled = size, !.resident = size]]]
    BY <1>13, <1>s, <2>4, Zenon
  <2> QED BY <2>1, <2>3, <2>5
<1>15. PICK n \in [Gauges -> Int] :
         n = [meter[c].gauge EXCEPT !["caches"] = 1, !["capacity"] = least, !["filled"] = size, !["resident"] = size]
  <2>1. PICK f \in [Gauges -> Int] : f = meter[c].gauge
    BY <1>14
  <2>2. \A h \in [Gauges -> Int], g \in Gauges, i \in Int : [h EXCEPT ![g] = i] \in [Gauges -> Int]
    OBVIOUS
  <2>3. "caches" \in Gauges /\ "capacity" \in Gauges /\ "filled" \in Gauges /\ "resident" \in Gauges /\ 1 \in Int
    BY DEF Gauges
  <2>4. PICK h \in [Gauges -> Int] : h = [f EXCEPT !["caches"] = 1]
    BY <2>2, <2>3
  <2>5. PICK k \in [Gauges -> Int] : k = [h EXCEPT !["capacity"] = least]
    BY <2>2, <2>3
  <2>6. PICK l \in [Gauges -> Int] : l = [k EXCEPT !["filled"] = size]
    BY <1>s, <2>2, <2>3
  <2>7. [l EXCEPT !["resident"] = size] \in [Gauges -> Int]
    BY <1>s, <2>2, <2>3
  <2> QED BY <2>1, <2>4, <2>5, <2>6, <2>7
<1>16. PICK mark \in {"no", "yes", "nil"} : mark = IF full THEN "yes" ELSE "no"
  OBVIOUS
<1>m. PICK m \in MeterType :
         m = [meter[c] EXCEPT !.open = TRUE, !.registered = TRUE, !.disk = disk, !.held = full,
                              !.marked = mark, !.gauge = n]
  BY <1>1 DEF MeterType
<1>17. m.open /\ ~m.closed /\ m.registered /\ m.gone = {} /\ m.gauge = n /\ m.count = meter[c].count
  BY <1>1, <1>2, <1>m DEF MeterType
<1>18. worker' = [worker EXCEPT ![w] = r] /\ meter' = [meter EXCEPT ![c] = m]
  <2>1. worker' = [worker EXCEPT ![w] = r]
    BY <1>4, <1>6, <1>11 DEF OpenCache
  <2>2. [meter[c] EXCEPT !.open = TRUE, !.registered = TRUE, !.disk = disk, !.held = full, !.marked = mark].gauge
          = meter[c].gauge
    BY <1>1 DEF MeterType
  <2>3. [[meter[c] EXCEPT !.open = TRUE, !.registered = TRUE, !.disk = disk, !.held = full, !.marked = mark]
           EXCEPT !.gauge = [@ EXCEPT !.caches = 1, !.capacity = least, !.filled = size, !.resident = size]]
          = [[meter[c] EXCEPT !.open = TRUE, !.registered = TRUE, !.disk = disk, !.held = full, !.marked = mark]
               EXCEPT !.gauge = n]
    BY <1>15, <2>2
  <2>4. [meter[c] EXCEPT !.open = TRUE, !.registered = TRUE, !.disk = disk, !.held = full,
                         !.marked = IF full THEN "yes" ELSE "no",
                         !.gauge = [@ EXCEPT !.caches = 1, !.capacity = least, !.filled = size, !.resident = size]]
          = m
    BY <1>16, <1>m, <2>3
  <2>5. meter' = [meter EXCEPT ![c] = m]
    BY <1>p, <2>4, Zenon
  <2> QED BY <2>1, <2>5
<1>19. /\ totalCount' = totalCount /\ pool' = pool /\ pooled' = pooled /\ straddled' = straddled
       /\ idleMax' = idleMax /\ idleSeen' = idleSeen /\ diagnosed' = diagnosed
       /\ worker[w].steps = <<>>
  BY DEF OpenCache
<1>20. total' \in [Gauges -> Int] /\ foundBytes \in Int /\ foundBytes' \in Int
  <2>1. "caches" \in Gauges /\ "capacity" \in Gauges /\ "resident" \in Gauges
    BY DEF Gauges
  <2>2. total["caches"] + 1 \in Int /\ total["capacity"] + least \in Int /\ total["resident"] + size \in Int
    BY <1>1, <1>s, <2>1
  <2>3. PICK a1 \in Int, a2 \in Int, a3 \in Int :
           a1 = total["caches"] + 1 /\ a2 = total["capacity"] + least /\ a3 = total["resident"] + size
    BY <2>2
  <2>4. [[[total EXCEPT !["caches"] = a1] EXCEPT !["capacity"] = a2] EXCEPT !["resident"] = a3] \in [Gauges -> Int]
    BY <1>1
  <2>5. total' = [[[total EXCEPT !["caches"] = a1] EXCEPT !["capacity"] = a2] EXCEPT !["resident"] = a3]
    BY <1>p, <2>3
  <2>6. foundBytes \in Int
    BY DEF MetricsInv, Balance
  <2> QED BY <1>p, <1>s, <2>4, <2>5, <2>6
<1>21. ASSUME NEW g \in Gauges
       PROVE  total'[g] + unsaid(g)' = total[g] + unsaid(g) + (part(m, g) - part(meter[c], g))
  <2>1. part(meter[c], g) = 0 /\ part(m, g) = n[g] /\ total[g] \in Int
    BY <1>1, <1>2, <1>17 DEF part
  <2>2. n[g] = IF g = "caches" THEN 1 ELSE IF g = "capacity" THEN least
               ELSE IF g = "filled" \/ g = "resident" THEN size ELSE 0
    BY <1>2, <1>14, <1>15
  <2>3. total'[g] = IF g = "caches" THEN total[g] + 1 ELSE IF g = "capacity" THEN total[g] + least
                    ELSE IF g = "resident" THEN total[g] + size ELSE total[g]
    BY <1>1, <1>p
  <2>4. /\ unsaid(g) = IF g = "filled" THEN foundBytes ELSE 0
        /\ unsaid(g)' = IF g = "filled" THEN foundBytes + size ELSE 0
    BY <1>p DEF unsaid
  <2> QED BY <1>20, <1>s, <2>1, <2>2, <2>3, <2>4
<1>22. CacheOk(m)
  BY <1>17 DEF CacheOk
<1>23. /\ Shape(r.steps) /\ Ordered(r.steps) /\ CalmAt(r.steps) /\ Has(r.steps, "diagnose")
       /\ ~Has(r.steps, "subtract") /\ ~Has(r.steps, "undiagnose")
  BY <1>5, <1>7, <1>8, <1>9, <1>10, <1>12 DEF CalmAt
<1>24. /\ Has(r.steps, "subtract") => Closes(r, m)
       /\ ~meter[c].closed \/ ~Has(r.steps, "subtract")
       /\ Has(r.steps, "undiagnose") => m.closed
       /\ meter[c].closed => m.closed
       /\ m.closed => Has(r.steps, "subtract") \/ meter[c].closed
       /\ ~meter[c].open => Has(r.steps, "diagnose")
       /\ meter[c].open => m.gone = meter[c].gone /\ m.registered = meter[c].registered
  BY <1>2, <1>17, <1>23
<1>25. Starting(w, c, r, m)
  BY <1>12, <1>17, <1>18, <1>19, <1>20, <1>21, <1>22, <1>23, <1>24 DEF Starting
<1> QED BY <1>25, StartMove

-----------------------------------------------------------------------------
(* The numbers are exact. *)

\* A worker that is at rest owes nothing.
LEMMA RestOwesNothing ==
  ASSUME NEW r, r.steps = <<>>
  PROVE  /\ \A g : owes(r, g) = 0
         /\ \A k : uncounted(r, k) = 0
         /\ unpooled(r) = 0
         /\ \A d : ~Has(r.steps, d)
<1>1. \A d : ~Has(r.steps, d)
  BY DEF Has
<1>2. \A g : taking(r, g) = 0 /\ untold(r, g) = 0
  BY <1>1 DEF taking, untold
<1> QED BY <1>1, <1>2 DEF owes, uncounted, unpooled

LEMMA QuietSums ==
  ASSUME \A w \in MeterWorkers : worker[w].steps = <<>>
  PROVE  /\ \A g \in Gauges : sumOwed(g) = 0
         /\ \A k \in Counters : sumUncounted(k) = 0
         /\ sumUnpooled = 0
<1>1. IsFiniteSet(MeterWorkers)
  BY MetricsAssumption
<1>2. ASSUME NEW g \in Gauges PROVE sumOwed(g) = 0
  <2> DEFINE f == [w \in MeterWorkers |-> owes(worker[w], g)]
  <2>1. \A w \in MeterWorkers : f[w] = 0
    BY RestOwesNothing
  <2> HIDE DEF f
  <2>2. SumFunctionOnSet(f, MeterWorkers) = 0
    BY <1>1, <2>1, SumZero
  <2> QED BY <2>2 DEF sumOwed, f
<1>3. ASSUME NEW k \in Counters PROVE sumUncounted(k) = 0
  <2> DEFINE f == [w \in MeterWorkers |-> uncounted(worker[w], k)]
  <2>1. \A w \in MeterWorkers : f[w] = 0
    BY RestOwesNothing
  <2> HIDE DEF f
  <2>2. SumFunctionOnSet(f, MeterWorkers) = 0
    BY <1>1, <2>1, SumZero
  <2> QED BY <2>2 DEF sumUncounted, f
<1>4. sumUnpooled = 0
  <2> DEFINE f == [w \in MeterWorkers |-> unpooled(worker[w])]
  <2>1. \A w \in MeterWorkers : f[w] = 0
    BY RestOwesNothing
  <2> HIDE DEF f
  <2>2. SumFunctionOnSet(f, MeterWorkers) = 0
    BY <1>1, <2>1, SumZero
  <2> QED BY <2>2 DEF sumUnpooled, f
<1> QED BY <1>2, <1>3, <1>4

LEMMA MetricsStart == MetricsInit => MetricsInv
<1> SUFFICES ASSUME MetricsInit PROVE MetricsInv
  OBVIOUS
<1>1. /\ meter = [c \in MeteredCaches |-> NewCache] /\ worker = [w \in MeterWorkers |-> AtRest]
      /\ total = [g \in Gauges |-> 0] /\ totalCount = [k \in Counters |-> 0] /\ diagnosed = {}
      /\ pool = 0 /\ pooled = 0 /\ idleMax = 0 /\ idleSeen = 0 /\ foundBytes = 0
  BY DEF MetricsInit
<1>2. /\ AtRest \in WorkerType /\ AtRest.steps = <<>>
      /\ \A w \in MeterWorkers : worker[w] = AtRest
  BY <1>1 DEF AtRest, WorkerType
<1>3. NewCache \in MeterType
  BY DEF NewCache, MeterType
<1>4. /\ ~NewCache.open /\ ~NewCache.closed /\ ~NewCache.registered /\ NewCache.gone = {}
      /\ \A g \in Gauges : NewCache.gauge[g] = 0
      /\ \A k \in Counters : NewCache.count[k] = 0
      /\ \A c \in MeteredCaches : meter[c] = NewCache
  BY <1>1 DEF NewCache
<1>5. \A d : ~Has(AtRest.steps, d)
  BY <1>2, RestOwesNothing
<1>6. WorkerOk(AtRest)
  <2>1. Len(AtRest.steps) = 0
    BY <1>2
  <2>2. Shape(AtRest.steps)
    BY <1>2, <2>1 DEF Shape, Linked
  <2>3. Ordered(AtRest.steps)
    BY <1>5, <2>1 DEF Ordered
  <2> QED BY <1>2, <2>2, <2>3 DEF WorkerOk
<1>7. CacheOk(NewCache)
  BY <1>3, <1>4 DEF CacheOk
<1>8. worker \in [MeterWorkers -> WorkerType] /\ meter \in [MeteredCaches -> MeterType]
  BY <1>1, <1>2, <1>3
<1>9. Structure
  BY <1>1, <1>2, <1>4, <1>5, <1>6, <1>7, <1>8 DEF Structure
<1>10. \A w \in MeterWorkers : worker[w].steps = <<>>
  BY <1>2
<1>11. IsFiniteSet(MeteredCaches)
  BY MetricsAssumption
<1>12. ASSUME NEW g \in Gauges PROVE sumParts(g) = 0
  <2> DEFINE f == [c \in MeteredCaches |-> part(meter[c], g)]
  <2>1. \A c \in MeteredCaches : f[c] = 0
    BY <1>4 DEF part
  <2> HIDE DEF f
  <2>2. SumFunctionOnSet(f, MeteredCaches) = 0
    BY <1>11, <2>1, SumZero
  <2> QED BY <2>2 DEF sumParts, f
<1>13. ASSUME NEW k \in Counters PROVE sumCounts(k) = 0
  <2> DEFINE f == [c \in MeteredCaches |-> meter[c].count[k]]
  <2>1. \A c \in MeteredCaches : f[c] = 0
    BY <1>4
  <2> HIDE DEF f
  <2>2. SumFunctionOnSet(f, MeteredCaches) = 0
    BY <1>11, <2>1, SumZero
  <2> QED BY <2>2 DEF sumCounts, f
<1>14. /\ \A g \in Gauges : sumOwed(g) = 0
       /\ \A k \in Counters : sumUncounted(k) = 0
       /\ sumUnpooled = 0
  BY <1>10, QuietSums
<1>15. /\ total \in [Gauges -> Int] /\ totalCount \in [Counters -> Int]
       /\ pool \in 0..PoolLimit /\ pooled \in Int /\ idleMax = idleSeen /\ foundBytes \in Int
  BY <1>1, MetricsAssumption
<1>16. \A g \in Gauges \ straddled : total[g] + unsaid(g) = sumParts(g) + sumOwed(g)
  BY <1>1, <1>12, <1>14 DEF unsaid
<1>17. \A k \in Counters : totalCount[k] + sumUncounted(k) = sumCounts(k)
  BY <1>1, <1>13, <1>14
<1>18. pooled + sumUnpooled = pool
  BY <1>1, <1>14
<1> QED BY <1>9, <1>15, <1>16, <1>17, <1>18 DEF MetricsInv, Balance

LEMMA MetricsStep == MetricsInv /\ [MetricsNext]_meterVars => MetricsInv'
<1> SUFFICES ASSUME MetricsInv, [MetricsNext]_meterVars PROVE MetricsInv'
  OBVIOUS
<1>1. CASE UNCHANGED meterVars
  <2>1. /\ meter' = meter /\ worker' = worker /\ total' = total /\ totalCount' = totalCount /\ pool' = pool
        /\ pooled' = pooled /\ idleMax' = idleMax /\ idleSeen' = idleSeen /\ diagnosed' = diagnosed
        /\ straddled' = straddled /\ foundBytes' = foundBytes
    BY <1>1 DEF meterVars
  <2>2. Structure'
    BY <2>1 DEF MetricsInv, Structure
  <2>3. /\ \A g \in Gauges : sumParts(g)' = sumParts(g) /\ sumOwed(g)' = sumOwed(g)
        /\ \A k \in Counters : sumCounts(k)' = sumCounts(k) /\ sumUncounted(k)' = sumUncounted(k)
        /\ sumUnpooled' = sumUnpooled /\ \A g : unsaid(g)' = unsaid(g)
    BY <2>1 DEF unsaid, sumParts, sumOwed, sumCounts, sumUncounted, sumUnpooled
  <2>4. Balance'
    BY <2>1, <2>3 DEF MetricsInv, Balance
  <2> QED BY <2>2, <2>4 DEF MetricsInv
<1>2. ASSUME NEW w \in MeterWorkers, NEW c \in MeteredCaches,
             OpenCache(w, c) \/ UseCache(w, c) \/ UseReaders(w, c) \/ CloseMetered(w, c)
      PROVE  MetricsInv'
  <2>1. UseCache(w, c) \/ UseReaders(w, c) \/ CloseMetered(w, c) => foundBytes' = foundBytes
    BY DEF UseCache, UseReaders, CloseMetered, Start
  <2> QED BY <1>2, <2>1, OpenCacheMoves, UseCacheMoves, UseReadersMoves, CloseMeteredMoves
<1>3. ASSUME NEW w \in MeterWorkers, MeterStep(w) PROVE MetricsInv'
  <2>1. foundBytes' = foundBytes
    BY <1>3 DEF MeterStep
  <2> QED BY <1>3, <2>1, ChangeGaugeMoves, TellGaugeMoves, CountMoves, PlainStepsMove, PoolChunkMoves, CountPooledMoves,
     TrimPoolMoves, MarkResidentMoves, ReleaseInMemoryMoves, DiagnoseMoves, UnregisterMoves DEF MeterStep
<1> QED BY <1>1, <1>2, <1>3 DEF MetricsNext

LEMMA MetricsInvIsEnough == MetricsInv => MetricsExact
<1> SUFFICES ASSUME MetricsInv, \A w \in MeterWorkers : worker[w].steps = <<>>
             PROVE  /\ \A g \in Gauges \ straddled :
                         total[g] + unsaid(g)
                           = SumFunctionOnSet([c \in MeteredCaches |-> meter[c].gauge[g]], Live)
                    /\ \A k \in Counters :
                         totalCount[k] = SumFunctionOnSet([c \in MeteredCaches |-> meter[c].count[k]], MeteredCaches)
                    /\ idleMax = idleSeen
                    /\ pooled = pool /\ pool \in 0..PoolLimit
                    /\ SnapshotDiagnosed = Live
  BY DEF MetricsExact, NoOperation, SnapshotCacheStats, unsaid
<1>1. Structure /\ Balance
  BY DEF MetricsInv
<1>2. \A w \in MeterWorkers : \A d : ~Has(worker[w].steps, d)
  BY RestOwesNothing
<1>3. /\ \A g \in Gauges : sumOwed(g) = 0
      /\ \A k \in Counters : sumUncounted(k) = 0
      /\ sumUnpooled = 0
  BY QuietSums
<1>4. /\ \A c \in MeteredCaches : CacheOk(meter[c]) /\ meter[c] \in MeterType
      /\ \A c \in MeteredCaches : meter[c].closed => meter[c].gone = Gauges
      /\ \A c \in MeteredCaches : meter[c].open /\ ~meter[c].closed => c \in diagnosed
      /\ diagnosed \subseteq {c \in MeteredCaches : meter[c].open}
  BY <1>1, <1>2 DEF Structure
<1>5. Gauges # {}
  BY DEF Gauges
<1>6. ASSUME NEW c \in MeteredCaches, meter[c].registered
      PROVE  meter[c].open /\ ~meter[c].closed /\ meter[c].gone = {}
  BY <1>4, <1>5, <1>6 DEF CacheOk
<1>7. ASSUME NEW c \in MeteredCaches, NEW g \in Gauges, ~meter[c].registered PROVE part(meter[c], g) = 0
  <2>1. CASE meter[c].open
    BY <1>4, <1>7, <2>1 DEF CacheOk, part
  <2>2. CASE ~meter[c].open
    BY <1>4, <2>2 DEF CacheOk, part
  <2> QED BY <2>1, <2>2
<1>8. IsFiniteSet(MeteredCaches)
  BY MetricsAssumption
<1>9. ASSUME NEW g \in Gauges \ straddled
      PROVE  total[g] + unsaid(g) = SumFunctionOnSet([c \in MeteredCaches |-> meter[c].gauge[g]], Live)
  <2> DEFINE f == [c \in MeteredCaches |-> part(meter[c], g)]
             h == [c \in MeteredCaches |-> meter[c].gauge[g]]
             L == Live
  <2>1. L \in SUBSET MeteredCaches /\ \A c \in MeteredCaches : c \in L <=> meter[c].registered
    BY DEF Live
  <2>2. \A c \in MeteredCaches : f[c] \in Int
    BY <1>4, PartsInt
  <2>3. \A c \in MeteredCaches \ L : f[c] = 0
    BY <1>7, <2>1
  <2>4. \A c \in L : f[c] = h[c]
    BY <1>6, <2>1 DEF part
  <2>5. IsFiniteSet(L)
    BY <1>8, <2>1, FS_Subset
  <2>6. sumParts(g) = SumFunctionOnSet(f, MeteredCaches)
    BY DEF sumParts
  <2> HIDE DEF f, h, L
  <2>7. SumFunctionOnSet(f, MeteredCaches) = SumFunctionOnSet(f, L)
    BY <1>8, <2>1, <2>2, <2>3, SumWithin
  <2>8. SumFunctionOnSet(f, L) = SumFunctionOnSet(h, L)
    BY <2>4, <2>5, SumSame
  <2>9. SumFunctionOnSet(f, MeteredCaches) \in Int
    BY <1>8, <2>2, SumInt
  <2>10. total[g] + unsaid(g) = sumParts(g) + sumOwed(g) /\ sumOwed(g) = 0
    BY <1>1, <1>3 DEF Balance
  <2>11. total[g] + unsaid(g) = SumFunctionOnSet(h, L)
    BY <2>6, <2>7, <2>8, <2>9, <2>10
  <2> QED BY <2>11 DEF h, L
<1>10. ASSUME NEW k \in Counters
       PROVE  totalCount[k] = SumFunctionOnSet([c \in MeteredCaches |-> meter[c].count[k]], MeteredCaches)
  <2>1. totalCount[k] + sumUncounted(k) = sumCounts(k) /\ sumUncounted(k) = 0 /\ totalCount[k] \in Int
    BY <1>1, <1>3 DEF Balance
  <2>2. totalCount[k] = sumCounts(k)
    BY <2>1
  <2> QED BY <2>2 DEF sumCounts
<1>11. pooled = pool /\ pool \in 0..PoolLimit /\ idleMax = idleSeen
  <2>1. pooled + sumUnpooled = pool /\ sumUnpooled = 0 /\ pooled \in Int
    BY <1>1, <1>3 DEF Balance
  <2> QED BY <1>1, <2>1 DEF Balance
<1>12. SnapshotDiagnosed = Live
  <2>1. \A c \in MeteredCaches : meter[c].registered => c \in diagnosed /\ ~meter[c].closed
    BY <1>4, <1>6
  <2>2. \A c \in diagnosed : ~meter[c].closed => c \in MeteredCaches /\ meter[c].registered
    BY <1>4 DEF CacheOk
  <2> QED BY <2>1, <2>2 DEF SnapshotDiagnosed, Live
<1> QED BY <1>9, <1>10, <1>11, <1>12

\* When no operation is under way, every number the server reports about its caches is what
\* its caches are, whatever their number, whatever the goroutines and the order of their
\* atomic steps: the sums are those of the open caches, the counters those of all the caches
\* there ever were, the longest idle time the longest one measured, the pool's counter the
\* chunks in the pool, and the diagnostics show the open caches.  A sum of which an update
\* fell into an unregistration is excepted (cache_metrics.go, unregisterMetrics).
THEOREM MetricsAreExact == MetricsSpec => []MetricsExact
<1>1. MetricsInit => MetricsInv
  BY MetricsStart
<1>2. MetricsInv /\ [MetricsNext]_meterVars => MetricsInv'
  BY MetricsStep
<1>3. MetricsInv => MetricsExact
  BY MetricsInvIsEnough
<1> QED BY <1>1, <1>2, <1>3, PTL DEF MetricsSpec

=============================================================================
