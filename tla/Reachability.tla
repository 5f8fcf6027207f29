---------------------------- MODULE Reachability ----------------------------
(***************************************************************************)
(* What CFG computes in rounds is the least set that holds the entry and   *)
(* is closed under edges, the dropped block left out; and what follows for *)
(* dominance.  The blocks are 1..n, the entry is 1, s their successors.    *)
(***************************************************************************)
EXTENDS CFG, FiniteSets, TLAPS, FiniteSetTheorems, WellFoundedInduction

FlowGraphs(n) == [1..n -> Seq(2..n)]

\* One round, and n of them.
Round(s, d, now) == now \cup ((UNION {ToSet(s[b]) : b \in now}) \ {d})
Rounds(n, s, d, f) ==
  f = [k \in 0..n |-> IF k = 0 THEN {1} \ {d} ELSE Round(s, d, f[k - 1])]

ClosedUnder(n, s, d, S) ==
  /\ 1 # d => 1 \in S
  /\ \A b \in S \cap (1..n) : ToSet(s[b]) \ {d} \subseteq S
Avoiding(n, s, d) == {b \in 1..n : \A S \in SUBSET (1..n) : ClosedUnder(n, s, d, S) => b \in S}

-----------------------------------------------------------------------------
(* Induction on natural numbers up to n, for a set instead of a predicate. *)

\* A set with 0 that holds k + 1 whenever it holds k < n holds 0..n.
LEMMA UpTo ==
  ASSUME NEW n \in Nat, NEW P, 0 \in P, \A k \in 0..(n - 1) : k \in P => k + 1 \in P
  PROVE  \A k \in 0..n : k \in P
<1> SUFFICES ASSUME NEW a \in 0..n, a \notin P PROVE FALSE
  OBVIOUS
<1> DEFINE Bad == {k \in Nat : k <= n /\ k \notin P}
<1>1. a \in Bad
  OBVIOUS
<1>2. PICK m \in Bad : \A k \in Bad : ~(<<k, m>> \in OpToRel(<, Nat))
  <2>1. IsWellFoundedOn(OpToRel(<, Nat), Nat)
    BY NatLessThanWellFounded
  <2>2. Bad \subseteq Nat /\ Bad # {}
    BY <1>1
  <2> HIDE DEF Bad
  <2> QED BY <2>1, <2>2, WFMin
<1>3. \A k \in Bad : ~(k < m)
  BY <1>2 DEF OpToRel
<1>4. m # 0 /\ m \in Nat /\ m <= n
  BY <1>2
<1>5. m - 1 \in 0..(n - 1) /\ m - 1 \in Nat /\ m - 1 <= n /\ m - 1 < m
  BY <1>4
<1>6. m - 1 \in P
  BY <1>3, <1>5
<1>7. (m - 1) + 1 = m
  BY <1>4
<1>8. m \in P
  BY <1>5, <1>6, <1>7
<1> QED BY <1>2, <1>8

-----------------------------------------------------------------------------
(* The rounds reach the least closed set. *)

\* The recursive function of CFG exists.
LEMMA RoundsExist ==
  ASSUME NEW n \in Nat, NEW s, NEW d
  PROVE  \E f : Rounds(n, s, d, f)
<1> DEFINE P == {k \in 0..n : \E f : Rounds(k, s, d, f)}
<1>1. 0 \in P
  <2> DEFINE f == [k \in 0..0 |-> {1} \ {d}]
  <2>1. Rounds(0, s, d, f)
    BY DEF Rounds
  <2> QED BY <2>1
<1>2. ASSUME NEW k \in 0..(n - 1), k \in P PROVE k + 1 \in P
  <2> PICK f : Rounds(k, s, d, f)
    BY <1>2
  <2>1. k \in Nat /\ k + 1 \in 0..n
    OBVIOUS
  <2> DEFINE g == [j \in 0..(k + 1) |-> IF j <= k THEN f[j] ELSE Round(s, d, f[k])]
  <2>2. ASSUME NEW j \in 0..(k + 1)
        PROVE  g[j] = IF j = 0 THEN {1} \ {d} ELSE Round(s, d, g[j - 1])
    <3>1. CASE j <= k
      <4>1. j \in 0..k /\ g[j] = f[j]
        BY <2>1, <3>1
      <4>2. f[j] = IF j = 0 THEN {1} \ {d} ELSE Round(s, d, f[j - 1])
        BY <4>1 DEF Rounds
      <4>3. j # 0 => g[j - 1] = f[j - 1]
        BY <2>1, <3>1
      <4> HIDE DEF g
      <4> QED BY <4>1, <4>2, <4>3
    <3>2. CASE ~(j <= k)
      <4>1. j = k + 1 /\ j # 0 /\ j - 1 = k
        BY <2>1, <3>2
      <4>2. g[j] = Round(s, d, f[k]) /\ g[k] = f[k]
        BY <2>1, <3>2
      <4> HIDE DEF g
      <4> QED BY <4>1, <4>2
    <3> QED BY <3>1, <3>2
  <2>3. g = [j \in 0..(k + 1) |-> IF j = 0 THEN {1} \ {d} ELSE Round(s, d, g[j - 1])]
    <3>1. DOMAIN g = 0..(k + 1) /\ g = [j \in 0..(k + 1) |-> g[j]]
      OBVIOUS
    <3> HIDE DEF g
    <3> QED BY <2>2, <3>1
  <2>4. Rounds(k + 1, s, d, g)
    <3> HIDE DEF g
    <3> QED BY <2>3 DEF Rounds
  <2> HIDE DEF g
  <2> QED BY <2>1, <2>4
<1>3. n \in 0..n
  OBVIOUS
<1>4. n \in P
  <2> HIDE DEF P
  <2> QED BY <1>1, <1>2, <1>3, UpTo
<1> QED BY <1>4

\* The rounds, one by one.
LEMMA RoundFacts ==
  ASSUME NEW n \in Nat \ {0}, NEW s \in FlowGraphs(n), NEW d, NEW f, Rounds(n, s, d, f)
  PROVE  /\ f[0] = {1} \ {d}
         /\ \A k \in 0..(n - 1) : f[k + 1] = Round(s, d, f[k])
         /\ \A k \in 0..n : f[k] \subseteq (1..n) \ {d}
<1>1. f[0] = {1} \ {d}
  BY DEF Rounds
<1>2. ASSUME NEW k \in 0..(n - 1) PROVE f[k + 1] = Round(s, d, f[k])
  <2> DEFINE j == k + 1
  <2>1. j \in 0..n /\ j # 0 /\ j - 1 = k
    OBVIOUS
  <2> HIDE DEF j
  <2>2. f[j] = Round(s, d, f[k])
    BY <2>1 DEF Rounds
  <2> QED BY <2>2 DEF j
<1>3. \A k \in 0..n : f[k] \subseteq (1..n) \ {d}
  <2> DEFINE P == {k \in 0..n : f[k] \subseteq (1..n) \ {d}}
  <2>1. 0 \in P
    BY <1>1
  <2>2. ASSUME NEW k \in 0..(n - 1), k \in P PROVE k + 1 \in P
    <3>1. ASSUME NEW b \in f[k] PROVE ToSet(s[b]) \subseteq 1..n
      <4>1. s[b] \in Seq(2..n)
        BY <2>2 DEF FlowGraphs
      <4> QED BY <4>1 DEF ToSet
    <3>2. Round(s, d, f[k]) \subseteq (1..n) \ {d}
      BY <2>2, <3>1 DEF Round
    <3> QED BY <1>2, <3>2
  <2>3. n \in Nat
    OBVIOUS
  <2> HIDE DEF P
  <2>4. \A k \in 0..n : k \in P
    BY <2>1, <2>2, <2>3, UpTo
  <2> QED BY <2>4 DEF P
<1> QED BY <1>1, <1>2, <1>3

\* After n rounds a round brings nothing new: until then each brings a block.
LEMMA RoundsClose ==
  ASSUME NEW n \in Nat \ {0}, NEW s \in FlowGraphs(n), NEW d, NEW f, Rounds(n, s, d, f)
  PROVE  Round(s, d, f[n]) = f[n]
<1> DEFINE P == {k \in 0..n : Round(s, d, f[k]) = f[k] \/ Cardinality(f[k]) >= k + 1}
<1>0. n \in Nat /\ n \in 0..n /\ 1 \in 1..n
  OBVIOUS
<1>f. /\ f[0] = {1} \ {d}
      /\ \A k \in 0..(n - 1) : f[k + 1] = Round(s, d, f[k])
      /\ \A k \in 0..n : f[k] \subseteq (1..n) \ {d}
  BY RoundFacts
<1>c. \A T \in SUBSET (1..n) : IsFiniteSet(T) /\ Cardinality(T) \in Nat /\ Cardinality(T) <= n
  <2>1. IsFiniteSet(1..n) /\ Cardinality(1..n) = n
    BY <1>0, FS_Interval
  <2> QED BY <2>1, FS_Subset, FS_CardinalityType
<1>1. 0 \in P
  <2>1. CASE d = 1
    <3>1. f[0] = {}
      BY <1>f, <2>1
    <3>2. Round(s, d, f[0]) = f[0]
      BY <3>1 DEF Round
    <3> QED BY <3>2
  <2>2. CASE d # 1
    <3>1. f[0] = {1}
      BY <1>f, <2>2
    <3>2. Cardinality(f[0]) = 1
      BY <3>1, FS_Singleton
    <3> QED BY <3>2
  <2> QED BY <2>1, <2>2
<1>2. ASSUME NEW k \in 0..(n - 1), k \in P PROVE k + 1 \in P
  <2> DEFINE A == f[k]
             B == f[k + 1]
  <2>1. B = Round(s, d, A) /\ A \subseteq B
    BY <1>f DEF Round
  <2>2. k \in 0..n /\ k + 1 \in 0..n
    OBVIOUS
  <2>3. A \in SUBSET (1..n) /\ B \in SUBSET (1..n)
    BY <1>f, <2>2
  <2>4. Round(s, d, A) = A \/ Cardinality(A) >= k + 1
    BY <1>2
  <2>5. CASE Round(s, d, A) = A
    <3>1. Round(s, d, B) = B
      BY <2>1, <2>5
    <3> QED BY <2>2, <3>1
  <2>6. CASE Round(s, d, A) # A
    <3>1. A # B /\ IsFiniteSet(B) /\ Cardinality(A) \in Nat /\ Cardinality(B) \in Nat
      BY <1>c, <2>1, <2>3, <2>6
    <3>2. Cardinality(A) < Cardinality(B)
      BY <2>1, <3>1, FS_Subset
    <3>3. Cardinality(B) >= (k + 1) + 1
      BY <2>4, <2>6, <3>1, <3>2
    <3> QED BY <2>2, <3>3
  <2> QED BY <2>5, <2>6
<1>3. n \in P
  <2> HIDE DEF P
  <2> QED BY <1>0, <1>1, <1>2, UpTo
<1>4. f[n] \in SUBSET (1..n)
  BY <1>0, <1>f
<1>5. Cardinality(f[n]) \in Nat /\ Cardinality(f[n]) <= n
  BY <1>c, <1>4
<1> QED BY <1>3, <1>5

\* The n-th round is the least closed set.
LEMMA RoundsReach ==
  ASSUME NEW n \in Nat \ {0}, NEW s \in FlowGraphs(n), NEW d, NEW f, Rounds(n, s, d, f)
  PROVE  f[n] = Avoiding(n, s, d)
<1>0. n \in Nat /\ n \in 0..n /\ 0 \in 0..n /\ 1 \in 1..n
  OBVIOUS
<1>1. /\ f[0] = {1} \ {d}
      /\ \A k \in 0..(n - 1) : f[k + 1] = Round(s, d, f[k])
      /\ \A k \in 0..n : f[k] \subseteq (1..n) \ {d}
  BY RoundFacts
<1>2. ASSUME NEW S \in SUBSET (1..n), ClosedUnder(n, s, d, S) PROVE f[n] \subseteq S
  <2> DEFINE P == {k \in 0..n : f[k] \subseteq S}
  <2>1. 0 \in P
    BY <1>1, <1>2 DEF ClosedUnder
  <2>2. ASSUME NEW k \in 0..(n - 1), k \in P PROVE k + 1 \in P
    <3>1. f[k + 1] = Round(s, d, f[k]) /\ k + 1 \in 0..n /\ f[k] \subseteq S
      BY <1>1, <2>2
    <3>2. Round(s, d, f[k]) \subseteq S
      BY <1>2, <3>1 DEF Round, ClosedUnder
    <3> QED BY <3>1, <3>2
  <2> HIDE DEF P
  <2>3. n \in P
    BY <1>0, <2>1, <2>2, UpTo
  <2> QED BY <2>3 DEF P
<1>3. f[n] \in SUBSET (1..n)
  BY <1>0, <1>1
<1>4. ClosedUnder(n, s, d, f[n])
  <2> DEFINE P == {k \in 0..n : 1 # d => 1 \in f[k]}
  <2>1. 0 \in P
    BY <1>1
  <2>2. ASSUME NEW k \in 0..(n - 1), k \in P PROVE k + 1 \in P
    BY <1>1, <2>2 DEF Round
  <2> HIDE DEF P
  <2>3. n \in P
    BY <1>0, <2>1, <2>2, UpTo
  <2>4. Round(s, d, f[n]) = f[n]
    BY RoundsClose
  <2>5. \A b \in f[n] : ToSet(s[b]) \ {d} \subseteq f[n]
    BY <2>4 DEF Round
  <2> QED BY <2>3, <2>5 DEF P, ClosedUnder
<1> QED BY <1>2, <1>3, <1>4 DEF Avoiding

-----------------------------------------------------------------------------
(* Dominance: d dominates the blocks that are not reached around it. *)

\* The set is closed.
LEMMA AvoidingCloses ==
  ASSUME NEW n \in Nat \ {0}, NEW s \in FlowGraphs(n), NEW d
  PROVE  /\ Avoiding(n, s, d) \subseteq (1..n) \ {d}
         /\ d # 1 => 1 \in Avoiding(n, s, d)
         /\ \A b \in Avoiding(n, s, d) : \A c \in ToSet(s[b]) :
               c # d => c \in Avoiding(n, s, d)
<1>0. 1 \in 1..n
  OBVIOUS
<1>1. \A b \in 1..n : ToSet(s[b]) \subseteq 1..n
  <2> TAKE b \in 1..n
  <2>1. s[b] \in Seq(2..n)
    BY DEF FlowGraphs
  <2> QED BY <2>1 DEF ToSet
<1>2. ClosedUnder(n, s, d, (1..n) \ {d})
  BY <1>0, <1>1 DEF ClosedUnder
<1>3. ASSUME NEW b \in Avoiding(n, s, d), NEW c \in ToSet(s[b]), c # d
      PROVE  c \in Avoiding(n, s, d)
  <2>1. b \in 1..n /\ c \in 1..n
    BY <1>1 DEF Avoiding
  <2>2. ASSUME NEW S \in SUBSET (1..n), ClosedUnder(n, s, d, S) PROVE c \in S
    BY <1>3, <2>1, <2>2 DEF Avoiding, ClosedUnder
  <2> QED BY <2>1, <2>2 DEF Avoiding
<1>4. d # 1 => 1 \in Avoiding(n, s, d)
  BY <1>0 DEF Avoiding, ClosedUnder
<1> QED BY <1>2, <1>3, <1>4 DEF Avoiding

\* And it is the least.
LEMMA AvoidingLeast ==
  ASSUME NEW n \in Nat \ {0}, NEW s \in FlowGraphs(n), NEW d, NEW S,
         d # 1 => 1 \in S,
         \A b \in S \cap (1..n) : \A c \in ToSet(s[b]) : c # d => c \in S
  PROVE  Avoiding(n, s, d) \subseteq S
<1> DEFINE T == S \cap (1..n)
<1>0. 1 \in 1..n
  OBVIOUS
<1>1. \A b \in 1..n : ToSet(s[b]) \subseteq 1..n
  <2> TAKE b \in 1..n
  <2>1. s[b] \in Seq(2..n)
    BY DEF FlowGraphs
  <2> QED BY <2>1 DEF ToSet
<1>2. ClosedUnder(n, s, d, T)
  BY <1>0, <1>1 DEF ClosedUnder
<1> QED BY <1>2 DEF Avoiding

\* Dropping a block reaches no more blocks.
LEMMA AvoidingShrinks ==
  ASSUME NEW n \in Nat \ {0}, NEW s \in FlowGraphs(n), NEW d
  PROVE  Avoiding(n, s, d) \subseteq Avoiding(n, s, 0)
<1>1. /\ 1 \in Avoiding(n, s, 0)
      /\ \A b \in Avoiding(n, s, 0) : \A c \in ToSet(s[b]) :
            c # 0 => c \in Avoiding(n, s, 0)
  BY AvoidingCloses
<1>2. \A b \in 1..n : 0 \notin ToSet(s[b])
  <2> TAKE b \in 1..n
  <2>1. s[b] \in Seq(2..n)
    BY DEF FlowGraphs
  <2> QED BY <2>1 DEF ToSet
<1> DEFINE S == Avoiding(n, s, 0)
<1>3. /\ 1 \in S
      /\ \A b \in S \cap (1..n) : \A c \in ToSet(s[b]) : c # d => c \in S
  BY <1>1, <1>2
<1> HIDE DEF S
<1>4. Avoiding(n, s, d) \subseteq S
  BY <1>3, AvoidingLeast
<1> QED BY <1>4 DEF S

\* Nothing is reached around the entry.
LEMMA EntryDominates ==
  ASSUME NEW n \in Nat \ {0}, NEW s \in FlowGraphs(n)
  PROVE  Avoiding(n, s, 1) = {}
<1> DEFINE S == {}
<1>1. /\ 1 # 1 => 1 \in S
      /\ \A b \in S \cap (1..n) : \A c \in ToSet(s[b]) : c # 1 => c \in S
  OBVIOUS
<1> DEFINE d == 1
<1>2. /\ d # 1 => 1 \in S
      /\ \A b \in S \cap (1..n) : \A c \in ToSet(s[b]) : c # d => c \in S
  OBVIOUS
<1> HIDE DEF S, d
<1>3. Avoiding(n, s, d) \subseteq S
  BY <1>2, AvoidingLeast
<1> QED BY <1>3 DEF S, d

\* Dominance is transitive: if a dominates b, then it dominates what b does.
LEMMA DominanceTransitive ==
  ASSUME NEW n \in Nat \ {0}, NEW s \in FlowGraphs(n), NEW a \in 1..n, NEW b \in 1..n,
         b \notin Avoiding(n, s, a)
  PROVE  Avoiding(n, s, a) \subseteq Avoiding(n, s, b)
<1> DEFINE S == Avoiding(n, s, a) \cap Avoiding(n, s, b)
<1>1. CASE b = 1
  <2>1. a = 1
    BY <1>1, AvoidingCloses
  <2> QED BY <1>1, <2>1
<1>2. CASE b # 1
  <2>1. /\ a # 1 => 1 \in S
        /\ \A c \in S : \A e \in ToSet(s[c]) : e # a => e \in S
    BY <1>2, AvoidingCloses
  <2> HIDE DEF S
  <2>2. Avoiding(n, s, a) \subseteq S
    BY <2>1, AvoidingLeast
  <2> QED BY <2>2 DEF S
<1> QED BY <1>1, <1>2

\* Of two blocks that dominate a third, one dominates the other.
LEMMA DominatorsComparable ==
  ASSUME NEW n \in Nat \ {0}, NEW s \in FlowGraphs(n), NEW a \in 1..n, NEW b \in 1..n,
         NEW c \in Avoiding(n, s, 0), c \notin Avoiding(n, s, a), c \notin Avoiding(n, s, b)
  PROVE  a \notin Avoiding(n, s, b) \/ b \notin Avoiding(n, s, a)
<1> SUFFICES ASSUME a \in Avoiding(n, s, b), b \in Avoiding(n, s, a) PROVE FALSE
  OBVIOUS
<1> DEFINE S == Avoiding(n, s, a) \cup Avoiding(n, s, b)
<1>1. a # 1
  BY EntryDominates
<1>2. 1 \in S
  BY <1>1, AvoidingCloses
<1>3. \A x \in S : \A y \in ToSet(s[x]) : y \in S
  BY AvoidingCloses
<1>4. c \notin S
  OBVIOUS
<1> DEFINE d == 0
<1>5. /\ d # 1 => 1 \in S
      /\ \A x \in S \cap (1..n) : \A y \in ToSet(s[x]) : y # d => y \in S
  BY <1>2, <1>3
<1>6. c \in Avoiding(n, s, d)
  OBVIOUS
<1> HIDE DEF S, d
<1>7. Avoiding(n, s, d) \subseteq S
  BY <1>5, AvoidingLeast
<1> QED BY <1>4, <1>6, <1>7

\* Two reached blocks do not dominate each other.
LEMMA DominanceAntisymmetric ==
  ASSUME NEW n \in Nat \ {0}, NEW s \in FlowGraphs(n), NEW a \in Avoiding(n, s, 0),
         NEW b \in 1..n, a # b, b \notin Avoiding(n, s, a), a \notin Avoiding(n, s, b)
  PROVE  FALSE
<1>0. a \in 1..n
  BY AvoidingCloses
<1>1. Avoiding(n, s, a) = Avoiding(n, s, b)
  BY <1>0, DominanceTransitive
<1> DEFINE S == Avoiding(n, s, a)
<1>2. a # 1
  BY <1>1, EntryDominates, AvoidingCloses
<1>3. 1 \in S /\ a \notin S
  BY <1>2, AvoidingCloses
<1>4. \A x \in S : \A y \in ToSet(s[x]) : y \in S
  <2> SUFFICES ASSUME NEW x \in S, NEW y \in ToSet(s[x]), y \notin S PROVE FALSE
    OBVIOUS
  <2>1. y = a
    BY AvoidingCloses
  <2>2. y \in Avoiding(n, s, b)
    BY <1>1, <2>1, AvoidingCloses
  <2> QED BY <1>1, <2>2
<1> DEFINE d == 0
<1>5. /\ d # 1 => 1 \in S
      /\ \A x \in S \cap (1..n) : \A y \in ToSet(s[x]) : y # d => y \in S
  BY <1>3, <1>4
<1>6. a \in Avoiding(n, s, d)
  OBVIOUS
<1> HIDE DEF S, d
<1>7. Avoiding(n, s, d) \subseteq S
  BY <1>5, AvoidingLeast
<1> QED BY <1>3, <1>6, <1>7

\* Among the dominators of a reached block that lie in a set there is a lowest:
\* one that all the others dominate.
LEMMA LowestDominator ==
  ASSUME NEW n \in Nat \ {0}, NEW s \in FlowGraphs(n), NEW c \in Avoiding(n, s, 0),
         NEW S \in SUBSET (1..n), S # {}, \A d \in S : c \notin Avoiding(n, s, d)
  PROVE  \E d \in S : \A e \in S : d \notin Avoiding(n, s, e)
<1> DEFINE Above(d) == {e \in S : d \notin Avoiding(n, s, e)}
<1>1. IsFiniteSet(S)
  <2>1. IsFiniteSet(1..n)
    BY 1 \in Int, n \in Int, FS_Interval
  <2> QED BY <2>1, FS_Subset
<1>2. ASSUME NEW d \in S PROVE IsFiniteSet(Above(d)) /\ Cardinality(Above(d)) \in Nat
                               /\ Cardinality(Above(d)) <= Cardinality(S)
  BY <1>1, FS_Subset, FS_CardinalityType
<1>3. Cardinality(S) \in Nat
  BY <1>1, FS_CardinalityType
<1> DEFINE Left == {Cardinality(S) - Cardinality(Above(d)) : d \in S}
<1>4. Left \subseteq Nat /\ Left # {}
  <2>1. ASSUME NEW d \in S PROVE Cardinality(S) - Cardinality(Above(d)) \in Nat
    <3> HIDE DEF Above
    <3> QED BY <1>2, <1>3
  <2> HIDE DEF Above
  <2> QED BY <2>1
<1>5. PICK m \in Left : \A k \in Left : ~(<<k, m>> \in OpToRel(<, Nat))
  <2>1. IsWellFoundedOn(OpToRel(<, Nat), Nat)
    BY NatLessThanWellFounded
  <2> HIDE DEF Left
  <2> QED BY <1>4, <2>1, WFMin
<1>6. PICK d \in S : m = Cardinality(S) - Cardinality(Above(d))
  BY <1>5
<1>7. ASSUME NEW e \in S, d \in Avoiding(n, s, e) PROVE FALSE
  <2>0. d \in 1..n /\ e \in 1..n /\ c \in 1..n
    BY AvoidingCloses
  <2>1. e \notin Avoiding(n, s, d)
    BY <1>7, <2>0, DominatorsComparable
  <2>2. Above(d) \subseteq Above(e)
    <3>1. Avoiding(n, s, d) \subseteq Avoiding(n, s, e)
      BY <2>0, <2>1, DominanceTransitive
    <3>2. ASSUME NEW f \in Above(d) PROVE e \notin Avoiding(n, s, f)
      <4>1. f \in 1..n /\ d \notin Avoiding(n, s, f)
        OBVIOUS
      <4>2. Avoiding(n, s, f) \subseteq Avoiding(n, s, d)
        BY <2>0, <4>1, DominanceTransitive
      <4> QED BY <2>1, <4>2
    <3> QED BY <3>2
  <2>3. e \in Above(e) /\ e \notin Above(d)
    BY <1>7, AvoidingCloses
  <2>4. Cardinality(Above(d)) < Cardinality(Above(e))
    <3> DEFINE A == Above(d)
               B == Above(e)
    <3>1. A # B /\ A \in SUBSET B /\ IsFiniteSet(B)
      BY <1>2, <2>2, <2>3
    <3>2. Cardinality(A) \in Nat /\ Cardinality(B) \in Nat
      BY <1>2
    <3> HIDE DEF A, B
    <3>3. Cardinality(A) < Cardinality(B)
      BY <3>1, <3>2, FS_Subset
    <3> QED BY <3>3 DEF A, B
  <2> DEFINE k == Cardinality(S) - Cardinality(Above(e))
  <2>5. k \in Left /\ k \in Nat /\ m \in Nat
    BY <1>4, <1>5
  <2>6. k < m
    BY <1>2, <1>3, <1>6, <2>4
  <2>7. <<k, m>> \in OpToRel(<, Nat)
    <3> HIDE DEF k
    <3> QED BY <2>5, <2>6 DEF OpToRel
  <2> QED BY <1>5, <2>5, <2>7
<1> QED BY <1>7

\* And a highest: one that dominates all the others.
LEMMA HighestDominator ==
  ASSUME NEW n \in Nat \ {0}, NEW s \in FlowGraphs(n), NEW c \in Avoiding(n, s, 0),
         NEW S \in SUBSET (1..n), S # {}, \A d \in S : c \notin Avoiding(n, s, d)
  PROVE  \E d \in S : \A e \in S : e \notin Avoiding(n, s, d)
<1> DEFINE Below(d) == {e \in S : e \notin Avoiding(n, s, d)}
<1>1. IsFiniteSet(S)
  <2>1. IsFiniteSet(1..n)
    BY 1 \in Int, n \in Int, FS_Interval
  <2> QED BY <2>1, FS_Subset
<1>2. ASSUME NEW d \in S PROVE IsFiniteSet(Below(d)) /\ Cardinality(Below(d)) \in Nat
                               /\ Cardinality(Below(d)) <= Cardinality(S)
  BY <1>1, FS_Subset, FS_CardinalityType
<1>3. Cardinality(S) \in Nat
  BY <1>1, FS_CardinalityType
<1> DEFINE Left == {Cardinality(S) - Cardinality(Below(d)) : d \in S}
<1>4. Left \subseteq Nat /\ Left # {}
  <2>1. ASSUME NEW d \in S PROVE Cardinality(S) - Cardinality(Below(d)) \in Nat
    <3> HIDE DEF Below
    <3> QED BY <1>2, <1>3
  <2> HIDE DEF Below
  <2> QED BY <2>1
<1>5. PICK m \in Left : \A k \in Left : ~(<<k, m>> \in OpToRel(<, Nat))
  <2>1. IsWellFoundedOn(OpToRel(<, Nat), Nat)
    BY NatLessThanWellFounded
  <2> HIDE DEF Left
  <2> QED BY <1>4, <2>1, WFMin
<1>6. PICK d \in S : m = Cardinality(S) - Cardinality(Below(d))
  BY <1>5
<1>7. ASSUME NEW e \in S, e \in Avoiding(n, s, d) PROVE FALSE
  <2>0. d \in 1..n /\ e \in 1..n /\ c \in 1..n
    BY AvoidingCloses
  <2>1. d \notin Avoiding(n, s, e)
    BY <1>7, <2>0, DominatorsComparable
  <2>2. Below(d) \subseteq Below(e)
    <3>1. Avoiding(n, s, e) \subseteq Avoiding(n, s, d)
      BY <2>0, <2>1, DominanceTransitive
    <3> QED BY <3>1
  <2>3. e \in Below(e) /\ e \notin Below(d)
    BY <1>7, AvoidingCloses
  <2>4. Cardinality(Below(d)) < Cardinality(Below(e))
    <3> DEFINE A == Below(d)
               B == Below(e)
    <3>1. A # B /\ A \in SUBSET B /\ IsFiniteSet(B)
      BY <1>2, <2>2, <2>3
    <3>2. Cardinality(A) \in Nat /\ Cardinality(B) \in Nat
      BY <1>2
    <3> HIDE DEF A, B
    <3>3. Cardinality(A) < Cardinality(B)
      BY <3>1, <3>2, FS_Subset
    <3> QED BY <3>3 DEF A, B
  <2> DEFINE k == Cardinality(S) - Cardinality(Below(e))
  <2>5. k \in Left /\ k \in Nat /\ m \in Nat
    BY <1>4, <1>5
  <2>6. k < m
    BY <1>2, <1>3, <1>6, <2>4
  <2>7. <<k, m>> \in OpToRel(<, Nat)
    <3> HIDE DEF k
    <3> QED BY <2>5, <2>6 DEF OpToRel
  <2> QED BY <1>5, <2>5, <2>7
<1> QED BY <1>7
-----------------------------------------------------------------------------
(* Dominance in the terms of CFG, for a function with successors s. *)

Dom(s, a, b)  == a \in DominatorsOf(s, b)
SDom(s, a, b) == Dom(s, a, b) /\ a # b

\* CFG's recursive function computes the least closed set.
LEMMA ReachedIs ==
  ASSUME NEW s \in FlowGraphs(N), NEW d
  PROVE  ReachedAvoiding(s, d) = Avoiding(N, s, d)
<1> DEFINE F(f) == f = [k \in 0..N |->
              IF k = 0 THEN {Entry} \ {d}
              ELSE f[k - 1] \cup ((UNION {ToSet(s[b]) : b \in f[k - 1]}) \ {d})]
           R == CHOOSE f : F(f)
<1>0. N \in Nat \ {0}
  BY NAssumption
<1>1. \A f : F(f) <=> Rounds(N, s, d, f)
  BY DEF Rounds, Round, Entry
<1>2. ReachedAvoiding(s, d) = R[N]
  BY DEF ReachedAvoiding
<1> HIDE DEF F
<1>3. \E f : F(f)
  BY <1>0, <1>1, RoundsExist
<1>4. F(R)
  BY <1>3
<1>5. Rounds(N, s, d, R)
  BY <1>1, <1>4
<1> HIDE DEF R
<1>6. R[N] = Avoiding(N, s, d)
  BY <1>0, <1>5, RoundsReach
<1> QED BY <1>2, <1>6

\* Dominance, spelled out.
LEMMA DomIs ==
  ASSUME NEW s \in FlowGraphs(N)
  PROVE  /\ Reached(s) = Avoiding(N, s, 0) /\ Reached(s) \subseteq Block
         /\ \A a, b : Dom(s, a, b) <=> /\ a \in 1..N /\ b \in Avoiding(N, s, 0)
                                       /\ b \notin Avoiding(N, s, a)
<1>1. Reached(s) = Avoiding(N, s, 0)
  BY ReachedIs DEF Reached, NoBlock
<1>2. Avoiding(N, s, 0) \subseteq 1..N
  BY DEF Avoiding
<1>3. \A a, b : Dom(s, a, b) <=> /\ a \in 1..N /\ b \in Avoiding(N, s, 0)
                                 /\ b \notin Avoiding(N, s, a)
  BY <1>1, ReachedIs DEF Dom, DominatorsOf, Block
<1> QED BY <1>1, <1>2, <1>3 DEF Block

\* Dominance orders the reached blocks, and those above a block in a line.
Ordered(s) ==
  /\ Entry \in Reached(s) /\ Reached(s) \subseteq Block
  /\ \A a, b : Dom(s, a, b) => a \in Reached(s) /\ b \in Reached(s)
  /\ \A b \in Reached(s) : Dom(s, b, b) /\ Dom(s, Entry, b)
  /\ \A a, b, c : Dom(s, a, b) /\ Dom(s, b, c) => Dom(s, a, c)
  /\ \A a, b : Dom(s, a, b) /\ Dom(s, b, a) => a = b
  /\ \A a, b, c : Dom(s, a, c) /\ Dom(s, b, c) => Dom(s, a, b) \/ Dom(s, b, a)

\* Dominance is a partial order on what can be reached, a chain above each block.
LEMMA DomOrder ==
  ASSUME NEW s \in FlowGraphs(N)
  PROVE  Ordered(s)
<1> DEFINE R == Avoiding(N, s, 0)
<1>0. N \in Nat \ {0} /\ 1 \in 1..N
  BY NAssumption
<1>1. Reached(s) = R /\ R \subseteq 1..N
  BY DomIs DEF Block
<1>2. \A a, b : Dom(s, a, b) <=> a \in 1..N /\ b \in R /\ b \notin Avoiding(N, s, a)
  BY DomIs
<1>3. 1 \in R
  <2> DEFINE d == 0
  <2>1. d # 1
    OBVIOUS
  <2> HIDE DEF d
  <2>2. 1 \in Avoiding(N, s, d)
    BY <1>0, <2>1, AvoidingCloses
  <2> QED BY <2>2 DEF d
<1>4. ASSUME NEW b \in R PROVE Dom(s, b, b) /\ Dom(s, 1, b)
  <2>1. b \in 1..N
    BY <1>1
  <2>2. b \notin Avoiding(N, s, b)
    BY <1>0, AvoidingCloses
  <2>3. b \notin Avoiding(N, s, 1)
    BY <1>0, EntryDominates
  <2> HIDE DEF R
  <2> QED BY <1>0, <1>2, <2>1, <2>2, <2>3
<1>5. ASSUME NEW a, NEW b, Dom(s, a, b) PROVE a \in R
  <2>1. a \in 1..N /\ b \in R /\ b \notin Avoiding(N, s, a)
    BY <1>2, <1>5
  <2> SUFFICES ASSUME a \notin R PROVE FALSE
    OBVIOUS
  <2> DEFINE d == 0
             S == Avoiding(N, s, a)
  <2>2. S \subseteq R
    BY <1>0, AvoidingShrinks
  <2>3. a # 1
    BY <1>3
  <2>4. /\ d # 1 => 1 \in S
        /\ \A x \in S \cap (1..N) : \A y \in ToSet(s[x]) : y # d => y \in S
    <3>1. 1 \in S
      BY <1>0, <2>3, AvoidingCloses
    <3>2. ASSUME NEW x \in S, NEW y \in ToSet(s[x]), y # d PROVE y \in S
      <4>1. x \in R
        BY <2>2
      <4>2. x \in Avoiding(N, s, d) /\ y \in ToSet(s[x]) /\ y # d
        BY <3>2, <4>1
      <4> HIDE DEF d
      <4>3. y \in Avoiding(N, s, d)
        BY <1>0, <4>2, AvoidingCloses
      <4>4. y # a
        BY <4>3 DEF d
      <4> QED BY <1>0, <4>4, AvoidingCloses
    <3> QED BY <3>1, <3>2
  <2> HIDE DEF d, S
  <2>5. Avoiding(N, s, d) \subseteq S
    BY <1>0, <2>4, AvoidingLeast
  <2> QED BY <2>1, <2>5 DEF d, S
<1>6. ASSUME NEW a, NEW b, NEW c, Dom(s, a, b), Dom(s, b, c) PROVE Dom(s, a, c)
  <2>1. a \in 1..N /\ b \in 1..N /\ b \notin Avoiding(N, s, a) /\ c \in R
        /\ c \notin Avoiding(N, s, b)
    BY <1>1, <1>2, <1>6
  <2>2. Avoiding(N, s, a) \subseteq Avoiding(N, s, b)
    BY <1>0, <2>1, DominanceTransitive
  <2> HIDE DEF R
  <2> QED BY <1>2, <2>1, <2>2
<1>7. ASSUME NEW a, NEW b, Dom(s, a, b), Dom(s, b, a) PROVE a = b
  <2>1. a \in Avoiding(N, s, 0) /\ b \in 1..N /\ b \notin Avoiding(N, s, a)
        /\ a \notin Avoiding(N, s, b)
    BY <1>1, <1>2, <1>7
  <2> QED BY <1>0, <2>1, DominanceAntisymmetric
<1>8. ASSUME NEW a, NEW b, NEW c, Dom(s, a, c), Dom(s, b, c)
      PROVE  Dom(s, a, b) \/ Dom(s, b, a)
  <2>1. /\ a \in 1..N /\ b \in 1..N /\ c \in Avoiding(N, s, 0)
        /\ c \notin Avoiding(N, s, a) /\ c \notin Avoiding(N, s, b)
    BY <1>2, <1>8
  <2>2. a \notin Avoiding(N, s, b) \/ b \notin Avoiding(N, s, a)
    BY <1>0, <2>1, DominatorsComparable
  <2>3. a \in R /\ b \in R
    BY <1>5, <1>8
  <2> HIDE DEF R
  <2> QED BY <1>2, <2>1, <2>2, <2>3
<1> HIDE DEF R
<1>9. \A a, b : Dom(s, a, b) => a \in R /\ b \in R
  BY <1>2, <1>5
<1>10. R \subseteq Block
  BY <1>1 DEF Block
<1> QED BY <1>1, <1>3, <1>4, <1>6, <1>7, <1>8, <1>9, <1>10 DEF Ordered, Entry

\* The immediate dominator of a block is below all its other dominators.
LEMMA IdomIs ==
  ASSUME NEW s \in FlowGraphs(N), NEW b \in Reached(s), b # Entry
  PROVE  /\ SDom(s, ImmediateDominator(s, b), b)
         /\ \A a : SDom(s, a, b) => Dom(s, a, ImmediateDominator(s, b))
<1> DEFINE S == StrictDominators(s, b)
           P(d) == S \subseteq DominatorsOf(s, d)
<1>0. N \in Nat \ {0}
  BY NAssumption
<1>1. \A a : a \in S <=> SDom(s, a, b)
  BY DEF StrictDominators, SDom, Dom
<1>2. Entry \in S
  BY <1>1, DomOrder DEF Ordered, SDom
<1>3. \E d \in S : P(d)
  <2>1. b \in Avoiding(N, s, 0) /\ S \in SUBSET (1..N) /\ S # {}
        /\ \A d \in S : b \notin Avoiding(N, s, d)
    BY <1>1, <1>2, DomIs DEF SDom
  <2> HIDE DEF S
  <2>2. PICK d \in S : \A e \in S : d \notin Avoiding(N, s, e)
    BY <1>0, <2>1, LowestDominator
  <2>3. ASSUME NEW e \in S PROVE Dom(s, e, d)
    BY <1>1, <2>1, <2>2, DomOrder, DomIs DEF Ordered, SDom
  <2> QED BY <2>2, <2>3 DEF Dom
<1>4. ImmediateDominator(s, b) = CHOOSE d \in S : P(d)
  BY DEF ImmediateDominator
<1>5. ImmediateDominator(s, b) \in S /\ P(ImmediateDominator(s, b))
  <2> HIDE DEF S, P
  <2> QED BY <1>3, <1>4
<1> HIDE DEF S
<1> QED BY <1>1, <1>5 DEF Dom

\* What strictly dominates a block dominates its predecessors.
LEMMA EdgeDom ==
  ASSUME NEW s \in FlowGraphs(N), NEW p \in Reached(s), NEW b \in ToSet(s[p])
  PROVE  /\ b \in Reached(s) /\ b # Entry
         /\ \A a : SDom(s, a, b) => Dom(s, a, p)
<1>0. N \in Nat \ {0} /\ p \in 1..N
  BY NAssumption, DomIs DEF Block
<1>1. b \in 2..N
  <2>1. s[p] \in Seq(2..N)
    BY <1>0 DEF FlowGraphs
  <2>2. PICK i \in DOMAIN s[p] : b = s[p][i]
    BY DEF ToSet
  <2> DEFINE t == s[p]
             T == 2..N
  <2>3. t \in Seq(T) /\ i \in DOMAIN t /\ b = t[i]
    BY <2>1, <2>2
  <2> HIDE DEF t, T
  <2>4. b \in T
    BY <2>3
  <2> QED BY <2>4 DEF T
<1>2. \A d : b # d /\ p \in Avoiding(N, s, d) => b \in Avoiding(N, s, d)
  BY <1>0, AvoidingCloses
<1>3. b # 0 /\ b # 1
  BY <1>0, <1>1
<1> QED BY <1>2, <1>3, DomIs DEF SDom, Entry

\* Where the dominance of a block ends, an edge into a block it does not
\* strictly dominate goes to its frontier.
LEMMA FrontierIs ==
  ASSUME NEW s \in FlowGraphs(N), NEW b \in Block, NEW y
  PROVE  y \in Frontier(s, b) <=>
           /\ y \in Reached(s) /\ ~SDom(s, b, y)
           /\ \E p \in Block : y \in ToSet(s[p]) /\ Dom(s, b, p)
<1>1. \A x : Dom(s, b, x) <=> x \in Reached(s) /\ x \notin ReachedAvoiding(s, b)
  BY DEF Dom, DominatorsOf
<1>2. y \in Frontier(s, b) <=>
        /\ y \in Reached(s) /\ ~(y \in Dominated(s, b) /\ y # b)
        /\ \E p \in Block : y \in ToSet(s[p]) /\ p \in Dominated(s, b)
  BY DEF Frontier, Preds
<1> QED BY <1>1, <1>2 DEF Dominated, SDom

\* The blocks below a block are below its children in the dominator tree, each
\* below one.
LEMMA TreeIs ==
  ASSUME NEW s \in FlowGraphs(N), NEW b \in Reached(s)
  PROVE  LET kids == {c \in Dominated(s, b) \ {b} : ImmediateDominator(s, c) = b}
         IN  /\ \A c \in kids : c # Entry /\ SDom(s, b, c)
                               /\ \A a : SDom(s, a, c) <=> Dom(s, a, b)
             /\ \A x : SDom(s, b, x) => \E c \in kids : Dom(s, c, x)
             /\ \A c, e \in kids : \A x : Dom(s, c, x) /\ Dom(s, e, x) => c = e
<1> DEFINE kids == {c \in Dominated(s, b) \ {b} : ImmediateDominator(s, c) = b}
<1>0. N \in Nat \ {0} /\ Ordered(s) /\ b \in Block
  BY NAssumption, DomOrder DEF Ordered
<1>1. \A c : c \in kids <=> SDom(s, b, c) /\ ImmediateDominator(s, c) = b
  <2>1. \A c : Dom(s, b, c) <=> c \in Dominated(s, b)
    BY <1>0 DEF Dominated, Dom, DominatorsOf
  <2> QED BY <2>1 DEF SDom
<1> HIDE DEF kids
<1>2. ASSUME NEW c \in kids
      PROVE  c \in Reached(s) /\ c # Entry /\ SDom(s, b, c) /\ \A a : SDom(s, a, c) <=> Dom(s, a, b)
  <2>1. SDom(s, b, c) /\ ImmediateDominator(s, c) = b /\ c \in Reached(s)
    BY <1>0, <1>1 DEF Ordered, SDom
  <2>2. c # Entry
    BY <1>0, <2>1 DEF Ordered, SDom
  <2>3. \A a : SDom(s, a, c) => Dom(s, a, b)
    BY <2>1, <2>2, IdomIs
  <2>4. \A a : Dom(s, a, b) => SDom(s, a, c)
    BY <1>0, <2>1 DEF Ordered, SDom
  <2> QED BY <2>1, <2>2, <2>3, <2>4
<1>3. ASSUME NEW x, SDom(s, b, x) PROVE \E c \in kids : Dom(s, c, x)
  <2> DEFINE S == {e \in Block : SDom(s, b, e) /\ Dom(s, e, x)}
  <2>1. x \in S /\ S \in SUBSET (1..N) /\ x \in Avoiding(N, s, 0)
    BY <1>0, <1>3, DomIs DEF Ordered, SDom, Block
  <2>2. \E c \in S : \A e \in S : Dom(s, c, e)
    <3> DEFINE n == N
    <3>1. /\ n \in Nat \ {0} /\ s \in FlowGraphs(n) /\ x \in Avoiding(n, s, 0)
          /\ S \in SUBSET (1..n) /\ S # {} /\ \A d \in S : x \notin Avoiding(n, s, d)
      BY <1>0, <2>1, DomIs
    <3> HIDE DEF n, S
    <3>2. PICK c \in S : \A e \in S : e \notin Avoiding(n, s, c)
      BY <3>1, HighestDominator
    <3>3. \A e \in S : Dom(s, c, e)
      BY <2>1, <3>2, <1>0, DomIs DEF S, n, Ordered, SDom
    <3> QED BY <3>3
  <2>3. PICK c \in S : \A e \in S : Dom(s, c, e)
    BY <2>2
  <2> DEFINE i == ImmediateDominator(s, c)
  <2>4. c \in Reached(s) /\ c # Entry
    BY <1>0, <2>3 DEF Ordered, SDom
  <2>5. SDom(s, i, c) /\ Dom(s, b, i)
    BY <2>3, <2>4, IdomIs
  <2> HIDE DEF i
  <2>6. i \notin S
    <3> SUFFICES ASSUME i \in S PROVE FALSE
      OBVIOUS
    <3>1. Dom(s, c, i)
      BY <2>3
    <3> QED BY <1>0, <2>5, <3>1 DEF Ordered, SDom
  <2>7. i \in Block /\ Dom(s, i, x)
    BY <1>0, <2>3, <2>5 DEF Ordered, SDom
  <2>8. i = b
    BY <2>5, <2>6, <2>7 DEF SDom
  <2>9. c \in kids
    BY <1>1, <2>3, <2>8 DEF i
  <2> QED BY <2>3, <2>9
<1>4. ASSUME NEW c \in kids, NEW e \in kids, NEW x, Dom(s, c, x), Dom(s, e, x), c # e
      PROVE  FALSE
  <2>1. Dom(s, c, e) \/ Dom(s, e, c)
    BY <1>0, <1>4 DEF Ordered
  <2>2. SDom(s, c, e) \/ SDom(s, e, c)
    BY <1>4, <2>1 DEF SDom
  <2>3. Dom(s, c, b) \/ Dom(s, e, b)
    BY <1>2, <2>2
  <2>4. SDom(s, b, c) /\ SDom(s, b, e)
    BY <1>2
  <2> QED BY <1>0, <2>3, <2>4 DEF Ordered, SDom
<1> QED BY <1>2, <1>3, <1>4 DEF kids
=============================================================================
