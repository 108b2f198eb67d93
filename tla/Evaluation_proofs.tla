--------------------------- MODULE Evaluation_proofs ---------------------------
(***************************************************************************)
(* Theorems about Evaluation for every dataset, every set of scripts and   *)
(* programs, every plan and every repair limit.                            *)
(***************************************************************************)
EXTENDS Evaluation, FiniteSetTheorems, TLAPS

-----------------------------------------------------------------------------
(***************************************************************************)
(* Folds.  The sums of a report and the selection under a budget are folds *)
(* of the community modules, recursions over the subsets of a finite set.  *)
(***************************************************************************)

\* Induction over the subsets of a finite set, with the property given by the
\* set of its cases.
LEMMA SubsetInduction ==
  ASSUME NEW D, IsFiniteSet(D), NEW T,
         \A s \in SUBSET D : (\A t \in SUBSET s : t # s => t \in T) => s \in T
  PROVE  SUBSET D \subseteq T
  <1> SUFFICES ASSUME (SUBSET D) \ T # {} PROVE FALSE
    OBVIOUS
  <1> DEFINE U == (SUBSET D) \ T
  <1>1. U \subseteq FiniteSubsetsOf(D)
    BY FS_Subset DEF FiniteSubsetsOf
  <1>2. PICK s \in U : \A t \in U : <<t, s>> \notin StrictSubsetOrdering(D)
    <2> HIDE DEF U
    <2>1. IsWellFoundedOn(StrictSubsetOrdering(D), FiniteSubsetsOf(D))
      BY FS_StrictSubsetOrderingWellFounded
    <2>2. U # {}
      BY DEF U
    <2>3. QED BY <1>1, <2>1, <2>2, WFMin
  <1>3. ASSUME NEW t \in SUBSET s, t # s PROVE t \in T
    BY <1>2, <1>3 DEF StrictSubsetOrdering
  <1>4. QED BY <1>2, <1>3

\* Induction from 0 to n.
LEMMA InductionTo ==
  ASSUME NEW n \in Nat, NEW T, 0 \in T, \A k \in 1..n : k - 1 \in T => k \in T
  PROVE  0..n \subseteq T
  <1> DEFINE D == 0..n
             G == {s \in SUBSET D : \A k \in D : s = 0..k => k \in T}
  <1>1. IsFiniteSet(D)
    BY FS_Interval
  <1>2. ASSUME NEW s \in SUBSET D, \A t \in SUBSET s : t # s => t \in G
        PROVE  s \in G
    <2> SUFFICES ASSUME NEW k \in D, s = 0..k, k # 0 PROVE k \in T
      OBVIOUS
    <2>1. k \in 1..n /\ k - 1 \in D /\ 0..(k - 1) \in SUBSET s /\ 0..(k - 1) # s
      OBVIOUS
    <2>2. 0..(k - 1) \in G
      BY <1>2, <2>1
    <2>3. QED BY <2>1, <2>2
  <1>3. SUBSET D \subseteq G
    <2> HIDE DEF D, G
    <2>1. QED BY <1>1, <1>2, SubsetInduction
  <1>4. ASSUME NEW k \in D PROVE k \in T
    <2>1. 0..k \in SUBSET D
      OBVIOUS
    <2>2. 0..k \in G
      BY <1>3, <2>1
    <2>3. QED BY <2>2
  <1>5. QED BY <1>4

\* it is defined on the subsets of d by recursion: an element is taken out, and
\* step says what it adds to the value of the rest.
RecursOn(it, d, start, pick, step) ==
  \A s \in SUBSET d :
    it[s] = IF s = {} THEN start ELSE step[pick[s]][it[s \ {pick[s]}]]

Picks(pick, D) == \A s \in SUBSET D : s # {} => pick[s] \in s

\* The recursion determines every value.
LEMMA RecursionUnique ==
  ASSUME NEW D, IsFiniteSet(D), NEW pick, Picks(pick, D), NEW start, NEW step,
         NEW a \in SUBSET D, NEW b \in SUBSET D,
         NEW f, RecursOn(f, a, start, pick, step), NEW g, RecursOn(g, b, start, pick, step)
  PROVE  \A s \in SUBSET (a \cap b) : f[s] = g[s]
  <1> DEFINE d == a \cap b
             T == {s \in SUBSET d : f[s] = g[s]}
  <1>1. IsFiniteSet(d)
    BY FS_Subset
  <1>2. ASSUME NEW s \in SUBSET d, \A t \in SUBSET s : t # s => t \in T
        PROVE  s \in T
    <2>1. CASE s = {}
      BY <2>1 DEF RecursOn
    <2>2. CASE s # {}
      <3> DEFINE x == pick[s]  t == s \ {x}
      <3>1. x \in s
        BY <2>2 DEF Picks
      <3>2. t \in SUBSET s /\ t # s
        BY <3>1
      <3>3. f[s] = step[x][f[t]] /\ g[s] = step[x][g[t]]
        BY <2>2 DEF RecursOn
      <3> HIDE DEF x, t
      <3>4. f[t] = g[t]
        BY <1>2, <3>2
      <3>5. QED BY <3>3, <3>4
    <2>3. QED BY <2>1, <2>2
  <1> HIDE DEF T, d
  <1>3. SUBSET d \subseteq T
    BY <1>1, <1>2, SubsetInduction
  <1>4. QED BY <1>3 DEF T, d

\* And there is such a function.
LEMMA RecursionExists ==
  ASSUME NEW D, IsFiniteSet(D), NEW pick, Picks(pick, D), NEW V, NEW start \in V,
         NEW step \in [D -> [V -> V]]
  PROVE  \E it \in [SUBSET D -> V] : RecursOn(it, D, start, pick, step)
  <1> DEFINE Goes(it, d) == it \in [SUBSET d -> V] /\ RecursOn(it, d, start, pick, step)
             T == {d \in SUBSET D : \E it : Goes(it, d)}
  <1>0. ASSUME NEW a \in SUBSET D, NEW b \in SUBSET a,
               NEW f, RecursOn(f, a, start, pick, step),
               NEW h, RecursOn(h, b, start, pick, step)
        PROVE  f[b] = h[b]
    <2>1. b \in SUBSET D /\ b \in SUBSET (a \cap b)
      OBVIOUS
    <2>2. QED BY <1>0, <2>1, RecursionUnique
  <1>1. ASSUME NEW d \in SUBSET D, \A t \in SUBSET d : t # d => t \in T
        PROVE  d \in T
    <2> DEFINE F(t) == CHOOSE it : Goes(it, t)
               p(t) == pick[t]
               rest(t) == t \ {p(t)}
               g == [t \in SUBSET d |->
                       IF t # d THEN F(t)[t]
                       ELSE IF d = {} THEN start ELSE step[p(d)][F(rest(d))[rest(d)]]]
    <2>1. ASSUME NEW t \in SUBSET d, t # d
          PROVE  F(t) \in [SUBSET t -> V] /\ RecursOn(F(t), t, start, pick, step)
      <3> HIDE DEF Goes
      <3>1. \E it : Goes(it, t)
        BY <1>1, <2>1
      <3>2. Goes(F(t), t)
        BY <3>1
      <3>3. QED BY <3>2 DEF Goes
    <2>2. ASSUME NEW t \in SUBSET d, t # {}
          PROVE  /\ p(t) \in t /\ p(t) \in D /\ rest(t) \in SUBSET t /\ rest(t) # t
                 /\ rest(t) # d /\ rest(t) \in SUBSET d
      BY <2>2 DEF Picks
    <2> HIDE DEF F, Goes
    <2>3. g \in [SUBSET d -> V]
      <3>1. ASSUME NEW t \in SUBSET d PROVE g[t] \in V
        <4>1. CASE t # d
          BY <2>1, <4>1
        <4>2. CASE t = d /\ d = {}
          BY <4>2
        <4>3. CASE t = d /\ d # {}
          <5>0. p(d) \in D /\ rest(d) \in SUBSET d /\ rest(d) # d
            BY <2>2, <4>3
          <5> HIDE DEF p, rest
          <5>1. F(rest(d))[rest(d)] \in V
            <6> DEFINE u == rest(d)
            <6>1. u \in SUBSET d /\ u # d
              BY <5>0
            <6> HIDE DEF u
            <6>2. F(u) \in [SUBSET u -> V]
              BY <2>1, <6>1
            <6>3. F(u)[u] \in V
              BY <6>2
            <6>4. QED BY <6>3 DEF u
          <5>2. step[p(d)] \in [V -> V]
            BY <5>0
          <5>3. g[d] = step[p(d)][F(rest(d))[rest(d)]]
            BY <4>3
          <5>4. QED BY <4>3, <5>1, <5>2, <5>3
        <4>4. QED BY <4>1, <4>2, <4>3
      <3> HIDE DEF g
      <3>2. DOMAIN g = SUBSET d /\ g = [t \in SUBSET d |-> g[t]]
        BY DEF g
      <3>3. QED BY <3>1, <3>2
    <2>4. ASSUME NEW t \in SUBSET d
          PROVE  g[t] = IF t = {} THEN start ELSE step[p(t)][g[rest(t)]]
      <3>1. CASE t = {}
        <4>1. CASE t # d
          <5>1. F(t)[t] = start
            BY <2>1, <3>1, <4>1 DEF RecursOn
          <5>2. QED BY <3>1, <4>1, <5>1
        <4>2. CASE t = d
          BY <3>1, <4>2
        <4>3. QED BY <4>1, <4>2
      <3>2. CASE t # {}
        <4> DEFINE r == rest(t)
        <4>0. r \in SUBSET d /\ r # d /\ r \in SUBSET t
          BY <2>2, <3>2
        <4>1. g[r] = F(r)[r]
          BY <4>0
        <4>2. CASE t # d
          <5>1. F(t)[t] = step[p(t)][F(t)[r]]
            BY <2>1, <3>2, <4>2 DEF RecursOn
          <5>2. F(t)[r] = F(r)[r]
            <6>1. /\ RecursOn(F(t), t, start, pick, step) /\ RecursOn(F(r), r, start, pick, step)
                  /\ t \in SUBSET D
              BY <2>1, <4>0, <4>2
            <6> HIDE DEF r
            <6>2. QED BY <1>0, <4>0, <6>1
          <5>3. g[t] = F(t)[t]
            BY <4>2
          <5> HIDE DEF g, r
          <5>4. QED BY <3>2, <4>1, <5>1, <5>2, <5>3 DEF r
        <4>3. CASE t = d
          <5>1. g[t] = step[p(t)][F(r)[r]]
            BY <3>2, <4>3
          <5> HIDE DEF g, r
          <5>2. QED BY <3>2, <4>1, <5>1 DEF r
        <4>4. QED BY <4>2, <4>3
      <3>3. QED BY <3>1, <3>2
    <2>5. Goes(g, d)
      <3> HIDE DEF g
      <3>1. QED BY <2>3, <2>4 DEF Goes, RecursOn
    <2>6. QED BY <2>5
  <1> HIDE DEF T
  <1>2. SUBSET D \subseteq T
    BY <1>1, SubsetInduction
  <1>3. QED BY <1>2 DEF T

-----------------------------------------------------------------------------
(***************************************************************************)
(* Sums, as FoldFunction computes them over the domain of a function.      *)
(***************************************************************************)
SumOf(f) == FoldFunction(+, 0, f)

\* it sums f over the subsets of its domain, an element at a time.
Sums(it, f) ==
  /\ it \in [SUBSET DOMAIN f -> Nat]
  /\ it[{}] = 0
  /\ \A s \in SUBSET DOMAIN f : s # {} =>
       it[s] = f[CHOOSE x \in s : TRUE] + it[s \ {CHOOSE x \in s : TRUE}]

LEMMA FoldSums ==
  ASSUME NEW D, IsFiniteSet(D), NEW f \in [D -> Nat]
  PROVE  \E it : Sums(it, f) /\ SumOf(f) = it[D]
  <1> DEFINE pick == [s \in SUBSET D |-> CHOOSE x \in s : TRUE]
             step == [x \in D |-> [v \in Nat |-> f[x] + v]]
             Defines(it) == it = [s \in SUBSET (DOMAIN f) |->
                              IF s = {} THEN 0
                              ELSE LET x == CHOOSE x \in s : TRUE IN f[x] + it[s \ {x}]]
             it == CHOOSE it : Defines(it)
  <1>1. Picks(pick, D)
    BY DEF Picks
  <1>2. step \in [D -> [Nat -> Nat]]
    OBVIOUS
  <1>3. PICK g \in [SUBSET D -> Nat] : RecursOn(g, D, 0, pick, step)
    <2> HIDE DEF pick, step
    <2>1. QED BY <1>1, <1>2, RecursionExists
  <1>4. ASSUME NEW s \in SUBSET D, s # {}
        PROVE  /\ (CHOOSE x \in s : TRUE) \in s
               /\ g[s] = f[CHOOSE x \in s : TRUE] + g[s \ {CHOOSE x \in s : TRUE}]
    <2> DEFINE x == CHOOSE x \in s : TRUE  r == s \ {x}
    <2>1. x \in s /\ x \in D /\ pick[s] = x /\ r \in SUBSET D
      BY <1>4
    <2> HIDE DEF pick, x, r
    <2>2. g[s] = step[x][g[r]]
      BY <1>3, <1>4, <2>1 DEF RecursOn, r
    <2>3. g[r] \in Nat
      BY <2>1
    <2>4. g[s] = f[x] + g[r]
      BY <2>1, <2>2, <2>3
    <2>5. QED BY <2>1, <2>4 DEF x, r
  <1>5. g[{}] = 0
    BY <1>3 DEF RecursOn
  <1>6. Defines(g)
    <2> HIDE DEF pick, step
    <2>1. \A s \in SUBSET D : g[s] = IF s = {} THEN 0
                              ELSE LET x == CHOOSE x \in s : TRUE IN f[x] + g[s \ {x}]
      BY <1>4, <1>5
    <2>2. QED BY <2>1
  <1>7. Defines(it)
    <2> HIDE DEF Defines
    <2>1. QED BY <1>6, Zenon
  <1>8. SumOf(f) = it[D]
    <2>1. DOMAIN f = D
      OBVIOUS
    <2>2. SumOf(f) = it[DOMAIN f]
      BY Zenon DEF SumOf, FoldFunction, FoldFunctionOnSet, MapThenFoldSet
    <2> HIDE DEF it
    <2>3. QED BY <2>1, <2>2
  <1> HIDE DEF it
  <1>9. /\ DOMAIN it = SUBSET D /\ it[{}] = 0
        /\ \A s \in SUBSET D : s # {} =>
             it[s] = f[CHOOSE x \in s : TRUE] + it[s \ {CHOOSE x \in s : TRUE}]
    BY <1>7
  <1> DEFINE T == {s \in SUBSET D : it[s] \in Nat}
  <1>10. ASSUME NEW s \in SUBSET D, \A t \in SUBSET s : t # s => t \in T
         PROVE  s \in T
    <2>1. CASE s = {}
      BY <1>9, <2>1
    <2>2. CASE s # {}
      <3> DEFINE x == CHOOSE x \in s : TRUE  r == s \ {x}
      <3>1. x \in s /\ it[s] = f[x] + it[r]
        BY <1>4, <1>9, <2>2
      <3>2. r \in SUBSET s /\ r # s /\ f[x] \in Nat
        BY <3>1
      <3>3. it[r] \in Nat
        BY <1>10, <3>2
      <3>4. QED BY <3>1, <3>2, <3>3
    <2>3. QED BY <2>1, <2>2
  <1>11. SUBSET D \subseteq T
    <2> HIDE DEF T, Defines
    <2>1. QED BY <1>10, SubsetInduction
  <1>12. it \in [SUBSET D -> Nat]
    BY <1>7, <1>11
  <1>13. Sums(it, f)
    BY <1>9, <1>12 DEF Sums
  <1>14. QED BY <1>8, <1>13

\* Which element is taken first does not matter.
LEMMA SumInserts ==
  ASSUME NEW D, IsFiniteSet(D), NEW f \in [D -> Nat], NEW it, Sums(it, f),
         NEW r \in SUBSET D, NEW z \in D \ r
  PROVE  it[r \cup {z}] = it[r] + f[z]
  <1> DEFINE T == {s \in SUBSET D : \A x \in D \ s : it[s \cup {x}] = it[s] + f[x]}
  <1>0. /\ DOMAIN f = D /\ it \in [SUBSET D -> Nat]
        /\ \A s \in SUBSET D : s # {} =>
             it[s] = f[CHOOSE x \in s : TRUE] + it[s \ {CHOOSE x \in s : TRUE}]
    BY DEF Sums
  <1>1. ASSUME NEW s \in SUBSET D, \A t \in SUBSET s : t # s => t \in T
        PROVE  s \in T
    <2>1. ASSUME NEW x \in D \ s PROVE it[s \cup {x}] = it[s] + f[x]
      <3> DEFINE u == s \cup {x}  y == CHOOSE y \in u : TRUE  t == s \ {y}
      <3>1. y \in u /\ u \in SUBSET D /\ it[u] = f[y] + it[u \ {y}]
        <4>1. u \in SUBSET D /\ u # {}
          BY <2>1
        <4> HIDE DEF u
        <4>2. QED BY <1>0, <4>1
      <3>2. it[s] \in Nat /\ f[x] \in Nat
        BY <1>0, <2>1
      <3> HIDE DEF y
      <3>3. CASE y = x
        <4>1. u \ {y} = s
          BY <2>1, <3>3
        <4> HIDE DEF u
        <4>2. it[u] = f[x] + it[s]
          BY <3>1, <3>3, <4>1
        <4>3. QED BY <3>2, <4>2 DEF u
      <3>4. CASE y # x
        <4>1. /\ y \in s /\ t \in SUBSET s /\ t # s /\ y \in D \ t /\ x \in D \ t
              /\ u \ {y} = t \cup {x} /\ t \cup {y} = s /\ t \in SUBSET D
          BY <2>1, <3>1, <3>4
        <4> HIDE DEF t, u
        <4>2. it[t \cup {x}] = it[t] + f[x] /\ it[t \cup {y}] = it[t] + f[y]
          BY <1>1, <4>1
        <4>3. it[t] \in Nat /\ f[y] \in Nat
          BY <1>0, <4>1
        <4>4. it[u] = f[y] + (it[t] + f[x]) /\ it[s] = it[t] + f[y]
          BY <3>1, <4>1, <4>2
        <4>5. QED BY <3>2, <4>3, <4>4 DEF u
      <3>5. QED BY <3>3, <3>4
    <2>2. QED BY <2>1
  <1> HIDE DEF T
  <1>2. SUBSET D \subseteq T
    BY <1>1, SubsetInduction
  <1>3. QED BY <1>2 DEF T

LEMMA SumsAgree ==
  ASSUME NEW D, IsFiniteSet(D), NEW f, NEW g, NEW it, Sums(it, f), NEW jt, Sums(jt, g),
         D \subseteq DOMAIN f, D \subseteq DOMAIN g, \A x \in D : f[x] = g[x]
  PROVE  it[D] = jt[D]
  <1> DEFINE T == {s \in SUBSET D : it[s] = jt[s]}
  <1>1. ASSUME NEW s \in SUBSET D, \A t \in SUBSET s : t # s => t \in T
        PROVE  s \in T
    <2>1. CASE s = {}
      BY <2>1 DEF Sums
    <2>2. CASE s # {}
      <3> DEFINE x == CHOOSE x \in s : TRUE  r == s \ {x}
      <3>1. x \in s
        BY <2>2
      <3>2. it[s] = f[x] + it[r] /\ jt[s] = g[x] + jt[r]
        BY <2>2 DEF Sums
      <3> HIDE DEF x
      <3>3. r \in SUBSET s /\ r # s /\ f[x] = g[x]
        BY <3>1
      <3> HIDE DEF r
      <3>4. it[r] = jt[r]
        BY <1>1, <3>3
      <3>5. QED BY <3>2, <3>3, <3>4
    <2>3. QED BY <2>1, <2>2
  <1> HIDE DEF T
  <1>2. SUBSET D \subseteq T
    BY <1>1, SubsetInduction
  <1>3. QED BY <1>2 DEF T

\* One more element adds its value to the sum.
LEMMA SumInserted ==
  ASSUME NEW E, IsFiniteSet(E), NEW D \in SUBSET E, NEW e \in E \ D, E = D \cup {e},
         NEW f \in [D -> Nat], NEW g \in [E -> Nat], \A x \in D : g[x] = f[x]
  PROVE  SumOf(g) = SumOf(f) + g[e]
  <1>1. IsFiniteSet(D)
    BY FS_Subset
  <1>2. PICK it : Sums(it, f) /\ SumOf(f) = it[D]
    BY <1>1, FoldSums
  <1>3. PICK jt : Sums(jt, g) /\ SumOf(g) = jt[E]
    BY FoldSums
  <1>4. it[D] = jt[D]
    <2>1. DOMAIN f = D /\ DOMAIN g = E
      OBVIOUS
    <2>2. D \subseteq DOMAIN f /\ D \subseteq DOMAIN g /\ \A x \in D : f[x] = g[x]
      BY <2>1
    <2>3. QED BY <1>1, <1>2, <1>3, <2>2, SumsAgree
  <1>5. jt[D \cup {e}] = jt[D] + g[e]
    BY <1>3, SumInserts, Z3T(60)
  <1>6. QED BY <1>2, <1>3, <1>4, <1>5

\* One more element at the end of a list, likewise.
LEMMA SumAppended ==
  ASSUME NEW n \in Nat, NEW f \in [1..n -> Nat], NEW g \in [1..(n + 1) -> Nat],
         \A k \in 1..n : g[k] = f[k]
  PROVE  SumOf(g) = SumOf(f) + g[n + 1]
  <1>1. IsFiniteSet(1..(n + 1))
    BY FS_Interval
  <1>2. /\ 1..n \in SUBSET (1..(n + 1)) /\ n + 1 \in (1..(n + 1)) \ (1..n)
        /\ 1..(n + 1) = (1..n) \cup {n + 1}
    OBVIOUS
  <1>3. QED BY <1>1, <1>2, SumInserted

LEMMA SumOfNothing ==
  ASSUME NEW f, DOMAIN f = {}
  PROVE  SumOf(f) = 0
  <1>1. f \in [{} -> Nat] /\ IsFiniteSet({})
    BY FS_EmptySet
  <1>2. PICK it : Sums(it, f) /\ SumOf(f) = it[{}]
    BY <1>1, FoldSums
  <1>3. QED BY <1>2 DEF Sums

-----------------------------------------------------------------------------
(***************************************************************************)
(* Places.  In a finite set in which any two elements are ordered, each    *)
(* number up to its size is the place of an element.                       *)
(***************************************************************************)
Orders(R, S) ==
  /\ \A x \in S : <<x, x>> \in R
  /\ \A x, y \in S : x # y => \/ <<x, y>> \in R /\ <<y, x>> \notin R
                              \/ <<y, x>> \in R /\ <<x, y>> \notin R
  /\ \A x, y, z \in S : <<x, y>> \in R /\ <<y, z>> \in R => <<x, z>> \in R

UpTo(R, S, k) == {j \in S : <<j, k>> \in R}

LEMMA PlaceInOrder ==
  ASSUME NEW S, NEW R, IsFiniteSet(S), Orders(R, S)
  PROVE  \A n \in 1..Cardinality(S) : \E k \in S : Cardinality(UpTo(R, S, k)) = n
  <1> SUFFICES ASSUME NEW n \in 1..Cardinality(S), \A k \in S : Cardinality(UpTo(R, S, k)) # n
               PROVE  FALSE
    OBVIOUS
  <1> DEFINE upTo(k) == UpTo(R, S, k)
             place == [k \in S |-> Cardinality(upTo(k))]
             N == Cardinality(S)
             T == (1..N) \ {n}
  <1>1. N \in Nat
    BY FS_CardinalityType
  <1>2. ASSUME NEW k \in S
        PROVE  IsFiniteSet(upTo(k)) /\ Cardinality(upTo(k)) \in 1..N
    <2>1. upTo(k) \in SUBSET S /\ k \in upTo(k)
      BY DEF Orders, UpTo
    <2> HIDE DEF upTo
    <2>2. IsFiniteSet(upTo(k)) /\ Cardinality(upTo(k)) <= N
      BY <2>1, FS_Subset
    <2>3. Cardinality(upTo(k)) \in Nat /\ Cardinality(upTo(k)) # 0
      BY <2>1, <2>2, FS_CardinalityType, FS_EmptySet
    <2>4. QED BY <1>1, <2>2, <2>3
  <1>3. place \in [S -> T]
    BY <1>2
  <1>4. IsFiniteSet(T) /\ Cardinality(T) < N
    <2>1. IsFiniteSet(1..N) /\ Cardinality(1..N) = N
      BY <1>1, FS_Interval
    <2>2. IsFiniteSet(T) /\ Cardinality(T) = Cardinality(1..N) - 1
      BY <2>1, FS_RemoveElement
    <2> HIDE DEF T, N
    <2>3. QED BY <1>1, <2>1, <2>2
  <1>5. PICK x \in S, y \in S : x # y /\ place[x] = place[y]
    <2> HIDE DEF place, T, N
    <2>1. N = Cardinality(S)
      BY DEF N
    <2>2. QED BY <1>3, <1>4, <2>1, FS_PigeonHole
  <1>6. ASSUME NEW a \in S, NEW b \in S, <<a, b>> \in R, <<b, a>> \notin R,
               Cardinality(upTo(a)) = Cardinality(upTo(b))
        PROVE  FALSE
    <2>1. upTo(a) \in SUBSET upTo(b) /\ b \in upTo(b) /\ b \notin upTo(a)
      BY <1>6 DEF Orders, UpTo
    <2> HIDE DEF upTo
    <2>2. upTo(a) = upTo(b)
      BY <1>2, <1>6, <2>1, FS_Subset
    <2>3. QED BY <2>1, <2>2
  <1>7. \/ <<x, y>> \in R /\ <<y, x>> \notin R
        \/ <<y, x>> \in R /\ <<x, y>> \notin R
    BY <1>5 DEF Orders
  <1>8. Cardinality(upTo(x)) = Cardinality(upTo(y))
    BY <1>5
  <1> HIDE DEF upTo
  <1>9. QED BY <1>6, <1>7, <1>8

\* By number.
LEMMA PlaceTaken ==
  ASSUME NEW m \in Nat, NEW kept \in SUBSET (1..m), NEW n \in 1..Cardinality(kept)
  PROVE  \E k \in kept : Cardinality({j \in kept : j <= k}) = n
  <1>1. IsFiniteSet(kept)
    <2>1. IsFiniteSet(1..m)
      BY FS_Interval
    <2>2. QED BY <2>1, FS_Subset
  <1>2. PICK Q : \A x, y \in kept : <<x, y>> \in Q <=> x <= y
    <2> DEFINE W == {r \in kept \X kept : r[1] <= r[2]}
    <2>1. \A x, y \in kept : <<x, y>> \in W <=> x <= y
      OBVIOUS
    <2>2. QED BY <2>1
  <1>3. PICK K : K = kept
    OBVIOUS
  <1>4. IsFiniteSet(K) /\ Orders(Q, K)
    BY <1>1, <1>2, <1>3 DEF Orders
  <1>5. \A i \in 1..Cardinality(K) : \E k \in K : Cardinality(UpTo(Q, K, k)) = i
    BY <1>4, PlaceInOrder
  <1>6. \A k \in kept : UpTo(Q, kept, k) = {j \in kept : j <= k}
    BY <1>2 DEF UpTo
  <1>7. QED BY <1>3, <1>5, <1>6

LEMMA LeastOf ==
  ASSUME NEW m \in Nat, NEW S \in SUBSET (1..m), S # {}
  PROVE  /\ (CHOOSE k \in S : \A j \in S : k <= j) \in S
         /\ (CHOOSE k \in S : \A j \in S : k >= j) \in S
  <1>1. IsFiniteSet(S)
    <2>1. IsFiniteSet(1..m)
      BY FS_Interval
    <2>2. QED BY <2>1, FS_Subset
  <1>2. 1 \in 1..Cardinality(S) /\ Cardinality(S) \in 1..Cardinality(S)
    BY <1>1, FS_CardinalityType, FS_EmptySet
  <1> DEFINE upTo(k) == {j \in S : j <= k}
  <1>3. \A n \in 1..Cardinality(S) : \E k \in S : Cardinality(upTo(k)) = n
    BY PlaceTaken
  <1>4. \A k \in S : upTo(k) \in SUBSET S /\ k \in upTo(k)
    OBVIOUS
  <1>5. \A k \in S : IsFiniteSet(upTo(k))
    BY <1>1, <1>4, FS_Subset
  <1>6. \E k \in S : \A j \in S : k <= j
    <2>1. PICK k \in S : Cardinality(upTo(k)) = 1
      BY <1>2, <1>3
    <2> HIDE DEF upTo
    <2>2. \E x : upTo(k) = {x}
      BY <1>5, <2>1, FS_Singleton
    <2>3. upTo(k) = {k}
      BY <1>4, <2>2
    <2>4. \A j \in S : k <= j
      BY <2>3 DEF upTo
    <2>5. QED BY <2>4
  <1>7. \E k \in S : \A j \in S : k >= j
    <2>1. PICK k \in S : Cardinality(upTo(k)) = Cardinality(S)
      BY <1>2, <1>3
    <2> HIDE DEF upTo
    <2>2. upTo(k) = S
      BY <1>1, <1>4, <2>1, FS_Subset
    <2>3. \A j \in S : k >= j
      BY <2>2 DEF upTo
    <2>4. QED BY <2>3
  <1>8. QED BY <1>6, <1>7

-----------------------------------------------------------------------------
(***************************************************************************)
(* Retrieval.  Examples are taken one at a time, in the order of their     *)
(* ranks; TakenWell says what holds of those taken up to now.              *)
(***************************************************************************)
SelectionOf(E) ==
  [diagnostic : {"none"}, selected : Seq(E), suppressed : SUBSET E, rejected : SUBSET E,
   used : Nat]

Costs(corpus, unit, picked) ==
  [k \in DOMAIN picked |-> Cost(corpus[picked[k]], unit)]

\* What was selected fits and repeats nothing; what was rejected does not fit.
Fits(corpus, settings, r) ==
  /\ r \in SelectionOf(DOMAIN corpus)
  /\ Len(r.selected) <= settings.topK
  /\ r.used <= settings.budget
  /\ r.used = SumOf(Costs(corpus, settings.unit, r.selected))
  /\ \A j, k \in DOMAIN r.selected :
       j < k => ~NearDuplicate(corpus[r.selected[j]], corpus[r.selected[k]])
  /\ \A e \in r.rejected :
       e \notin Range(r.selected) /\ Cost(corpus[e], settings.unit) > settings.budget - r.used

\* Nothing is left out without a reason.
Accounted(settings, e, r) ==
  \/ e \in Range(r.selected) \cup r.suppressed \cup r.rejected
  \/ Len(r.selected) = settings.topK

\* What holds when the examples at the places s of the ranking were looked at.
TakenWell(corpus, settings, ranked, s, r) ==
  Fits(corpus, settings, r) /\ \A x \in s : Accounted(settings, ranked[x], r)

LEMMA TakeKeeps ==
  ASSUME NEW corpus, NEW settings, NEW r \in SelectionOf(DOMAIN corpus),
         NEW e \in DOMAIN corpus, Cost(corpus[e], settings.unit) \in Nat
  PROVE  TakeExample(corpus, settings, r, e) \in SelectionOf(DOMAIN corpus)
  <1> DEFINE E == DOMAIN corpus  c == Cost(corpus[e], settings.unit)
  <1>1. /\ r.selected \in Seq(E) /\ Append(r.selected, e) \in Seq(E)
        /\ r.suppressed \cup {e} \in SUBSET E /\ r.rejected \cup {e} \in SUBSET E
        /\ r.used + c \in Nat
    BY DEF SelectionOf
  <1>2. \/ TakeExample(corpus, settings, r, e) = r
        \/ TakeExample(corpus, settings, r, e) = [r EXCEPT !.suppressed = @ \cup {e}]
        \/ TakeExample(corpus, settings, r, e) = [r EXCEPT !.rejected = @ \cup {e}]
        \/ TakeExample(corpus, settings, r, e) =
             [r EXCEPT !.selected = Append(@, e), !.used = @ + c]
    BY DEF TakeExample
  <1> HIDE DEF E, c
  <1>3. QED BY <1>1, <1>2 DEF SelectionOf, E

LEMMA NothingTaken ==
  ASSUME NEW corpus, NEW settings, NEW ranked, settings.topK \in Nat, settings.budget \in Nat
  PROVE  TakenWell(corpus, settings, ranked, {}, NothingRetrieved("none"))
  <1> DEFINE r == NothingRetrieved("none")
  <1>1. /\ r \in SelectionOf(DOMAIN corpus) /\ r.selected = <<>> /\ r.used = 0
        /\ r.rejected = {}
    BY DEF NothingRetrieved, SelectionOf
  <1>2. DOMAIN r.selected = {} /\ Len(r.selected) = 0
    BY <1>1
  <1>3. SumOf(Costs(corpus, settings.unit, r.selected)) = 0
    BY <1>2, SumOfNothing DEF Costs
  <1> HIDE DEF r
  <1>4. QED BY <1>1, <1>2, <1>3 DEF TakenWell, Fits, r

\* One more example.
LEMMA TakeWell ==
  ASSUME NEW corpus, NEW settings, NEW ranked, NEW s, NEW x, NEW r,
         TakenWell(corpus, settings, ranked, s, r),
         \A e \in DOMAIN corpus : Cost(corpus[e], settings.unit) \in Nat,
         settings.topK \in Nat, settings.budget \in Nat, ranked[x] \in DOMAIN corpus
  PROVE  TakenWell(corpus, settings, ranked, s \cup {x},
                   TakeExample(corpus, settings, r, ranked[x]))
  <1> DEFINE e == ranked[x]
             E == DOMAIN corpus
             c == Cost(corpus[e], settings.unit)
             n == Len(r.selected)
             q == TakeExample(corpus, settings, r, e)
             repeats == \E k \in Range(r.selected) : NearDuplicate(corpus[k], corpus[e])
  <1>0. SUFFICES TakenWell(corpus, settings, ranked, s \cup {x}, q)
    OBVIOUS
  <1>1. /\ r \in SelectionOf(E) /\ r.selected \in Seq(E) /\ n \in Nat /\ r.used \in Nat
        /\ n <= settings.topK /\ DOMAIN r.selected = 1..n
    BY DEF TakenWell, Fits, SelectionOf
  <1>2. q \in SelectionOf(E) /\ e \in E /\ c \in Nat
    BY <1>1, TakeKeeps
  <1>3. CASE n >= settings.topK
    <2>1. q = r /\ n = settings.topK
      BY <1>1, <1>3 DEF TakeExample
    <2> HIDE DEF q, n
    <2>2. Accounted(settings, e, q)
      BY <2>1 DEF Accounted, n
    <2>3. QED BY <2>1, <2>2 DEF TakenWell
  <1>4. CASE ~(n >= settings.topK) /\ repeats
    <2>1. q = [r EXCEPT !.suppressed = @ \cup {e}]
      BY <1>4 DEF TakeExample
    <2>2. /\ q.selected = r.selected /\ q.rejected = r.rejected /\ q.used = r.used
          /\ q.suppressed = r.suppressed \cup {e}
      BY <1>1, <2>1 DEF SelectionOf
    <2> HIDE DEF q, n, c, repeats
    <2>3. Fits(corpus, settings, q)
      BY <1>2, <2>2 DEF TakenWell, Fits
    <2>4. \A y \in s : Accounted(settings, ranked[y], q)
      BY <2>2 DEF TakenWell, Accounted
    <2>5. Accounted(settings, e, q)
      BY <2>2 DEF Accounted
    <2>6. QED BY <2>3, <2>4, <2>5 DEF TakenWell
  <1>5. CASE ~(n >= settings.topK) /\ ~repeats /\ c > settings.budget - r.used
    <2>1. q = [r EXCEPT !.rejected = @ \cup {e}]
      BY <1>5 DEF TakeExample
    <2>2. /\ q.selected = r.selected /\ q.suppressed = r.suppressed /\ q.used = r.used
          /\ q.rejected = r.rejected \cup {e}
      BY <1>1, <2>1 DEF SelectionOf
    <2>3. e \notin Range(r.selected)
      BY <1>5 DEF NearDuplicate
    <2>4. c > settings.budget - q.used
      BY <1>5, <2>2
    <2> HIDE DEF q, n, repeats
    <2>5. Fits(corpus, settings, q)
      BY <1>2, <2>2, <2>3, <2>4 DEF TakenWell, Fits
    <2>6. \A y \in s : Accounted(settings, ranked[y], q)
      BY <2>2 DEF TakenWell, Accounted
    <2>7. Accounted(settings, e, q)
      BY <2>2 DEF Accounted
    <2>8. QED BY <2>5, <2>6, <2>7 DEF TakenWell
  <1>6. CASE ~(n >= settings.topK) /\ ~repeats /\ ~(c > settings.budget - r.used)
    <2>1. q = [r EXCEPT !.selected = Append(@, e), !.used = @ + c]
      BY <1>6 DEF TakeExample
    <2>2. /\ q.selected = Append(r.selected, e) /\ q.used = r.used + c
          /\ q.suppressed = r.suppressed /\ q.rejected = r.rejected
      BY <1>1, <2>1 DEF SelectionOf
    <2> HIDE DEF q
    <2>3. /\ Len(q.selected) = n + 1 /\ DOMAIN q.selected = 1..(n + 1)
          /\ \A k \in 1..n : q.selected[k] = r.selected[k]
          /\ q.selected[n + 1] = e
      BY <1>1, <1>2, <2>2
    <2>4. Len(q.selected) <= settings.topK
      BY <1>1, <1>6, <2>3
    <2>5. q.used <= settings.budget /\ c <= settings.budget - r.used
      BY <1>1, <1>2, <1>6, <2>2
    <2>6. q.used = SumOf(Costs(corpus, settings.unit, q.selected))
      <3> DEFINE f == Costs(corpus, settings.unit, r.selected)
                 g == Costs(corpus, settings.unit, q.selected)
      <3>1. f \in [1..n -> Nat]
        BY <1>1 DEF Costs
      <3>2. q.selected \in Seq(E)
        BY <1>2 DEF SelectionOf
      <3>3. g \in [1..(n + 1) -> Nat]
        BY <2>3, <3>2 DEF Costs
      <3>4. (\A k \in 1..n : g[k] = f[k]) /\ g[n + 1] = c
        BY <1>1, <2>3 DEF Costs
      <3> HIDE DEF f, g, c
      <3>5. SumOf(g) = SumOf(f) + g[n + 1]
        BY <1>1, <3>1, <3>3, <3>4, SumAppended
      <3>6. r.used = SumOf(f)
        BY DEF TakenWell, Fits, f
      <3>7. QED BY <2>2, <3>4, <3>5, <3>6 DEF g
    <2>7. ASSUME NEW j \in 1..(n + 1), NEW k \in 1..(n + 1), j < k
          PROVE  ~NearDuplicate(corpus[q.selected[j]], corpus[q.selected[k]])
      <3>1. j \in 1..n /\ q.selected[j] = r.selected[j]
        BY <1>1, <2>3, <2>7
      <3>2. CASE k = n + 1
        <4>1. q.selected[k] = e /\ r.selected[j] \in Range(r.selected)
          BY <1>1, <2>3, <3>1, <3>2 DEF Range
        <4>2. QED BY <1>6, <3>1, <4>1
      <3>3. CASE k # n + 1
        <4>0. n \in Nat /\ \A i \in 1..n : q.selected[i] = r.selected[i]
          BY <1>1, <2>3
        <4>1. k \in 1..n
          <5> HIDE DEF n
          <5>1. QED BY <2>7, <3>3, <4>0
        <4>2. q.selected[k] = r.selected[k]
          BY <4>0, <4>1
        <4>3. QED BY <1>1, <2>7, <3>1, <4>1, <4>2 DEF TakenWell, Fits
      <3>4. QED BY <3>2, <3>3
    <2>8. Range(q.selected) = Range(r.selected) \cup {e}
      <3> DEFINE a == r.selected  b == q.selected
      <3>1. /\ DOMAIN a = 1..n /\ DOMAIN b = 1..(n + 1) /\ n \in Nat
            /\ \A k \in 1..n : b[k] = a[k]
            /\ b[n + 1] = e
        BY <1>1, <2>3
      <3>2. 1..(n + 1) = (1..n) \cup {n + 1}
        BY <1>1
      <3> HIDE DEF a, b, n, e
      <3>3. \A k \in DOMAIN b : b[k] \in Range(a) \cup {e}
        BY <3>1, <3>2 DEF Range
      <3>4. \A k \in DOMAIN a : a[k] \in Range(b)
        BY <3>1, <3>2 DEF Range
      <3>5. e \in Range(b)
        BY <3>1, <3>2 DEF Range
      <3>6. Range(b) = Range(a) \cup {e}
        BY <3>3, <3>4, <3>5 DEF Range
      <3>7. QED BY <3>6 DEF a, b
    <2>9. ASSUME NEW d \in r.rejected
          PROVE  /\ d \notin Range(q.selected)
                 /\ Cost(corpus[d], settings.unit) > settings.budget - q.used
      <3> DEFINE k == Cost(corpus[d], settings.unit)
      <3>1. d \in E /\ d \notin Range(r.selected) /\ k > settings.budget - r.used
        BY <1>1 DEF TakenWell, Fits, SelectionOf
      <3>2. k \in Nat
        BY <3>1
      <3>3. d # e
        <4>1. d = e => k = c
          OBVIOUS
        <4> HIDE DEF k, c
        <4>2. QED BY <1>1, <1>2, <2>5, <3>1, <3>2, <4>1
      <3> HIDE DEF k, c
      <3>4. k > settings.budget - q.used
        BY <1>1, <1>2, <2>2, <3>1, <3>2
      <3>5. QED BY <2>8, <3>1, <3>3, <3>4 DEF k
    <2>10. ASSUME NEW y \in s PROVE Accounted(settings, ranked[y], q)
      <3>1. Accounted(settings, ranked[y], r) /\ n # settings.topK
        BY <1>1, <1>6 DEF TakenWell
      <3>2. QED BY <2>2, <2>8, <3>1 DEF Accounted
    <2>11. Accounted(settings, e, q)
      BY <2>8 DEF Accounted
    <2> HIDE DEF n, c, repeats
    <2>12. Fits(corpus, settings, q)
      BY <1>2, <2>2, <2>3, <2>4, <2>5, <2>6, <2>7, <2>9 DEF Fits
    <2>13. QED BY <2>10, <2>11, <2>12 DEF TakenWell
  <1> HIDE DEF n, c, repeats
  <1>7. QED BY <1>3, <1>4, <1>5, <1>6

\* All of a ranking.
LEMMA SelectedWell ==
  ASSUME NEW corpus, NEW settings, NEW n \in Nat, NEW ranked, DOMAIN ranked = 1..n,
         \A x \in 1..n : ranked[x] \in DOMAIN corpus,
         \A e \in DOMAIN corpus : Cost(corpus[e], settings.unit) \in Nat,
         settings.topK \in Nat, settings.budget \in Nat
  PROVE  TakenWell(corpus, settings, ranked, 1..n, Selection(corpus, settings, ranked))
  <1> DEFINE D == 1..n
             V == SelectionOf(DOMAIN corpus)
             start == NothingRetrieved("none")
             take(r, x) == TakeExample(corpus, settings, r, ranked[x])
             pick == [s \in SUBSET D |-> Max(s)]
             step == [x \in D |-> [r \in V |-> take(r, x)]]
             Defines(it) == it = [s \in SUBSET (DOMAIN ranked) |->
                              IF s = {} THEN start
                              ELSE LET x == Max(s) IN take(it[s \ {x}], x)]
             it == CHOOSE it : Defines(it)
  <1>1. IsFiniteSet(D)
    BY FS_Interval
  <1>2. ASSUME NEW s \in SUBSET D, s # {}
        PROVE  Max(s) \in s /\ Max(s) \in D /\ s \ {Max(s)} \in SUBSET D
               /\ s \ {Max(s)} \in SUBSET s /\ s \ {Max(s)} # s
    <2>1. Max(s) \in s
      BY <1>2, LeastOf DEF Max
    <2>2. QED BY <2>1
  <1>3. TakenWell(corpus, settings, ranked, {}, start) /\ start \in V
    <2>1. TakenWell(corpus, settings, ranked, {}, start)
      BY NothingTaken
    <2> HIDE DEF start
    <2>2. QED BY <2>1 DEF TakenWell, Fits
  <1>4. ASSUME NEW x \in D, NEW r \in V PROVE take(r, x) \in V
    BY <1>4, TakeKeeps
  <1>5. PICK g \in [SUBSET D -> V] : RecursOn(g, D, start, pick, step)
    <2>1. Picks(pick, D)
      BY <1>2 DEF Picks
    <2>2. step \in [D -> [V -> V]]
      <3> HIDE DEF D, V, take
      <3>1. QED BY <1>4
    <2> HIDE DEF pick, step, start, D, V
    <2>3. QED BY <1>1, <1>3, <2>1, <2>2, RecursionExists
  <1>6. ASSUME NEW s \in SUBSET D, s # {}
        PROVE  g[s] = take(g[s \ {Max(s)}], Max(s))
    <2> DEFINE x == Max(s)  t == s \ {x}
    <2>1. x \in D /\ t \in SUBSET D /\ pick[s] = x
      BY <1>2, <1>6
    <2> HIDE DEF pick, x, t, D, V, start, take
    <2>2. g[s] = step[x][g[t]]
      <3> HIDE DEF step
      <3>1. g[s] = step[pick[s]][g[s \ {pick[s]}]]
        BY <1>5, <1>6 DEF RecursOn
      <3>2. QED BY <2>1, <3>1 DEF t
    <2>3. g[t] \in V
      BY <2>1
    <2>4. g[s] = take(g[t], x)
      BY <2>1, <2>2, <2>3
    <2>5. QED BY <2>4 DEF x, t
  <1>7. g[{}] = start
    <2> HIDE DEF start, pick, step, V
    <2>1. QED BY <1>5 DEF RecursOn
  <1>8. Defines(g)
    <2> HIDE DEF pick, step, V, take, start
    <2>1. \A s \in SUBSET D : g[s] = IF s = {} THEN start
                                     ELSE LET x == Max(s) IN take(g[s \ {x}], x)
      BY <1>6, <1>7
    <2>2. g = [s \in SUBSET D |-> g[s]]
      BY DEF V
    <2>3. QED BY <2>1, <2>2
  <1>9. Defines(it)
    <2> HIDE DEF Defines
    <2>1. QED BY <1>8, Zenon
  <1>10. Selection(corpus, settings, ranked) = it[D]
    <2>1. Selection(corpus, settings, ranked) = it[DOMAIN ranked]
      BY Zenon DEF Selection, FoldLeft, MapThenFoldSet
    <2> HIDE DEF it
    <2>2. QED BY <2>1
  <1> HIDE DEF it
  <1>11. /\ it[{}] = start
         /\ \A s \in SUBSET D : s # {} => it[s] = take(it[s \ {Max(s)}], Max(s))
    <2> HIDE DEF take, start
    <2>1. QED BY <1>9
  <1> DEFINE Well(s) == TakenWell(corpus, settings, ranked, s, it[s])
             T == {s \in SUBSET D : Well(s)}
  <1> HIDE DEF Defines, pick, step, V, start
  <1>12. ASSUME NEW s \in SUBSET D, \A t \in SUBSET s : t # s => t \in T
         PROVE  s \in T
    <2>1. CASE s = {}
      BY <1>3, <1>11, <2>1
    <2>2. CASE s # {}
      <3> DEFINE x == Max(s)  t == s \ {x}
      <3>1. /\ x \in s /\ x \in D /\ t \in SUBSET s /\ t # s
            /\ it[s] = take(it[t], x) /\ s = t \cup {x}
        <4>1. x \in s /\ x \in D /\ t \in SUBSET s /\ t # s
          BY <1>2, <2>2
        <4>2. it[s] = take(it[t], x)
          BY <1>11, <2>2
        <4> HIDE DEF x, take
        <4>3. s = t \cup {x}
          BY <4>1
        <4>4. QED BY <4>1, <4>2, <4>3
      <3> HIDE DEF x, t
      <3>2. Well(t)
        BY <1>12, <3>1
      <3>3. ranked[x] \in DOMAIN corpus
        BY <3>1
      <3>4. TakenWell(corpus, settings, ranked, t \cup {x}, take(it[t], x))
        BY <3>2, <3>3, TakeWell
      <3>5. QED BY <3>1, <3>4
    <2>3. QED BY <2>1, <2>2
  <1>13. SUBSET D \subseteq T
    <2> HIDE DEF T, D
    <2>1. \A s \in SUBSET D : (\A t \in SUBSET s : t # s => t \in T) => s \in T
      BY <1>12
    <2>2. QED BY <1>1, <2>1, SubsetInduction, SMTT(30)
  <1>14. Well(D)
    <2> HIDE DEF Well, T, D
    <2>1. D \in T
      BY <1>13
    <2>2. QED BY <2>1 DEF T
  <1>15. QED BY <1>10, <1>14

LEMMA RankedAreExamples ==
  ASSUME NEW q, NEW corpus, corpus \in Seq(Range(corpus)),
         \A e \in DOMAIN corpus : Score(q, corpus[e]) \in Int
  PROVE  \E n \in Nat : /\ DOMAIN Ranked(q, corpus) = 1..n
                        /\ \A x \in 1..n : Ranked(q, corpus)[x] \in DOMAIN corpus
  <1> DEFINE score == [e \in DOMAIN corpus |-> Score(q, corpus[e])]
             scored == {e \in DOMAIN corpus : score[e] > 0}
             upTo(e) == {d \in scored : score[d] > score[e] \/ (score[d] = score[e] /\ d <= e)}
             N == Cardinality(scored)
  <1>1. PICK m \in Nat : DOMAIN corpus = 1..m
    <2>1. ASSUME NEW S, NEW f \in Seq(S) PROVE \E m \in Nat : DOMAIN f = 1..m
      OBVIOUS
    <2>2. QED BY <2>1
  <1>2. /\ \A e \in scored : score[e] \in Int /\ e \in Nat
        /\ scored \in SUBSET (1..m)
    BY <1>1
  <1>3. PICK R : \A x, y \in scored :
          <<x, y>> \in R <=> score[x] > score[y] \/ (score[x] = score[y] /\ x <= y)
    <2> HIDE DEF score, scored
    <2> DEFINE W == {r \in scored \X scored :
                       \/ score[r[1]] > score[r[2]]
                       \/ (score[r[1]] = score[r[2]] /\ r[1] <= r[2])}
    <2>1. \A x, y \in scored :
            <<x, y>> \in W <=> score[x] > score[y] \/ (score[x] = score[y] /\ x <= y)
      OBVIOUS
    <2>2. QED BY <2>1
  <1>4. PICK K : K = scored
    OBVIOUS
  <1>5. IsFiniteSet(K) /\ N \in Nat
    <2>1. IsFiniteSet(1..m)
      BY FS_Interval
    <2> HIDE DEF scored
    <2>2. IsFiniteSet(scored)
      BY <1>2, <2>1, FS_Subset
    <2>3. QED BY <1>4, <2>2, FS_CardinalityType
  <1>6. Orders(R, K)
    <2> HIDE DEF score, scored
    <2>1. ASSUME NEW x \in scored PROVE <<x, x>> \in R
      BY <1>2, <1>3
    <2>2. ASSUME NEW x \in scored, NEW y \in scored, x # y
          PROVE  \/ <<x, y>> \in R /\ <<y, x>> \notin R
                 \/ <<y, x>> \in R /\ <<x, y>> \notin R
      <3>1. score[x] \in Int /\ score[y] \in Int /\ x \in Nat /\ y \in Nat
        BY <1>2
      <3>2. /\ <<x, y>> \in R <=> score[x] > score[y] \/ (score[x] = score[y] /\ x <= y)
            /\ <<y, x>> \in R <=> score[y] > score[x] \/ (score[y] = score[x] /\ y <= x)
        BY <1>3
      <3>3. QED BY <2>2, <3>1, <3>2
    <2>3. ASSUME NEW x \in scored, NEW y \in scored, NEW z \in scored,
                 <<x, y>> \in R, <<y, z>> \in R
          PROVE  <<x, z>> \in R
      <3>1. /\ score[x] \in Int /\ score[y] \in Int /\ score[z] \in Int
            /\ x \in Nat /\ y \in Nat /\ z \in Nat
        BY <1>2
      <3>2. /\ score[x] > score[y] \/ (score[x] = score[y] /\ x <= y)
            /\ score[y] > score[z] \/ (score[y] = score[z] /\ y <= z)
        BY <1>3, <2>3
      <3>3. score[x] > score[z] \/ (score[x] = score[z] /\ x <= z)
        BY <3>1, <3>2
      <3>4. QED BY <1>3, <3>3
    <2>4. QED BY <1>4, <2>1, <2>2, <2>3 DEF Orders
  <1>7. \A i \in 1..Cardinality(K) : \E k \in K : Cardinality(UpTo(R, K, k)) = i
    BY <1>5, <1>6, PlaceInOrder
  <1>8. \A k \in scored : UpTo(R, K, k) = upTo(k)
    <2> HIDE DEF score, scored
    <2>1. QED BY <1>3, <1>4 DEF UpTo
  <1>9. \A i \in 1..N : \E k \in scored : Cardinality(upTo(k)) = i
    <2> HIDE DEF scored, upTo
    <2>1. QED BY <1>4, <1>7, <1>8
  <1>10. Ranked(q, corpus) = [n \in 1..N |-> CHOOSE e \in scored : Cardinality(upTo(e)) = n]
    BY Zenon DEF Ranked
  <1>11. \A x \in 1..N : (CHOOSE e \in scored : Cardinality(upTo(e)) = x) \in scored
    <2> HIDE DEF scored, upTo, N
    <2>1. QED BY <1>9
  <1>12. scored \subseteq DOMAIN corpus
    OBVIOUS
  <1> DEFINE first == [n \in 1..N |-> CHOOSE e \in scored : Cardinality(upTo(e)) = n]
  <1> HIDE DEF scored, upTo, N
  <1>13. DOMAIN first = 1..N /\ \A x \in 1..N : first[x] \in DOMAIN corpus
    BY <1>11, <1>12
  <1> HIDE DEF first
  <1>14. QED BY <1>5, <1>10, <1>13 DEF first

LEMMA RetrievesWell ==
  ASSUME NEW q, NEW corpus, corpus \in Seq(Range(corpus)), NEW settings,
         \A e \in DOMAIN corpus : corpus[e].bytes \in Nat /\ Score(q, corpus[e]) \in Int,
         settings.topK \in Nat, settings.budget \in Nat,
         Retrieve(q, corpus, settings).selected # <<>>
  PROVE  /\ Fits(corpus, settings, Retrieve(q, corpus, settings))
         /\ \A e \in Range(Ranked(q, corpus)) :
              Accounted(settings, e, Retrieve(q, corpus, settings))
  <1> DEFINE ranked == Ranked(q, corpus)  r == Selection(corpus, settings, ranked)
  <1>1. \A e \in DOMAIN corpus : Cost(corpus[e], settings.unit) \in Nat
    BY DEF Cost
  <1>2. PICK n \in Nat : DOMAIN ranked = 1..n /\ \A x \in 1..n : ranked[x] \in DOMAIN corpus
    BY RankedAreExamples
  <1> HIDE DEF ranked
  <1>3. TakenWell(corpus, settings, ranked, 1..n, r)
    BY <1>1, <1>2, SelectedWell
  <1>4. Retrieve(q, corpus, settings) = r
    <2>1. \A reason : NothingRetrieved(reason).selected = <<>>
      BY DEF NothingRetrieved
    <2>2. \/ Retrieve(q, corpus, settings) = NothingRetrieved("InvalidTopK")
          \/ Retrieve(q, corpus, settings) = NothingRetrieved("EmptyCorpus")
          \/ Retrieve(q, corpus, settings) = NothingRetrieved("NoStructuralEvidence")
          \/ r.selected = <<>> /\ Retrieve(q, corpus, settings) =
                                    [r EXCEPT !.diagnostic = "NoMatchingExample"]
          \/ r.selected # <<>> /\ Retrieve(q, corpus, settings) = r
      BY DEF Retrieve, ranked
    <2> HIDE DEF r
    <2>3. [r EXCEPT !.diagnostic = "NoMatchingExample"].selected = r.selected
      BY <1>3 DEF TakenWell, Fits, SelectionOf
    <2>4. QED BY <2>1, <2>2, <2>3
  <1> HIDE DEF r
  <1>5. QED BY <1>2, <1>3, <1>4 DEF TakenWell, Range, ranked

-----------------------------------------------------------------------------
(***************************************************************************)
(* Counting by label, and counting where nothing is counted twice.         *)
(***************************************************************************)
\* Counted by label, everything is counted once.
LEMMA CountsAddUp ==
  ASSUME NEW S, IsFiniteSet(S), NEW L, IsFiniteSet(L), NEW label, \A x \in S : label[x] \in L
  PROVE  SumOf([l \in L |-> Cardinality({x \in S : label[x] = l})]) = Cardinality(S)
  <1> DEFINE labelled(l) == {x \in S : label[x] = l}
             within(t) == {x \in S : label[x] \in t}
             counts(t) == [l \in t |-> Cardinality(labelled(l))]
             T == {t \in SUBSET L : SumOf(counts(t)) = Cardinality(within(t))}
  <1>1. ASSUME NEW A \in SUBSET S PROVE IsFiniteSet(A) /\ Cardinality(A) \in Nat
    BY FS_Subset, FS_CardinalityType
  <1>2. ASSUME NEW t \in SUBSET L, \A u \in SUBSET t : u # t => u \in T
        PROVE  t \in T
    <2>1. CASE t = {}
      <3>1. within(t) = {} /\ DOMAIN counts(t) = {}
        BY <2>1
      <3> HIDE DEF within, counts
      <3>2. SumOf(counts(t)) = 0
        BY <3>1, SumOfNothing
      <3>3. QED BY <3>1, <3>2, FS_EmptySet DEF T
    <2>2. CASE t # {}
      <3>1. PICK l : l \in t
        BY <2>2
      <3> DEFINE u == t \ {l}
      <3>2. u \in SUBSET t /\ u # t /\ l \in t \ u /\ t = u \cup {l}
        BY <3>1
      <3>3. SumOf(counts(u)) = Cardinality(within(u))
        BY <1>2, <3>2
      <3>4. within(t) = within(u) \cup labelled(l) /\ within(u) \cap labelled(l) = {}
        BY <3>2
      <3>5. /\ IsFiniteSet(labelled(l)) /\ Cardinality(labelled(l)) \in Nat
            /\ IsFiniteSet(within(u)) /\ Cardinality(within(u)) \in Nat
        BY <1>1
      <3>6. Cardinality(within(t)) = Cardinality(within(u)) + Cardinality(labelled(l))
        <4> HIDE DEF within, labelled
        <4>1. Cardinality(within(u) \cap labelled(l)) = 0
          BY <3>4, FS_EmptySet
        <4>2. Cardinality(within(u) \cup labelled(l)) =
                Cardinality(within(u)) + Cardinality(labelled(l))
                  - Cardinality(within(u) \cap labelled(l))
          BY <3>5, FS_Union
        <4>3. QED BY <3>4, <3>5, <4>1, <4>2
      <3>7. SumOf(counts(t)) = SumOf(counts(u)) + Cardinality(labelled(l))
        <4> DEFINE f == counts(u)  g == counts(t)
        <4>1. IsFiniteSet(t)
          BY FS_Subset
        <4>2. /\ f \in [u -> Nat] /\ g \in [t -> Nat]
              /\ \A x \in u : g[x] = f[x]
              /\ g[l] = Cardinality(labelled(l))
          <5>1. \A x : Cardinality(labelled(x)) \in Nat
            BY <1>1
          <5> HIDE DEF labelled
          <5>2. QED BY <3>2, <5>1
        <4> HIDE DEF f, g, u, labelled
        <4>3. SumOf(g) = SumOf(f) + g[l]
          BY <3>2, <4>1, <4>2, SumInserted
        <4>4. QED BY <4>2, <4>3 DEF f, g
      <3> HIDE DEF within, counts, u, labelled
      <3>8. QED BY <3>3, <3>5, <3>6, <3>7 DEF T
    <2>3. QED BY <2>1, <2>2
  <1> HIDE DEF T
  <1>3. SUBSET L \subseteq T
    BY <1>2, SubsetInduction
  <1>4. SumOf(counts(L)) = Cardinality(within(L))
    BY <1>3 DEF T
  <1>5. within(L) = S
    OBVIOUS
  <1>6. QED BY <1>4, <1>5

\* A set in which a function is injective has at most as many elements as values.
LEMMA AtMostOneEach ==
  ASSUME NEW S, NEW n \in Nat, NEW f, \A x \in S : f[x] \in 1..n,
         \A x, y \in S : f[x] = f[y] => x = y
  PROVE  IsFiniteSet(S) /\ Cardinality(S) <= n
  <1> DEFINE g == [x \in S |-> f[x]]
  <1>1. g \in Injection(S, 1..n)
    BY DEF Injection, IsInjective
  <1>2. IsFiniteSet(1..n) /\ Cardinality(1..n) = n
    BY FS_Interval
  <1> HIDE DEF g
  <1>3. QED BY <1>1, <1>2, FS_Injection

-----------------------------------------------------------------------------
(***************************************************************************)
(* The product of models, repetitions and cases: the number of a run and   *)
(* what is run are each determined by the other.                           *)
(***************************************************************************)
LEMMA Digits ==
  ASSUME NEW c \in Nat, c > 0, NEW r \in Nat, r > 0, NEW k \in Nat, NEW i \in 0..(r - 1),
         NEW j \in 0..(c - 1)
  PROVE  LET a == (k * r + i) * c + j
         IN  /\ a \in Nat /\ a % c = j /\ a \div (r * c) = k
             /\ a \div c = k * r + i /\ (k * r + i) % r = i
  <1> DEFINE x == k * r + i  a == x * c + j  w == r * c  d == i * c + j
  <1>1. x \in Nat /\ a \in Nat /\ w \in Nat /\ d \in Nat
    <2>1. \A u, v \in Nat : u * v \in Nat
      OBVIOUS
    <2>2. i \in Nat /\ j \in Nat
      OBVIOUS
    <2>3. k * r \in Nat /\ i * c \in Nat /\ r * c \in Nat
      BY <2>1, <2>2
    <2>4. x * c \in Nat
      BY <2>1, <2>2, <2>3
    <2>5. QED BY <2>2, <2>3, <2>4
  <1>2. \A b, p \in Nat : \A e \in 0..(b - 1) : (b * p + e) \div b = p /\ (b * p + e) % b = e
    OBVIOUS
  <1>3. a \div c = x /\ a % c = j
    <2>1. x * c = c * x
      BY <1>1
    <2> HIDE DEF x
    <2>2. QED BY <1>1, <1>2, <2>1
  <1>4. x % r = i
    <2>1. k * r = r * k
      OBVIOUS
    <2>2. (r * k + i) % r = i
      BY <1>2
    <2>3. QED BY <2>1, <2>2
  <1>5. a = w * k + d
    OBVIOUS
  <1>6. d < w
    <2>1. i * c + c <= r * c
      <3>1. r = i + 1 + (r - 1 - i) /\ r - 1 - i \in Nat
        OBVIOUS
      <3> DEFINE s == r - 1 - i
      <3>2. s * c \in Nat
        <4>1. \A u, v \in Nat : u * v \in Nat
          OBVIOUS
        <4>2. QED BY <3>1, <4>1
      <3>3. r * c = i * c + c + s * c
        OBVIOUS
      <3>4. i * c \in Nat
        <4>1. \A u, v \in Nat : u * v \in Nat
          OBVIOUS
        <4>2. i \in Nat
          OBVIOUS
        <4>3. QED BY <4>1, <4>2
      <3> DEFINE sc == s * c  ic == i * c  rc == r * c
      <3>5. sc \in Nat /\ ic \in Nat /\ rc = ic + c + sc
        BY <3>2, <3>3, <3>4
      <3> HIDE DEF s, sc, ic, rc
      <3>6. ic + c <= rc
        BY <3>5
      <3>7. QED BY <3>6 DEF ic, rc
    <2> DEFINE ic == i * c
    <2>2. ic \in Nat
      <3>1. \A u, v \in Nat : u * v \in Nat
        OBVIOUS
      <3>2. i \in Nat
        OBVIOUS
      <3>3. QED BY <3>1, <3>2
    <2>3. ic + c <= w
      BY <2>1
    <2> HIDE DEF ic, w
    <2>4. ic + j < w
      BY <1>1, <2>2, <2>3
    <2>5. QED BY <2>4 DEF ic
  <1> HIDE DEF x, a, w, d
  <1>7. a \div w = k
    BY <1>1, <1>2, <1>5, <1>6
  <1>8. QED BY <1>1, <1>3, <1>4, <1>7 DEF w, a, x

LEMMA DigitsOf ==
  ASSUME NEW c \in Nat, c > 0, NEW r \in Nat, r > 0, NEW a \in Nat
  PROVE  /\ a \div (r * c) \in Nat /\ (a \div c) % r \in 0..(r - 1) /\ a % c \in 0..(c - 1)
         /\ a = ((a \div (r * c)) * r + ((a \div c) % r)) * c + (a % c)
  <1> DEFINE x == a \div c  j == a % c
  <1>1. x \in Nat /\ j \in 0..(c - 1) /\ a = x * c + j
    <2>1. x \in Nat /\ j \in 0..(c - 1) /\ a = c * x + j
      OBVIOUS
    <2> HIDE DEF x, j
    <2>2. QED BY <2>1
  <1> HIDE DEF x, j
  <1> DEFINE k == x \div r  i == x % r
  <1>2. k \in Nat /\ i \in 0..(r - 1) /\ x = k * r + i
    <2>1. k \in Nat /\ i \in 0..(r - 1) /\ x = r * k + i
      BY <1>1
    <2> HIDE DEF k, i
    <2>2. QED BY <2>1
  <1> HIDE DEF k, i
  <1>3. a \div (r * c) = k
    <2>1. ((k * r + i) * c + j) \div (r * c) = k
      BY <1>1, <1>2, Digits
    <2>2. QED BY <1>1, <1>2, <2>1
  <1>4. QED BY <1>1, <1>2, <1>3 DEF x, j, i

LEMMA QuotientBelow ==
  ASSUME NEW x \in Nat, NEW w \in Nat, w > 0, NEW m \in Nat, x < m * w
  PROVE  x \div w < m
  <1> DEFINE q == x \div w
  <1>1. q \in Nat /\ w * q <= x
    OBVIOUS
  <1> HIDE DEF q
  <1>2. ASSUME q >= m PROVE FALSE
    <2> DEFINE d == q - m
    <2>1. d \in Nat /\ q = m + d
      BY <1>1, <1>2
    <2> HIDE DEF d
    <2>2. \A u, v \in Nat : u * v \in Nat
      OBVIOUS
    <2>3. d * w \in Nat /\ m * w \in Nat
      BY <2>1, <2>2
    <2>4. w * q = m * w + d * w
      BY <2>1
    <2>5. QED BY <1>1, <2>3, <2>4
  <1>3. q < m
    BY <1>1, <1>2
  <1>4. QED BY <1>3 DEF q

\* What the product is of.
Shaped ==
  /\ plan.models \in Seq(Range(plan.models)) /\ IsInjective(plan.models)
  /\ plan.repetitions \in Nat \ {0}
  /\ cases \in Seq(DOMAIN Golds) /\ cases # <<>> /\ IsInjective(cases)

\* The number of the j-th case in the i-th repetition of the k-th model.
Number(k, i, j) == ((k - 1) * plan.repetitions + (i - 1)) * Len(cases) + (j - 1) + 1

LEMMA RunOfNumber ==
  ASSUME Shaped, NEW k \in DOMAIN plan.models, NEW i \in 1..plan.repetitions,
         NEW j \in DOMAIN cases
  PROVE  /\ Number(k, i, j) \in Nat \ {0}
         /\ RunAt(Number(k, i, j)) =
              [model |-> plan.models[k], repetition |-> i, entry |-> cases[j]]
  <1> DEFINE r == plan.repetitions  c == Len(cases)
             x == k - 1  y == i - 1  z == j - 1  a == (x * r + y) * c + z
  <1>1. /\ r \in Nat /\ r > 0 /\ c \in Nat /\ c > 0
        /\ x \in Nat /\ y \in 0..(r - 1) /\ z \in 0..(c - 1)
        /\ x + 1 = k /\ y + 1 = i /\ z + 1 = j
    BY DEF Shaped
  <1>2. Number(k, i, j) = a + 1
    BY DEF Number
  <1> HIDE DEF r, c, x, y, z
  <1>3. a \in Nat /\ a \div (r * c) = x /\ (a \div c) % r = y /\ a % c = z
    <2>1. a \in Nat
      BY <1>1, Digits
    <2>2. a \div (r * c) = x
      BY <1>1, Digits
    <2>3. (a \div c) % r = y
      <3>1. a \div c = x * r + y
        BY <1>1, Digits
      <3>2. (x * r + y) % r = y
        BY <1>1, Digits
      <3>3. QED BY <3>1, <3>2
    <2>4. a % c = z
      BY <1>1, Digits
    <2>5. QED BY <2>1, <2>2, <2>3, <2>4
  <1> HIDE DEF a
  <1>4. Number(k, i, j) - 1 = a /\ Number(k, i, j) \in Nat \ {0}
    BY <1>2, <1>3
  <1>5. QED BY <1>1, <1>3, <1>4 DEF RunAt, r, c

LEMMA NumberOfRun ==
  ASSUME Shaped, NEW n \in Nat \ {0}, n <= Total(plan)
  PROVE  \E k \in DOMAIN plan.models : \E i \in 1..plan.repetitions : \E j \in DOMAIN cases :
           n = Number(k, i, j)
  <1> DEFINE m == Len(plan.models)  r == plan.repetitions  c == Len(cases)  a == n - 1
             k == a \div (r * c)  i == (a \div c) % r  j == a % c
  <1>1. /\ r \in Nat /\ r > 0 /\ c \in Nat /\ c > 0 /\ m \in Nat /\ a \in Nat
        /\ DOMAIN plan.models = 1..m /\ DOMAIN cases = 1..c
    BY DEF Shaped
  <1>2. a < (m * r) * c
    <2>1. n <= (m * r) * c
      BY DEF Total
    <2>2. \A u, v \in Nat : u * v \in Nat
      OBVIOUS
    <2>3. (m * r) * c \in Nat
      BY <1>1, <2>2
    <2> HIDE DEF m, r, c
    <2>4. QED BY <2>1, <2>3
  <1> HIDE DEF m, r, c
  <1>3. a < m * (r * c) /\ r * c \in Nat /\ r * c > 0
    <2>1. \A u, v \in Nat : u > 0 /\ v > 0 => u * v \in Nat /\ u * v > 0
      OBVIOUS
    <2>2. (m * r) * c = m * (r * c)
      BY <1>1
    <2>3. QED BY <1>1, <1>2, <2>1, <2>2
  <1>4. k < m
    BY <1>1, <1>3, QuotientBelow
  <1>5. k \in Nat /\ i \in 0..(r - 1) /\ j \in 0..(c - 1) /\ a = (k * r + i) * c + j
    BY <1>1, DigitsOf
  <1> HIDE DEF k, i, j
  <1>6. /\ k + 1 \in 1..m /\ i + 1 \in 1..r /\ j + 1 \in 1..c
        /\ (k + 1) - 1 = k /\ (i + 1) - 1 = i /\ (j + 1) - 1 = j /\ n = a + 1
    BY <1>1, <1>4, <1>5
  <1> HIDE DEF a
  <1>7. n = Number(k + 1, i + 1, j + 1)
    BY <1>5, <1>6 DEF Number, r, c
  <1>8. QED BY <1>1, <1>6, <1>7 DEF r

\* Two runs are of the same model, repetition and case only when they are one.
LEMMA RunsDiffer ==
  ASSUME Shaped, NEW m \in Nat \ {0}, m <= Total(plan), NEW n \in Nat \ {0}, n <= Total(plan),
         RunAt(m).model = RunAt(n).model, RunAt(m).repetition = RunAt(n).repetition,
         RunAt(m).entry = RunAt(n).entry
  PROVE  m = n
  <1>1. PICK k \in DOMAIN plan.models, i \in 1..plan.repetitions, j \in DOMAIN cases :
          m = Number(k, i, j)
    BY NumberOfRun
  <1>2. PICK kk \in DOMAIN plan.models, ii \in 1..plan.repetitions, jj \in DOMAIN cases :
          n = Number(kk, ii, jj)
    BY NumberOfRun
  <1>3. /\ RunAt(m) = [model |-> plan.models[k], repetition |-> i, entry |-> cases[j]]
        /\ RunAt(n) = [model |-> plan.models[kk], repetition |-> ii, entry |-> cases[jj]]
    BY <1>1, <1>2, RunOfNumber
  <1>4. plan.models[k] = plan.models[kk] /\ i = ii /\ cases[j] = cases[jj]
    BY <1>3
  <1>5. k = kk /\ j = jj
    BY <1>4 DEF Shaped, IsInjective
  <1>6. QED BY <1>1, <1>2, <1>4, <1>5

\* The first run of a model is of the first case, in the first repetition.
LEMMA FirstRun ==
  ASSUME Shaped, NEW n \in Nat \ {0}, n <= Total(plan)
  PROVE  \E m \in 1..n : RunAt(m) = [model |-> RunAt(n).model, repetition |-> 1,
                                     entry |-> cases[1]]
  <1>1. PICK k \in DOMAIN plan.models, i \in 1..plan.repetitions, j \in DOMAIN cases :
          n = Number(k, i, j)
    BY NumberOfRun
  <1> DEFINE m == Number(k, 1, 1)  r == plan.repetitions  c == Len(cases)
  <1>2. /\ r \in Nat /\ c \in Nat /\ k - 1 \in Nat /\ i - 1 \in Nat /\ j - 1 \in Nat
        /\ 1 \in 1..r /\ 1 \in DOMAIN cases
    BY DEF Shaped
  <1>3. /\ RunAt(n) = [model |-> plan.models[k], repetition |-> i, entry |-> cases[j]]
        /\ RunAt(m) = [model |-> plan.models[k], repetition |-> 1, entry |-> cases[1]]
        /\ m \in Nat \ {0}
    BY <1>1, <1>2, RunOfNumber
  <1>4. m <= n
    <2> DEFINE x == k - 1  y == i - 1  z == j - 1
    <2>1. n = (x * r + y) * c + z + 1 /\ m = (x * r + (1 - 1)) * c + (1 - 1) + 1
      BY <1>1 DEF Number
    <2>2. x \in Nat /\ y \in Nat /\ z \in Nat
      BY <1>2
    <2> HIDE DEF r, c, x, y, z, m
    <2>3. m = (x * r) * c + 1 /\ n = (x * r) * c + y * c + z + 1
      BY <1>2, <2>1, <2>2
    <2>4. \A u, v \in Nat : u * v \in Nat
      OBVIOUS
    <2>5. x * r \in Nat
      BY <1>2, <2>2, <2>4
    <2>6. (x * r) * c \in Nat /\ y * c \in Nat
      BY <1>2, <2>2, <2>4, <2>5
    <2>7. QED BY <2>2, <2>3, <2>6
  <1> HIDE DEF m
  <1>5. m \in 1..n
    BY <1>3, <1>4
  <1>6. QED BY <1>3, <1>5

LEMMA TotalPositive ==
  ASSUME Shaped, plan.models # <<>>
  PROVE  Total(plan) \in Nat /\ Total(plan) > 0
  <1> DEFINE m == Len(plan.models)  r == plan.repetitions  c == Len(cases)
  <1>1. m \in Nat /\ m > 0 /\ r \in Nat /\ r > 0 /\ c \in Nat /\ c > 0
    BY DEF Shaped
  <1>2. Total(plan) = (m * r) * c
    BY DEF Total
  <1> HIDE DEF m, r, c
  <1>3. \A u, v \in Nat : u > 0 /\ v > 0 => u * v \in Nat /\ u * v > 0
    OBVIOUS
  <1>4. m * r \in Nat /\ m * r > 0
    BY <1>1, <1>3
  <1>5. QED BY <1>1, <1>2, <1>3, <1>4

-----------------------------------------------------------------------------
USE PlansAssumption, DatasetAssumption

-----------------------------------------------------------------------------
(***************************************************************************)
(* The session of a run, for the evaluation.  The verdicts of the session  *)
(* (the parameter v of the instance) matter to it only in how it ends, so  *)
(* each step is put in terms of what the observer can see.                 *)
(***************************************************************************)
Scripted == Scripts \cup {NoScript}

Replies == {"throws", "error", "cancelled", "unusable", "blank", "script"}

Attempts ==
  [purpose : {"Generation", "CompilerRepair", "RequirementCorrection"},
   reply : Replies, script : Scripted]

TypesInv ==
  /\ pc \in {"idle", "preflight", "loop", "provider", "candidate", "validating"}
  /\ purpose \in {"Generation", "CompilerRepair", "RequirementCorrection"}
  /\ calls \in Nat /\ attempts \in Nat
  /\ candidate \in Scripted /\ seen \in Seq(Scripts)
  /\ observed \in Seq(Attempts)
  /\ result.kind = "unsupported" => result.script = NoScript

\* The scripts of the first m attempts differ.
Differ(m) ==
  \A j, k \in 1..m : j < k => observed[j].script # observed[k].script

\* While the session runs, what it has judged is what was observed, but for the
\* answer in hand; that one alone may be a repetition.
RunningInv ==
  stage = "session" /\ pc # "idle" =>
    /\ result.kind = "none"
    /\ attempts = Len(observed)
    /\ calls = Len(observed) + (IF pc = "provider" THEN 1 ELSE 0)
    /\ \A i \in DOMAIN seen : seen[i] = observed[i].script
    /\ pc = "preflight" => observed = <<>>
    /\ pc \in {"preflight", "loop", "provider"} =>
         Len(seen) = Len(observed) /\ Len(observed) <= MaxRepairs /\ Differ(Len(observed))
    /\ pc \in {"candidate", "validating"} =>
         /\ Len(observed) = Len(seen) + 1 /\ Len(observed) <= MaxRepairs + 1
         /\ Differ(Len(seen))
         /\ candidate \in Scripts /\ observed[Len(observed)].script = candidate

\* When it has ended, a repetition was the last attempt and did not succeed.
EndedInv ==
  stage = "session" /\ pc = "idle" =>
    /\ calls = Len(observed) /\ Len(observed) <= MaxRepairs + 1
    /\ Differ(Len(observed) - 1)
    /\ result.kind = "proposal" =>
         /\ observed # <<>> /\ Differ(Len(observed))
         /\ observed[Len(observed)].script = result.script

ObserverInv == TypesInv /\ RunningInv /\ EndedInv

\* A session ends in failure, a run without one.
Fails ==
  pc' = "idle" /\ calls' = calls /\ purpose' = purpose /\ result'.kind = "failure"

Local == <<attempts, candidate, seen>>

LEMMA CallDoes ==
  ASSUME NEW v, Session(v)!Call
  PROVE  /\ pc = "idle" /\ pc' = "preflight" /\ purpose' = "Generation"
         /\ calls' = 0 /\ attempts' = 0 /\ candidate' = NoScript /\ seen' = <<>>
         /\ result'.kind = "none"
  BY DEF Session!Call, Session!Contract!NoOutcome

LEMMA PreflightDoes ==
  ASSUME NEW v, Session(v)!Preflight
  PROVE  /\ pc = "preflight" /\ purpose' = purpose /\ calls' = calls /\ UNCHANGED Local
         /\ \/ Fails
            \/ pc' = "idle" /\ result'.kind = "unsupported" /\ result'.script = NoScript
            \/ pc' = "loop" /\ result' = result
  BY DEF Session!Preflight, Session!FailBare, Session!Return, Session!FailureWith, Fails,
         Session!Contract!Unsupported, Local

LEMMA AskProviderDoes ==
  ASSUME NEW v, Session(v)!AskProvider
  PROVE  /\ pc = "loop" /\ purpose' = purpose /\ UNCHANGED Local
         /\ \/ Fails
            \/ /\ pc' = "provider" /\ result' = result
               /\ calls' = IF calls <= MaxRepairs + 1 THEN calls + 1 ELSE calls
  BY DEF Session!AskProvider, Session!Fail, Session!Return, Session!FailureWith, Fails,
         Session!CountCall, Local

LEMMA FaultDoes ==
  ASSUME NEW v, NEW fault, Session(v)!ProviderFault(fault)
  PROVE  pc = "provider" /\ Fails /\ UNCHANGED Local
  BY DEF Session!ProviderFault, Session!Fail, Session!Return, Session!FailureWith, Fails,
         Local

LEMMA AnswerDoes ==
  ASSUME NEW v, NEW s, Session(v)!ProviderAnswer(s)
  PROVE  /\ pc = "provider" /\ seen' = seen
         /\ \/ Fails /\ UNCHANGED Local
            \/ /\ pc' = "candidate" /\ candidate' = s /\ attempts' = attempts + 1
               /\ UNCHANGED <<calls, purpose, result>>
  BY DEF Session!ProviderAnswer, Session!Fail, Session!Return, Session!FailureWith, Fails,
         Local

LEMMA BeginValidationDoes ==
  ASSUME NEW v, Session(v)!BeginValidation
  PROVE  /\ pc = "candidate" /\ UNCHANGED Local
         /\ \/ Fails
            \/ pc' = "validating" /\ UNCHANGED <<calls, purpose, result>>
  BY DEF Session!BeginValidation, Session!Fail, Session!Return, Session!FailureWith, Fails,
         Local

LEMMA ValidationThrowsDoes ==
  ASSUME NEW v, Session(v)!ValidationThrows
  PROVE  pc = "validating" /\ Fails /\ UNCHANGED Local
  BY DEF Session!ValidationThrows, Session!FailBare, Session!Return, Session!FailureWith,
         Fails, Local

LEMMA JudgeDoes ==
  ASSUME NEW v, Session(v)!Judge
  PROVE  /\ pc = "validating" /\ seen' = Append(seen, candidate)
         /\ UNCHANGED <<attempts, candidate>>
         /\ \/ Fails
            \/ /\ \A i \in DOMAIN seen : seen[i] # candidate
               /\ \/ /\ pc' = "idle" /\ UNCHANGED <<calls, purpose>>
                     /\ result'.kind = "proposal" /\ result'.script = candidate
                  \/ /\ pc' = "loop" /\ ~(attempts > MaxRepairs)
                     /\ purpose' \in {"CompilerRepair", "RequirementCorrection"}
                     /\ UNCHANGED <<calls, result>>
  <1> DEFINE Result(script) ==
        \/ Fails
        \/ /\ pc' = "idle" /\ UNCHANGED <<calls, purpose>>
           /\ result'.kind = "proposal" /\ result'.script = script
        \/ /\ pc' = "loop" /\ ~(attempts > MaxRepairs)
           /\ purpose' \in {"CompilerRepair", "RequirementCorrection"}
           /\ UNCHANGED <<calls, result>>
  <1>1. ASSUME NEW code, Session(v)!FailWithCandidate(code) PROVE Fails
    BY <1>1 DEF Session!FailWithCandidate, Session!FailureWith, Session!Return, Fails
  <1>2. ASSUME Session(v)!JudgeInvalid PROVE Result(candidate)
    BY <1>1, <1>2 DEF Session!JudgeInvalid, Session!AskAgain, Session!OverLimit
  <1>3. ASSUME Session(v)!JudgeValid PROVE Result(candidate)
    BY <1>1, <1>3
    DEF Session!JudgeValid, Session!AskAgain, Session!OverLimit, Session!Return
  <1>4. Result(candidate) \/ Session(v)!Repeated
    BY <1>2, <1>3 DEF Session!Judge
  <1>5. QED
    BY <1>1, <1>4 DEF Session!Judge, Session!Repeated

\* What the invariant is about is left alone.
Shown == <<stage, observed, pc, purpose, calls, attempts, candidate, seen, result>>

LEMMA ObserverUnchanged ==
  ASSUME ObserverInv, UNCHANGED Shown
  PROVE  ObserverInv'
  BY DEF ObserverInv, TypesInv, RunningInv, EndedInv, Differ, Shown

\* Outside a run only the types are left to keep.
LEMMA ObserverOutside ==
  ASSUME ObserverInv, UNCHANGED <<observed, session>>, stage' # "session"
  PROVE  ObserverInv'
  BY DEF ObserverInv, TypesInv, RunningInv, EndedInv, session

\* The first attempts still differ when one is added.
LEMMA DifferStill ==
  ASSUME NEW a \in Attempts, observed \in Seq(Attempts), observed' = Append(observed, a),
         Differ(Len(observed))
  PROVE  /\ observed' \in Seq(Attempts) /\ Len(observed') = Len(observed) + 1
         /\ \A i \in DOMAIN observed : observed'[i] = observed[i]
         /\ observed'[Len(observed')] = a
         /\ Differ(Len(observed) - 1)'
  <1>1. /\ observed' \in Seq(Attempts) /\ Len(observed') = Len(observed) + 1
        /\ \A i \in DOMAIN observed : observed'[i] = observed[i]
        /\ observed'[Len(observed')] = a /\ DOMAIN observed = 1..Len(observed)
        /\ Len(observed) \in Nat
    OBVIOUS
  <1>2. \A j, k \in 1..Len(observed) : j < k => observed'[j].script # observed'[k].script
    BY <1>1 DEF Differ
  <1>3. Len(observed') - 1 = Len(observed)
    BY <1>1
  <1>4. QED BY <1>1, <1>2, <1>3 DEF Differ

\* A failure with nothing new observed.
LEMMA FailureKeeps ==
  ASSUME ObserverInv, stage = "session", pc \notin {"idle", "provider"}, Fails,
         UNCHANGED <<stage, observed, attempts, candidate>>,
         \/ seen' = seen
         \/ pc = "validating" /\ seen' = Append(seen, candidate)
  PROVE  ObserverInv'
  <1>1. TypesInv'
    <2>1. seen \in Seq(Scripts) /\ (pc = "validating" => candidate \in Scripts)
      BY DEF ObserverInv, TypesInv, RunningInv
    <2>2. seen' \in Seq(Scripts)
      BY <2>1
    <2>3. QED BY <2>2 DEF ObserverInv, TypesInv, Fails
  <1>2. /\ calls = Len(observed) /\ Len(observed) <= MaxRepairs + 1
        /\ Len(observed) \in Nat
    BY DEF ObserverInv, RunningInv, TypesInv
  <1>3. Differ(Len(observed) - 1)
    <2>1. CASE pc \in {"candidate", "validating"}
      <3>1. Differ(Len(seen)) /\ Len(observed) = Len(seen) + 1 /\ Len(seen) \in Nat
        BY <2>1 DEF ObserverInv, RunningInv, TypesInv
      <3>2. QED BY <3>1
    <2>2. CASE pc \in {"preflight", "loop"}
      <3>1. Differ(Len(observed))
        BY <2>2 DEF ObserverInv, RunningInv
      <3>2. QED BY <1>2, <3>1 DEF Differ
    <2>3. QED BY <2>1, <2>2 DEF ObserverInv, TypesInv
  <1>4. EndedInv'
    BY <1>2, <1>3 DEF EndedInv, Fails, Differ
  <1>5. RunningInv'
    BY DEF RunningInv, Fails
  <1>6. QED BY <1>1, <1>4, <1>5 DEF ObserverInv

\* The verdict of the compiler on the answer in hand.
LEMMA JudgeKeeps ==
  ASSUME ObserverInv, stage = "session", UNCHANGED <<stage, observed>>,
         NEW v, Session(v)!Judge
  PROVE  ObserverInv'
  <1>1. /\ pc = "validating" /\ seen' = Append(seen, candidate)
        /\ UNCHANGED <<attempts, candidate>>
    BY JudgeDoes
  <1>2. CASE Fails
    BY <1>1, <1>2, FailureKeeps
  <1>3. CASE ~Fails
    <2> DEFINE n == Len(observed)
    <2>1. /\ seen \in Seq(Scripts) /\ candidate \in Scripts /\ seen' \in Seq(Scripts)
          /\ n = Len(seen) + 1 /\ Len(seen) \in Nat /\ Len(seen') = n
          /\ \A i \in 1..Len(seen) : seen'[i] = seen[i]
          /\ seen'[n] = candidate
          /\ observed \in Seq(Attempts)
      BY <1>1 DEF ObserverInv, TypesInv, RunningInv
    <2>2. /\ \A i \in 1..Len(seen) : seen[i] = observed[i].script /\ seen[i] # candidate
          /\ observed[n].script = candidate /\ Differ(Len(seen))
          /\ attempts = n /\ calls = n /\ n <= MaxRepairs + 1 /\ result.kind = "none"
          /\ n > 0
      BY <1>1, <1>3, <2>1, JudgeDoes DEF ObserverInv, RunningInv
    <2>3. Differ(n) /\ Differ(n - 1)
      <3> HIDE DEF n
      <3>1. ASSUME NEW j \in 1..n, NEW k \in 1..n, j < k
            PROVE  observed[j].script # observed[k].script
        <4>1. j \in 1..Len(seen)
          BY <2>1, <3>1
        <4>2. CASE k = n
          BY <2>2, <4>1, <4>2
        <4>3. CASE k # n
          <5>1. k \in 1..Len(seen)
            BY <2>1, <4>3
          <5>2. QED BY <2>2, <3>1, <4>1, <5>1 DEF Differ
        <4>4. QED BY <4>2, <4>3
      <3>2. \A k \in 1..(n - 1) : k \in 1..n
        BY <2>1
      <3>3. QED BY <3>1, <3>2 DEF Differ
    <2>4. \A i \in DOMAIN seen' : seen'[i] = observed[i].script
      BY <2>1, <2>2
    <2>5. CASE pc' = "idle" /\ UNCHANGED <<calls, purpose>>
               /\ result'.kind = "proposal" /\ result'.script = candidate
      <3>1. TypesInv' /\ RunningInv'
        BY <1>1, <2>1, <2>5 DEF ObserverInv, TypesInv, RunningInv
      <3>2. Differ(n)' /\ Differ(n - 1)'
        BY <2>3 DEF Differ
      <3>3. observed # <<>>
        BY <2>1, <2>2
      <3>4. EndedInv'
        BY <2>2, <2>5, <3>2, <3>3 DEF EndedInv
      <3>5. QED BY <3>1, <3>4 DEF ObserverInv
    <2>6. CASE /\ pc' = "loop" /\ ~(attempts > MaxRepairs)
               /\ purpose' \in {"CompilerRepair", "RequirementCorrection"}
               /\ UNCHANGED <<calls, result>>
      <3>1. TypesInv' /\ EndedInv'
        BY <1>1, <2>1, <2>6 DEF ObserverInv, TypesInv, EndedInv
      <3>2. Differ(n)'
        BY <2>3 DEF Differ
      <3>3. n <= MaxRepairs
        BY <2>1, <2>2, <2>6
      <3>4. RunningInv'
        BY <1>1, <2>1, <2>2, <2>4, <2>6, <3>2, <3>3 DEF RunningInv
      <3>5. QED BY <3>1, <3>4 DEF ObserverInv
    <2>7. QED BY <1>3, <2>5, <2>6, JudgeDoes
  <1>4. QED BY <1>2, <1>3

\* The provider returns, and what it did is appended.
LEMMA ReturnsKeep ==
  ASSUME ObserverInv, ProviderReturns
  PROVE  ObserverInv'
  <1>1. stage = "session" /\ stage' = stage
    BY DEF ProviderReturns
  <1>2. ASSUME NEW reply \in Replies, NEW s \in Scripted, Observe(reply, s),
               pc = "provider"
        PROVE  /\ observed' \in Seq(Attempts) /\ Len(observed') = Len(observed) + 1
               /\ \A i \in DOMAIN observed : observed'[i] = observed[i]
               /\ observed'[Len(observed')].script = s
               /\ Differ(Len(observed) - 1)'
    <2> DEFINE a == [purpose |-> purpose, reply |-> reply, script |-> s]
    <2>1. a \in Attempts
      BY DEF ObserverInv, TypesInv, Attempts
    <2>2. observed' = Append(observed, a)
      BY <1>2 DEF Observe
    <2>3. observed \in Seq(Attempts) /\ Differ(Len(observed))
      BY <1>1, <1>2 DEF ObserverInv, TypesInv, RunningInv
    <2>4. a.script = s
      OBVIOUS
    <2> HIDE DEF a
    <2>5. QED BY <2>1, <2>2, <2>3, <2>4, DifferStill
  <1>3. ASSUME pc = "provider"
        PROVE  /\ calls = Len(observed) + 1 /\ attempts = Len(observed)
               /\ Len(observed) <= MaxRepairs /\ Len(observed) \in Nat
               /\ Len(seen) = Len(observed) /\ DOMAIN seen = DOMAIN observed
               /\ \A i \in DOMAIN seen : seen[i] = observed[i].script
    BY <1>1, <1>3 DEF ObserverInv, TypesInv, RunningInv
  <1>4. ASSUME NEW reply \in Replies, NEW s \in Scripted, Observe(reply, s),
               pc = "provider", Fails, UNCHANGED Local
        PROVE  ObserverInv'
    <2>1. TypesInv' /\ RunningInv'
      BY <1>2, <1>4 DEF ObserverInv, TypesInv, RunningInv, Fails, Local
    <2>2. EndedInv'
      BY <1>2, <1>3, <1>4 DEF EndedInv, Fails
    <2>3. QED BY <2>1, <2>2 DEF ObserverInv
  <1>5. ASSUME NEW v, NEW fault \in {"throws", "error", "cancelled", "unusable", "blank"},
               Session(v)!ProviderFault(fault), Observe(fault, NoScript)
        PROVE  ObserverInv'
    BY <1>4, <1>5, FaultDoes DEF Replies, Scripted
  <1>6. ASSUME NEW v, NEW s \in Scripts, Session(v)!ProviderAnswer(s), Observe("script", s)
        PROVE  ObserverInv'
    <2>0. "script" \in Replies /\ s \in Scripted
      BY DEF Replies, Scripted
    <2>1. pc = "provider" /\ seen' = seen
      BY <1>6, AnswerDoes
    <2>2. CASE Fails /\ UNCHANGED Local
      BY <1>4, <1>6, <2>0, <2>1, <2>2
    <2>3. CASE /\ pc' = "candidate" /\ candidate' = s /\ attempts' = attempts + 1
               /\ UNCHANGED <<calls, purpose, result>>
      <3>1. /\ observed' \in Seq(Attempts) /\ Len(observed') = Len(observed) + 1
            /\ \A i \in DOMAIN observed : observed'[i] = observed[i]
            /\ observed'[Len(observed')].script = s
            /\ Differ(Len(observed) - 1)'
        BY <1>2, <1>6, <2>0, <2>1
      <3>2. TypesInv' /\ EndedInv'
        BY <2>0, <2>1, <2>3, <3>1 DEF ObserverInv, TypesInv, EndedInv
      <3>3. Differ(Len(seen))' /\ result.kind = "none"
        BY <1>1, <1>3, <2>1, <3>1 DEF ObserverInv, RunningInv, Differ
      <3>4. RunningInv'
        BY <1>1, <1>3, <2>1, <2>3, <3>1, <3>3 DEF RunningInv
      <3>5. QED BY <3>2, <3>4 DEF ObserverInv
    <2>4. QED BY <1>6, <2>2, <2>3, AnswerDoes
  <1>7. QED BY <1>5, <1>6 DEF ProviderReturns

\* The observer's view of each step of the evaluation.
LEMMA ObserverStep == ObserverInv /\ [Next]_allVars => ObserverInv'
  <1> SUFFICES ASSUME ObserverInv, [Next]_allVars PROVE ObserverInv'
    OBVIOUS
  <1>1. CASE LoadDataset \/ LoadCorpus \/ QueryModels \/ RevalidationThrows \/ FinishRun
             \/ WriteReport
    <2>1. UNCHANGED <<observed, session>> /\ stage' # "session"
      BY <1>1 DEF LoadDataset, LoadCorpus, QueryModels, RevalidationThrows, FinishRun,
                  WriteReport, Leave, Enter
    <2>2. QED BY <2>1, ObserverOutside
  <1>2. CASE StartRun
    <2>1. PICK v : Session(v)!Call
      BY <1>2 DEF StartRun
    <2>2. /\ pc' = "preflight" /\ purpose' = "Generation" /\ calls' = 0 /\ attempts' = 0
          /\ candidate' = NoScript /\ seen' = <<>> /\ result'.kind = "none"
      BY <2>1, CallDoes
    <2>3. observed' = <<>>
      BY <1>2 DEF StartRun
    <2>4. TypesInv'
      BY <2>2, <2>3 DEF TypesInv, Scripted
    <2>5. RunningInv' /\ EndedInv'
      BY <2>2, <2>3 DEF RunningInv, EndedInv, Differ
    <2>6. QED BY <2>4, <2>5 DEF ObserverInv
  <1>3. CASE Assessed
    <2>1. stage = "session" /\ UNCHANGED <<stage, observed>>
      BY <1>3 DEF Assessed, evaluation
    <2>2. PICK v : Session(v)!Preflight
      BY <1>3 DEF Assessed
    <2>3. pc = "preflight" /\ UNCHANGED <<attempts, candidate, seen, purpose, calls>>
      BY <2>2, PreflightDoes DEF Local
    <2>4. CASE Fails
      BY <2>1, <2>3, <2>4, FailureKeeps
    <2>5. /\ observed = <<>> /\ calls = 0 /\ attempts = 0 /\ Len(seen) = 0
          /\ seen \in Seq(Scripts) /\ result.kind = "none"
      <3>1. /\ observed = <<>> /\ calls = Len(observed) + 0 /\ attempts = Len(observed)
            /\ Len(seen) = Len(observed) /\ result.kind = "none"
        BY <2>1, <2>3 DEF ObserverInv, RunningInv
      <3>2. seen \in Seq(Scripts)
        BY DEF ObserverInv, TypesInv
      <3>3. Len(<<>>) = 0
        OBVIOUS
      <3>4. Len(observed) = 0
        BY <3>1, <3>3, Zenon
      <3>5. QED BY <3>1, <3>2, <3>4
    <2>6. Differ(0) /\ Differ(0)' /\ Differ(-1)' /\ Len(observed) = 0
      BY <2>5 DEF Differ
    <2>7. CASE pc' = "idle" /\ result'.kind = "unsupported" /\ result'.script = NoScript
      <3>1. TypesInv' /\ RunningInv'
        BY <2>1, <2>3, <2>7 DEF ObserverInv, TypesInv, RunningInv
      <3>2. EndedInv'
        BY <2>1, <2>3, <2>5, <2>6, <2>7 DEF EndedInv
      <3>3. QED BY <3>1, <3>2 DEF ObserverInv
    <2>8. CASE pc' = "loop" /\ result' = result
      <3>1. TypesInv' /\ EndedInv'
        BY <2>1, <2>3, <2>8 DEF ObserverInv, TypesInv, EndedInv
      <3>2. DOMAIN seen = {}
        BY <2>5
      <3>3. RunningInv'
        BY <2>1, <2>3, <2>5, <2>6, <2>8, <3>2 DEF RunningInv
      <3>4. QED BY <3>1, <3>3 DEF ObserverInv
    <2>9. QED BY <2>2, <2>4, <2>7, <2>8, PreflightDoes
  <1>4. CASE Converse
    <2>1. stage = "session" /\ UNCHANGED <<stage, observed>>
      BY <1>4 DEF Converse, evaluation
    <2>2. ASSUME NEW v, Session(v)!AskProvider PROVE ObserverInv'
      <3>1. pc = "loop" /\ purpose' = purpose /\ UNCHANGED <<attempts, candidate, seen>>
        BY <2>2, AskProviderDoes DEF Local
      <3>2. CASE Fails
        BY <2>1, <3>1, <3>2, FailureKeeps
      <3>3. CASE ~Fails
        <4>1. /\ pc' = "provider" /\ result' = result
              /\ calls' = IF calls <= MaxRepairs + 1 THEN calls + 1 ELSE calls
          BY <2>2, <3>3, AskProviderDoes
        <4>2. calls = Len(observed) /\ calls <= MaxRepairs /\ calls \in Nat
          BY <2>1, <3>1 DEF ObserverInv, TypesInv, RunningInv
        <4>3. calls' = calls + 1 /\ calls' \in Nat
          BY <4>1, <4>2
        <4>4. TypesInv' /\ EndedInv'
          BY <2>1, <3>1, <4>1, <4>3 DEF ObserverInv, TypesInv, EndedInv
        <4>5. RunningInv'
          BY <2>1, <3>1, <4>1, <4>2, <4>3 DEF ObserverInv, RunningInv, Differ
        <4>6. QED BY <4>4, <4>5 DEF ObserverInv
      <3>4. QED BY <3>2, <3>3
    <2>3. ASSUME NEW v, Session(v)!BeginValidation PROVE ObserverInv'
      <3>1. pc = "candidate" /\ UNCHANGED <<attempts, candidate, seen>>
        BY <2>3, BeginValidationDoes DEF Local
      <3>2. CASE Fails
        BY <2>1, <3>1, <3>2, FailureKeeps
      <3>3. CASE pc' = "validating" /\ UNCHANGED <<calls, purpose, result>>
        BY <2>1, <3>1, <3>3 DEF ObserverInv, TypesInv, RunningInv, EndedInv, Differ
      <3>4. QED BY <2>3, <3>2, <3>3, BeginValidationDoes
    <2>4. ASSUME NEW v, Session(v)!ValidationThrows PROVE ObserverInv'
      BY <2>1, <2>4, ValidationThrowsDoes, FailureKeeps DEF Local
    <2>5. ASSUME NEW v, Session(v)!Judge PROVE ObserverInv'
      BY <2>1, <2>5, JudgeKeeps
    <2>6. QED BY <1>4, <2>2, <2>3, <2>4, <2>5 DEF Converse
  <1>5. CASE ProviderReturns
    BY <1>5, ReturnsKeep
  <1>6. CASE RequestStop \/ UNCHANGED allVars
    <2>1. UNCHANGED Shown
      BY <1>6 DEF RequestStop, allVars, evaluation, session, Shown
    <2>2. QED BY <2>1, ObserverUnchanged
  <1>7. QED
    BY <1>1, <1>2, <1>3, <1>4, <1>5, <1>6 DEF Next, EvaluationStep

LEMMA ObserverInit == Init => ObserverInv
  <1> SUFFICES ASSUME Init PROVE ObserverInv
    OBVIOUS
  <1>1. stage # "session" /\ observed = <<>>
    BY DEF Init
  <1>2. PICK v : Session(v)!Init
    BY DEF Init
  <1>3. TypesInv
    BY <1>1, <1>2 DEF Session!Init, Session!Contract!NoOutcome, TypesInv, Scripted
  <1>4. QED BY <1>1, <1>3 DEF ObserverInv, RunningInv, EndedInv

LEMMA ObserverHolds == Spec => []ObserverInv
  BY ObserverInit, ObserverStep, PTL DEF Spec

\* For every repair limit, every set of scripts and whatever the sessions are
\* told: the attempts observed are the provider calls made, a completed run's
\* script is the last of them, and only a last attempt that did not succeed
\* repeats an earlier one (evaluation.cpp:63-178, 1042-1070).
THEOREM ObserverIsFaithful == Spec => []ObserverSawTheSession
  <1>1. ObserverInv => ObserverSawTheSession
    <2> SUFFICES ASSUME ObserverInv, stage = "session" PROVE ObserverSawTheSession
      BY DEF ObserverSawTheSession
    <2> DEFINE n == Len(observed)
    <2>1. n \in Nat /\ DOMAIN observed = 1..n
      BY DEF ObserverInv, TypesInv
    <2>2. n = calls - (IF pc = "provider" THEN 1 ELSE 0) /\ n <= MaxRepairs + 1
      <3>1. CASE pc = "idle"
        BY <2>1, <3>1 DEF ObserverInv, EndedInv
      <3>2. CASE pc = "provider"
        <4>1. calls = n + 1 /\ n <= MaxRepairs
          BY <3>2 DEF ObserverInv, RunningInv
        <4>2. QED BY <2>1, <3>2, <4>1
      <3>3. CASE pc \in {"preflight", "loop", "candidate", "validating"}
        <4>1. calls = n + 0 /\ (n <= MaxRepairs \/ n <= MaxRepairs + 1)
          BY <3>3 DEF ObserverInv, RunningInv
        <4>2. MaxRepairs \in Nat /\ pc # "provider"
          BY <3>3
        <4> HIDE DEF n
        <4>3. n = calls /\ n <= MaxRepairs + 1 /\ calls - 0 = calls
          BY <2>1, <4>1, <4>2
        <4>4. QED BY <4>2, <4>3
      <3>4. QED BY <3>1, <3>2, <3>3 DEF ObserverInv, TypesInv
    <2>3. result.kind = "proposal" =>
            pc = "idle" /\ Differ(n) /\ observed[n].script = result.script
      BY DEF ObserverInv, RunningInv, EndedInv
    <2>4. Differ(n - 1)
      <3>1. CASE pc = "idle"
        BY <3>1 DEF ObserverInv, EndedInv
      <3>2. CASE pc \in {"candidate", "validating"}
        <4>1. Differ(Len(seen)) /\ n = Len(seen) + 1 /\ Len(seen) \in Nat
          BY <3>2 DEF ObserverInv, RunningInv, TypesInv
        <4>2. QED BY <4>1
      <3>3. CASE pc \in {"preflight", "loop", "provider"}
        <4>1. Differ(n)
          BY <3>3 DEF ObserverInv, RunningInv
        <4>2. QED BY <2>1, <4>1 DEF Differ
      <3>4. QED BY <3>1, <3>2, <3>3 DEF ObserverInv, TypesInv
    <2> HIDE DEF n
    <2>5. ASSUME NEW j \in 1..n, NEW k \in 1..n, j < k, observed[j].script = observed[k].script
          PROVE  k = n /\ result.kind # "proposal"
      BY <2>1, <2>3, <2>4, <2>5 DEF Differ
    <2>6. QED BY <2>1, <2>2, <2>3, <2>5 DEF ObserverSawTheSession, n
  <1>2. QED BY <1>1, ObserverHolds, PTL

-----------------------------------------------------------------------------
(***************************************************************************)
(* The cases that are run.  Chosen counts the entries kept: each number up *)
(* to their count is the place of one of them.                             *)
(***************************************************************************)
LEMMA ChosenAreListed ==
  ASSUME NEW p \in Plans, ~Diagnosed(Datasets[p.dataset])
  PROVE  Chosen(p) \in Seq(DOMAIN Datasets[p.dataset].disk) /\ IsInjective(Chosen(p))
  <1> DEFINE listed == Datasets[p.dataset].cases
             kept == {k \in DOMAIN listed : p.only = {} \/ listed[k] \in p.only}
             place(k) == Cardinality({j \in kept : j <= k})
             N == Cardinality(kept)
  <1>1. /\ p.dataset \in DOMAIN Datasets /\ Len(listed) \in Nat
        /\ DOMAIN listed = 1..Len(listed)
    OBVIOUS
  <1>2. \A k \in DOMAIN listed : listed[k] \in DOMAIN Datasets[p.dataset].disk
    BY DEF Diagnosed, Range
  <1>3. kept \in SUBSET (1..Len(listed)) /\ N \in Nat
    <2>1. kept \in SUBSET (1..Len(listed))
      BY <1>1
    <2> HIDE DEF kept, listed
    <2>2. IsFiniteSet(1..Len(listed))
      BY <1>1, FS_Interval
    <2>3. IsFiniteSet(kept)
      BY <2>1, <2>2, FS_Subset
    <2>4. QED BY <2>1, <2>3, FS_CardinalityType
  <1> DEFINE at(n) == CHOOSE k \in kept : place(k) = n
  <1>4. \A n \in 1..N : at(n) \in DOMAIN listed /\ place(at(n)) = n
    <2> HIDE DEF listed, kept
    <2>1. \A n \in 1..N : \E k \in kept : place(k) = n
      BY <1>1, <1>3, PlaceTaken
    <2> HIDE DEF place
    <2>2. QED BY <1>1, <1>3, <2>1
  <1>5. Chosen(p) = [n \in 1..N |-> listed[at(n)]]
    BY DEF Chosen
  <1>6. IsInjective(listed)
    BY DEF Diagnosed
  <1> HIDE DEF listed, kept, N, place, at
  <1> DEFINE D == DOMAIN Datasets[p.dataset].disk
             entry(n) == listed[at(n)]
  <1>7. \A n \in 1..N : entry(n) \in D
    BY <1>2, <1>4
  <1>8. \A i, j \in 1..N : entry(i) = entry(j) => i = j
    <2>1. \A i, j \in DOMAIN listed : listed[i] = listed[j] => i = j
      BY <1>6 DEF IsInjective
    <2>2. QED BY <1>4, <2>1
  <1> HIDE DEF D, entry
  <1>9. [n \in 1..N |-> entry(n)] \in Seq(D)
    BY <1>3, <1>7
  <1>10. IsInjective([n \in 1..N |-> entry(n)])
    BY <1>8 DEF IsInjective
  <1>11. QED BY <1>5, <1>9, <1>10 DEF D, entry

-----------------------------------------------------------------------------
(***************************************************************************)
(* The decision.  What the pieces it is computed from can be, and what an  *)
(* Allow says of them.                                                     *)
(***************************************************************************)
LEMMA Assessments ==
  ASSUME NEW operations
  PROVE  Assess(operations) \in
           {"Supported", "PartiallySupported", "Unsupported", "Uncertain"}
  BY DEF Assess

LEMMA Outcomes ==
  ASSUME NEW c, NEW facts
  PROVE  Outcome(c, facts) \in {"Satisfied", "Violated", "Unknown"}
  BY DEF Outcome

LEMMA Verifications ==
  ASSUME NEW clauses, NEW facts
  PROVE  /\ Verify(clauses, facts) \in {"Satisfied", "Violated", "Unknown", "NotEvaluated"}
         /\ Verify(clauses, facts) = "Satisfied" =>
              /\ clauses # <<>>
              /\ \A k \in DOMAIN clauses : Outcome(clauses[k], facts) = "Satisfied"
  BY Outcomes DEF Verify

Verdicts == {"Allow", "ReviewRequired", "Reject"}

\* A verdict that is not taken back.
LEMMA AllowedVerdict ==
  ASSUME NEW item, NEW highUnknown,
         item.interactive \in {"Satisfied", "Violated", "Unknown", "NotEvaluated"},
         item.support \in {"Supported", "PartiallySupported", "Unsupported", "Uncertain"},
         item.status \in {"Completed", "Unsupported", "Cancelled", "Failed"},
         item.status \in {"Cancelled", "Failed"} => item.support = "Supported",
         item.status = "Unsupported" => item.script = NoScript
  PROVE  /\ Verdict(item, highUnknown) \in Verdicts
         /\ item.status # "Completed" => Verdict(item, highUnknown) = "Reject"
         /\ Verdict(item, highUnknown) = "Allow" =>
              item.finalValid /\ item.support = "Supported" /\ item.interactive = "Satisfied"
  BY DEF Verdict, Verdicts

\* What is recorded of a run.
LEMMA ItemEarned ==
  ASSUME NEW golden, golden.prompt \in Instructions,
         result.kind = "unsupported" => result.script = NoScript
  PROVE  LET r == Item(golden)
         IN  /\ r.verdict \in Verdicts
             /\ r.status # "Completed" => r.verdict = "Reject"
             /\ r.verdict = "Allow" =>
                  /\ Compiles(r.script) /\ Assess(golden.prompt.operations) = "Supported"
                  /\ Asked[golden.prompt] # <<>>
                  /\ \A k \in DOMAIN Asked[golden.prompt] :
                       Outcome(Asked[golden.prompt][k], FactsOf[r.script]) = "Satisfied"
  <1> DEFINE prompt == golden.prompt
             s == result.script
             finalValid == s # NoScript /\ Compiles(s)
             failed == Status \in {"Failed", "Cancelled"}
             support == IF failed THEN "Supported" ELSE Assess(prompt.operations)
             interactive == IF finalValid THEN Interactive[prompt][s] ELSE "NotEvaluated"
             highUnknown == Has(Asked[prompt], LAMBDA c : c.typed = FALSE /\ c.confidence = "High")
             item == [status |-> Status, script |-> s, finalValid |-> finalValid,
                      support |-> support, interactive |-> interactive]
             r == Item(golden)
  <1>1. r.status = Status /\ r.script = s /\ r.verdict = Verdict(item, highUnknown)
    BY DEF Item
  <1>2. /\ Status \in {"Completed", "Unsupported", "Cancelled", "Failed"}
        /\ Status = "Unsupported" => s = NoScript
    BY DEF Status
  <1>3. support \in {"Supported", "PartiallySupported", "Unsupported", "Uncertain"}
    BY Assessments
  <1>4. finalValid => Interactive[prompt][s] = Verify(Asked[prompt], FactsOf[s])
    BY DEF Interactive, Compiles
  <1>5. interactive \in {"Satisfied", "Violated", "Unknown", "NotEvaluated"}
    BY <1>4, Verifications
  <1>6. /\ item.status = Status /\ item.script = s /\ item.finalValid = finalValid
        /\ item.support = support /\ item.interactive = interactive
    OBVIOUS
  <1>7. failed => support = "Supported"
    OBVIOUS
  <1>8. /\ Verdict(item, highUnknown) \in Verdicts
        /\ Status # "Completed" => Verdict(item, highUnknown) = "Reject"
        /\ Verdict(item, highUnknown) = "Allow" =>
             finalValid /\ support = "Supported" /\ interactive = "Satisfied"
    <2> HIDE DEF item, highUnknown, support, interactive, finalValid, s
    <2>1. QED BY <1>2, <1>3, <1>5, <1>6, <1>7, AllowedVerdict
  <1>9. ASSUME r.verdict = "Allow"
        PROVE  /\ Compiles(s) /\ Assess(prompt.operations) = "Supported"
               /\ Asked[prompt] # <<>>
               /\ \A k \in DOMAIN Asked[prompt] :
                    Outcome(Asked[prompt][k], FactsOf[s]) = "Satisfied"
    <2>1. Verdict(item, highUnknown) = "Allow"
      BY <1>1, <1>9
    <2>2. finalValid /\ support = "Supported" /\ interactive = "Satisfied" /\ ~failed
      <3>1. Status = "Completed"
        BY <1>8, <2>1
      <3>2. QED BY <1>8, <2>1, <3>1
    <2>3. Verify(Asked[prompt], FactsOf[s]) = "Satisfied"
      BY <1>4, <2>2
    <2>4. QED BY <2>2, <2>3, Verifications
  <1>10. r.verdict \in Verdicts /\ (r.status # "Completed" => r.verdict = "Reject")
    BY <1>1, <1>8
  <1> HIDE DEF s, r
  <1>11. QED BY <1>1, <1>9, <1>10 DEF r

-----------------------------------------------------------------------------
(***************************************************************************)
(* The invariant of the report.  Runs are recorded only once the cases are *)
(* fixed, so that a place in the report stays the run it was recorded for. *)
(***************************************************************************)
IsList(v) == Len(v) \in Nat /\ v = [i \in 1..Len(v) |-> v[i]]

LEMMA AppendIsList ==
  ASSUME NEW v, NEW x, IsList(v)
  PROVE  /\ IsList(Append(v, x)) /\ DOMAIN v = 1..Len(v)
         /\ DOMAIN Append(v, x) = 1..(Len(v) + 1)
         /\ \A i \in 1..Len(v) : Append(v, x)[i] = v[i]
         /\ Append(v, x)[Len(v) + 1] = x
  <1> DEFINE S == {v[i] : i \in 1..Len(v)} \cup {x}
             w == Append(v, x)
  <1>1. Len(v) \in Nat /\ v \in [1..Len(v) -> S] /\ x \in S
    BY DEF IsList
  <1>2. v \in Seq(S)
    BY <1>1
  <1>3. /\ w \in Seq(S) /\ Len(w) = Len(v) + 1
        /\ \A i \in 1..Len(v) : w[i] = v[i]
        /\ w[Len(v) + 1] = x
    BY <1>1, <1>2
  <1> HIDE DEF w, S
  <1>4. DOMAIN w = 1..Len(w) /\ IsList(w)
    BY <1>3 DEF IsList
  <1>5. QED BY <1>1, <1>3, <1>4 DEF w

PreparedInv ==
  /\ plan \in Plans
  /\ IsList(report)
  /\ stage \in {"dataset", "corpus", "models"} => report = <<>>
  /\ stage \in {"corpus", "models", "next", "session", "write"} =>
       cases \in Seq(DOMAIN Golds) /\ cases # <<>>

ReportInv == ObserverInv /\ PreparedInv /\ AllowIsEarned

\* The case of a run is one of the dataset's, and so is its instruction.
LEMMA CurrentKnown ==
  ASSUME ReportInv, stage = "session"
  PROVE  Current.entry \in DOMAIN Golds
  <1> DEFINE n == Len(report)  c == Len(cases)
  <1>1. n \in Nat /\ c \in Nat /\ c > 0 /\ cases \in Seq(DOMAIN Golds)
    BY DEF ReportInv, PreparedInv, IsList
  <1>2. Current.entry = cases[((n + 1 - 1) % c) + 1]
    BY DEF Current, RunAt
  <1> HIDE DEF n, c
  <1>3. ((n + 1 - 1) % c) + 1 \in 1..c
    BY <1>1
  <1>4. QED BY <1>1, <1>2, <1>3 DEF c

LEMMA GoldenKnown ==
  ASSUME ReportInv, stage = "session"
  PROVE  Golden.prompt \in Instructions
  <1>1. Current.entry \in DOMAIN Golds /\ plan.dataset \in DOMAIN Datasets
    BY CurrentKnown DEF ReportInv, PreparedInv
  <1>2. QED BY <1>1 DEF Golden, Golds, Instructions

LEMMA ReportUnchanged ==
  ASSUME ReportInv, ObserverInv', UNCHANGED <<plan, cases, report>>,
         stage' \in {"corpus", "models", "next", "session", "write"} =>
           \/ stage' = stage
           \/ stage \in {"corpus", "models", "next", "session", "write"},
         stage' \in {"dataset", "corpus", "models"} =>
           stage \in {"dataset", "corpus", "models"}
  PROVE  ReportInv'
  <1>1. PreparedInv'
    BY DEF ReportInv, PreparedInv, Golds
  <1>2. AllowIsEarned'
    BY DEF ReportInv, AllowIsEarned, Golds, RunAt
  <1>3. QED BY <1>1, <1>2 DEF ReportInv

LEMMA FinishEarned ==
  ASSUME ReportInv, ObserverInv', FinishRun
  PROVE  ReportInv'
  <1> DEFINE item == Item(Golden)  n == Len(report)
  <1>1. /\ stage = "session" /\ report' = Append(report, item)
        /\ UNCHANGED <<plan, cases>> /\ stage' \in {"write", "exited", "next"}
    BY DEF FinishRun, Enter, Leave
  <1>2. Golden.prompt \in Instructions
    BY <1>1, GoldenKnown
  <1>3. result.kind = "unsupported" => result.script = NoScript
    BY DEF ReportInv, ObserverInv, TypesInv
  <1>4. LET prompt == Golden.prompt
        IN  /\ item.status # "Completed" => item.verdict = "Reject"
            /\ item.verdict = "Allow" =>
                 /\ Compiles(item.script) /\ Assess(prompt.operations) = "Supported"
                 /\ Asked[prompt] # <<>>
                 /\ \A k \in DOMAIN Asked[prompt] :
                      Outcome(Asked[prompt][k], FactsOf[item.script]) = "Satisfied"
    BY <1>2, <1>3, ItemEarned
  <1>5. Golden = Golds[RunAt(n + 1).entry]
    BY DEF Golden, Current
  <1> HIDE DEF item
  <1>6. /\ IsList(report') /\ DOMAIN report = 1..n /\ DOMAIN report' = 1..(n + 1)
        /\ \A i \in 1..n : report'[i] = report[i]
        /\ report'[n + 1] = item /\ n \in Nat
    BY <1>1, AppendIsList DEF ReportInv, PreparedInv, IsList
  <1>7. PreparedInv'
    BY <1>1, <1>6 DEF ReportInv, PreparedInv, Golds
  <1>8. Golds' = Golds /\ \A i : RunAt(i)' = RunAt(i)
    BY <1>1 DEF Golds, RunAt
  <1> HIDE DEF n
  <1>9. ASSUME NEW i \in DOMAIN report', i # n + 1
        PROVE  i \in DOMAIN report /\ report'[i] = report[i]
    BY <1>6, <1>9
  <1> DEFINE Earned(r, prompt) ==
        /\ r.status # "Completed" => r.verdict = "Reject"
        /\ r.verdict = "Allow" =>
             /\ Compiles(r.script) /\ Assess(prompt.operations) = "Supported"
             /\ Asked[prompt] # <<>>
             /\ \A k \in DOMAIN Asked[prompt] :
                  Outcome(Asked[prompt][k], FactsOf[r.script]) = "Satisfied"
  <1>10. \A i \in DOMAIN report : Earned(report[i], Golds[RunAt(i).entry].prompt)
    BY DEF ReportInv, AllowIsEarned
  <1>11. Earned(item, Golds[RunAt(n + 1).entry].prompt)
    BY <1>4, <1>5
  <1>12. (\A i \in DOMAIN report' : Earned(report'[i], Golds[RunAt(i).entry].prompt))
            => AllowIsEarned'
    BY <1>8 DEF AllowIsEarned
  <1> HIDE DEF Earned
  <1>13. ASSUME NEW i \in DOMAIN report'
         PROVE  Earned(report'[i], Golds[RunAt(i).entry].prompt)
    <2>1. CASE i = n + 1
      BY <1>6, <1>11, <2>1, Zenon
    <2>2. CASE i # n + 1
      BY <1>9, <1>10, <2>2, Zenon
    <2>3. QED BY <2>1, <2>2
  <1>14. AllowIsEarned'
    BY <1>12, <1>13
  <1>15. QED BY <1>7, <1>14 DEF ReportInv

LEMMA ReportStep == ReportInv /\ [Next]_allVars => ReportInv'
  <1> SUFFICES ASSUME ReportInv, [Next]_allVars PROVE ReportInv'
    OBVIOUS
  <1>0. ObserverInv'
    BY ObserverStep DEF ReportInv
  <1>1. CASE LoadDataset
    <2>1. /\ stage = "dataset" /\ cases' = Chosen(plan) /\ UNCHANGED <<plan, report>>
          /\ \/ stage' = "exited"
             \/ /\ stage' \in {"corpus", "models"} /\ cases' # <<>>
                /\ ~Diagnosed(Datasets[plan.dataset])
      BY <1>1 DEF LoadDataset, Leave, Enter
    <2>2. plan \in Plans /\ report = <<>> /\ IsList(report)
      BY <2>1 DEF ReportInv, PreparedInv
    <2>3. stage' \in {"corpus", "models"} => cases' \in Seq(DOMAIN Golds')
      BY <2>1, <2>2, ChosenAreListed DEF Golds
    <2>4. PreparedInv'
      BY <2>1, <2>2, <2>3 DEF PreparedInv
    <2>5. DOMAIN report' = {}
      BY <2>1, <2>2
    <2>6. QED BY <1>0, <2>4, <2>5 DEF ReportInv, AllowIsEarned
  <1>2. CASE LoadCorpus \/ QueryModels \/ StartRun \/ RevalidationThrows \/ WriteReport
    BY <1>0, <1>2, ReportUnchanged
    DEF LoadCorpus, QueryModels, StartRun, RevalidationThrows, WriteReport, Leave, Enter
  <1>3. CASE Assessed \/ Converse \/ ProviderReturns \/ RequestStop
    BY <1>0, <1>3, ReportUnchanged
    DEF Assessed, Converse, ProviderReturns, RequestStop, evaluation
  <1>4. CASE FinishRun
    BY <1>0, <1>4, FinishEarned
  <1>5. CASE UNCHANGED allVars
    BY <1>0, <1>5, ReportUnchanged DEF allVars, evaluation
  <1>6. QED
    BY <1>1, <1>2, <1>3, <1>4, <1>5 DEF Next, EvaluationStep

LEMMA ReportInit == Init => ReportInv
  <1> SUFFICES ASSUME Init PROVE ReportInv
    OBVIOUS
  <1>1. report = <<>> /\ plan \in Plans /\ DOMAIN report = {}
    BY DEF Init
  <1>2. IsList(report)
    BY <1>1 DEF IsList
  <1>3. /\ stage \in {"dataset", "next"}
        /\ stage = "next" => plan.caller # "ai_eval" /\ cases = Chosen(plan)
    BY DEF Init
  <1>4. stage = "next" => cases \in Seq(DOMAIN Golds) /\ cases # <<>>
    BY <1>1, <1>3, ChosenAreListed DEF Golds
  <1>5. PreparedInv
    BY <1>1, <1>2, <1>3, <1>4 DEF PreparedInv
  <1>6. QED BY <1>1, <1>5, ObserverInit DEF ReportInv, AllowIsEarned

\* For every dataset, plan and provider: an Allow in the report says that the
\* session completed with a script that compiles, that the whole request is
\* supported, and that every clause of it was checked and holds of the program;
\* a run that failed or was cancelled is always rejected (evaluation.cpp:303-368).
THEOREM AllowsAreEarned == Spec => []AllowIsEarned
  <1>1. ReportInv => AllowIsEarned
    BY DEF ReportInv
  <1>2. QED BY <1>1, ReportInit, ReportStep, PTL DEF Spec

-----------------------------------------------------------------------------
(***************************************************************************)
(* The two judgements of a script.  A selector of a loaded case points at  *)
(* something in the expected program, and a program that means the same    *)
(* has it too.                                                             *)
(***************************************************************************)
\* The facts of a program, as far as they are lists.
LEMMA FactLists ==
  ASSUME NEW s \in DOMAIN Programs
  PROVE  LET f == FactsOf[s]
         IN  /\ \E n \in Nat : DOMAIN f.sweeps = 1..n
             /\ \E n \in Nat : DOMAIN f.measurements = 1..n
             /\ \E n \in Nat : DOMAIN f.assertions = 1..n
  <1> DEFINE p == Programs[s]
  <1>1. /\ FactsOf[s].sweeps = p.sweeps /\ FactsOf[s].measurements = p.measurements
        /\ DOMAIN FactsOf[s].assertions = DOMAIN p.assertions
    BY DEF FactsOf, Facts
  <1>2. ASSUME NEW q, q \in Seq(Range(q)) PROVE \E n \in Nat : DOMAIN q = 1..n
    BY <1>2
  <1>3. /\ p.sweeps \in Seq(Range(p.sweeps)) /\ p.measurements \in Seq(Range(p.measurements))
        /\ p.assertions \in Seq(Range(p.assertions))
    BY ProgramsAssumption
  <1> HIDE DEF p
  <1>4. QED BY <1>1, <1>2, <1>3, Zenon

LEMMA SelectedIsFirst ==
  ASSUME NEW selector, NEW s \in DOMAIN Programs, Selected(selector, FactsOf[s]) # {},
         selector.kind \in {"Sweep", "Measurement", "Assertion"}
  PROVE  At(selector, FactsOf[s]) \in Selected(selector, FactsOf[s])
  <1> DEFINE f == FactsOf[s]  S == Selected(selector, f)
  <1>1. \E m \in Nat : S \in SUBSET (1..m)
    <2>1. /\ \E n \in Nat : DOMAIN f.sweeps = 1..n
          /\ \E n \in Nat : DOMAIN f.measurements = 1..n
          /\ \E n \in Nat : DOMAIN f.assertions = 1..n
      BY FactLists
    <2>2. \/ S \in SUBSET (DOMAIN f.sweeps)
          \/ S \in SUBSET (DOMAIN f.measurements)
          \/ S \in SUBSET (DOMAIN f.assertions)
      BY DEF Selected
    <2> HIDE DEF S, f
    <2>3. QED BY <2>1, <2>2
  <1>2. At(selector, f) = CHOOSE k \in S : \A j \in S : k <= j
    BY Zenon DEF At
  <1> HIDE DEF S, f
  <1>3. (CHOOSE k \in S : \A j \in S : k <= j) \in S
    BY <1>1, LeastOf DEF S, f
  <1>4. QED BY <1>2, <1>3 DEF S, f

\* A program that means what the expected one means satisfies the clause made
\* of it; a name it may satisfy only if it is the expected program.
LEMMA ClauseMet ==
  ASSUME NEW selector, NEW s \in DOMAIN Programs, NEW t \in DOMAIN Programs,
         selector.kind \in RequirementKinds, Selected(selector, FactsOf[s]) # {},
         SameSemantics(FactsOf[s], FactsOf[t]),
         s = t \/ "name" \notin ClauseFor(selector, FactsOf[s]).constrain
  PROVE  Outcome(ClauseFor(selector, FactsOf[s]), FactsOf[t]) = "Satisfied"
  <1> DEFINE f == FactsOf[s]  g == FactsOf[t]  c == ClauseFor(selector, f)
             at == At(selector, f)
  <1>0. /\ f.reference = g.reference /\ f.sweeps = g.sweeps
        /\ f.indexes = g.indexes /\ f.correction = g.correction
    BY DEF SameSemantics
  <1>1. CASE selector.kind = "ReferencePower"
    <2>1. c.typed /\ c.kind = "ReferencePower" /\ c.want = f.reference
      BY <1>1 DEF ClauseFor, Clause
    <2> HIDE DEF c, f, g
    <2>2. QED BY <1>0, <2>1 DEF Outcome, c, f, g
  <1>2. CASE selector.kind = "Sweep"
    <2>1. /\ c.typed /\ c.kind = "Sweep"
          /\ c.want = [sweep |-> f.sweeps[at], dimension |-> selector.of, order |-> at]
      BY <1>2 DEF ClauseFor, Clause
    <2>2. /\ Selected(selector, f) = {k \in DOMAIN f.sweeps : f.sweeps[k].dimension = selector.of}
      BY <1>2 DEF Selected
    <2>3. at = CHOOSE k \in Selected(selector, f) : \A j \in Selected(selector, f) : k <= j
      BY Zenon DEF At
    <2>4. SweepHolds(c, g)
      <3> DEFINE w == c.want
      <3>1. /\ w.sweep = f.sweeps[at] /\ w.dimension = selector.of /\ w.order = at
        BY <2>1
      <3> HIDE DEF w, at, f, g
      <3> DEFINE of == {k \in DOMAIN g.sweeps : g.sweeps[k].dimension = w.dimension}
      <3>2. of = Selected(selector, f)
        BY <1>0, <2>2, <3>1
      <3>3. of # {} /\ at = (CHOOSE k \in of : \A j \in of : k <= j)
        BY <2>3, <3>2 DEF f
      <3>4. g.sweeps[at] = w.sweep
        BY <1>0, <3>1
      <3> HIDE DEF c, of
      <3>5. SweepHolds(c, g)
        BY <3>1, <3>3, <3>4 DEF SweepHolds, w, of
      <3>6. QED BY <3>5
    <2> HIDE DEF c, f, g
    <2>5. QED BY <2>1, <2>4 DEF Outcome, c, f, g
  <1>3. CASE selector.kind = "Measurement"
    <2>1. /\ c.typed /\ c.kind = "Measurement" /\ c.want = f.measurements[at]
      BY <1>3 DEF ClauseFor, Clause
    <2>2. Selected(selector, f) = {k \in DOMAIN f.measurements : f.measurements[k].op = selector.of}
      BY <1>3 DEF Selected
    <2>3. at \in DOMAIN f.measurements /\ f.measurements[at].op = selector.of
      BY <1>3, <2>2, SelectedIsFirst
    <2>4. \E k \in DOMAIN g.measurements : g.measurements[k].op = selector.of
      <3> DEFINE a == [k \in DOMAIN f.measurements |-> f.measurements[k].op]
                 b == [k \in DOMAIN g.measurements |-> g.measurements[k].op]
                 bag(q) == [x \in Range(q) |-> Cardinality({k \in DOMAIN q : q[k] = x})]
      <3>1. bag(a) = bag(b)
        BY DEF SameSemantics
      <3>2. DOMAIN bag(a) = Range(a) /\ DOMAIN bag(b) = Range(b)
        OBVIOUS
      <3> HIDE DEF bag
      <3>3. Range(a) = Range(b)
        BY <3>1, <3>2
      <3>4. selector.of \in Range(a)
        BY <2>3 DEF Range
      <3>5. QED BY <3>3, <3>4 DEF Range
    <2>5. MeasurementHolds(c, g)
      <3> DEFINE of == {k \in DOMAIN g.measurements : g.measurements[k].op = c.want.op}
                 k == CHOOSE k \in of : \A j \in of : k <= j
      <3>1. c.want.op = selector.of
        BY <2>1, <2>3
      <3>2. of # {}
        BY <2>4, <3>1
      <3>3. "name" \in c.constrain => g.measurements[k].name = c.want.name
        <4>1. SUFFICES ASSUME f = g PROVE g.measurements[k] = c.want
          OBVIOUS
        <4>2. of = Selected(selector, f)
          BY <2>2, <3>1, <4>1
        <4>3. k = at
          BY <4>2, Zenon DEF At
        <4>4. QED BY <2>1, <4>1, <4>3
      <3> HIDE DEF c, f, g
      <3>4. QED BY <3>2, <3>3 DEF MeasurementHolds
    <2> HIDE DEF c, f, g
    <2>6. QED BY <2>1, <2>5 DEF Outcome, c, f, g
  <1>4. CASE selector.kind = "Assertion"
    <2>1. /\ c.typed /\ c.kind = "Assertion" /\ c.want = f.assertions[at]
          /\ c.constrain = {"left"}
      BY <1>4 DEF ClauseFor, Clause
    <2>2. at \in DOMAIN f.assertions
      <3>1. Selected(selector, f) \subseteq DOMAIN f.assertions
        BY <1>4 DEF Selected
      <3>2. at \in Selected(selector, f)
        BY <1>4, SelectedIsFirst
      <3> HIDE DEF at, f
      <3>3. QED BY <3>1, <3>2
    <2>3. \E k \in DOMAIN g.assertions : g.assertions[k] = f.assertions[at]
      <3> DEFINE a == f.assertions
                 b == g.assertions
                 bag(q) == [x \in Range(q) |-> Cardinality({k \in DOMAIN q : q[k] = x})]
      <3>1. bag(a) = bag(b)
        BY DEF SameSemantics
      <3>2. DOMAIN bag(a) = Range(a) /\ DOMAIN bag(b) = Range(b)
        OBVIOUS
      <3> HIDE DEF bag
      <3>3. Range(a) = Range(b)
        BY <3>1, <3>2
      <3>4. a[at] \in Range(a)
        BY <2>2 DEF Range
      <3> HIDE DEF a, b, at
      <3>5. \E k \in DOMAIN b : b[k] = a[at]
        BY <3>3, <3>4 DEF Range
      <3>6. QED BY <3>5 DEF a, b
    <2> HIDE DEF c, f, g, at
    <2>4. AssertionHolds(c, g)
      BY <2>1, <2>3 DEF AssertionHolds
    <2>5. QED BY <2>1, <2>4 DEF Outcome, c, f, g
  <1>5. CASE selector.kind = "Calibration"
    <2>1. /\ c.typed /\ c.kind = "Calibration"
          /\ c.want = [correction |-> f.correction, indexes |-> f.indexes]
      BY <1>5 DEF ClauseFor, Clause
    <2>2. /\ "relation" \notin DOMAIN c.want /\ c.want.correction = f.correction
          /\ c.want.indexes = f.indexes
      BY <2>1
    <2> HIDE DEF c, f, g
    <2>3. CalibrationHolds(c, g)
      BY <1>0, <2>2 DEF CalibrationHolds
    <2>4. QED BY <2>1, <2>3 DEF Outcome, c, f, g
  <1>6. QED BY <1>1, <1>2, <1>3, <1>4, <1>5 DEF RequirementKinds

\* What is not wrong with the directory of a loaded case.
LEMMA ExpectedCompiles ==
  ASSUME NEW d, NEW entry, DirectoryProblems(entry, d) = {}, d.expectedValid
  PROVE  /\ MetadataAccepted(d) /\ Compiles(d.expected)
         /\ \A k \in DOMAIN d.selectors : Selected(d.selectors[k], FactsOf[d.expected]) # {}
  <1>1. MetadataAccepted(d)
    BY DEF DirectoryProblems
  <1> DEFINE wrong(problem) ==
        CASE problem = "id" -> d.id # entry
          [] problem = "prompt" -> d.blank
          [] problem = "expected" -> d.expected = NoScript
          [] problem = "validity" ->
               d.expected # NoScript /\ d.expectedValid # Compiles(d.expected)
          [] problem = "selector" ->
               /\ d.expectedValid /\ Compiles(d.expected)
               /\ Has(d.selectors, LAMBDA s : Selected(s, FactsOf[d.expected]) = {})
  <1>2. \A problem \in {"id", "prompt", "expected", "validity", "selector"} : ~wrong(problem)
    <2>1. {problem \in {"id", "prompt", "expected", "validity", "selector"} :
             wrong(problem)} = {}
      BY <1>1, Zenon DEF DirectoryProblems
    <2> HIDE DEF wrong
    <2>2. QED BY <2>1
  <1>3. ~wrong("expected") /\ ~wrong("validity") /\ ~wrong("selector")
    BY <1>2
  <1>4. Compiles(d.expected)
    BY <1>3
  <1>5. QED BY <1>1, <1>3, <1>4 DEF Has

\* The requirements of a loaded case hold of every program that means what its
\* expected program means, names aside, and of the expected program.
LEMMA RequirementsMet ==
  ASSUME NEW d, NEW entry, DirectoryProblems(entry, d) = {},
         d.selectors \in Seq(Range(d.selectors)), d.expectedValid, NEW t \in DOMAIN Programs,
         SameSemantics(FactsOf[d.expected], FactsOf[t]),
         \/ t = d.expected
         \/ \A k \in DOMAIN Materialize(d) : "name" \notin Materialize(d)[k].constrain
  PROVE  Verify(Materialize(d), FactsOf[t]) =
           IF d.selectors = <<>> THEN "NotEvaluated" ELSE "Satisfied"
  <1> DEFINE s == d.expected  m == Materialize(d)  f == FactsOf[s]  g == FactsOf[t]
  <1>1. /\ MetadataAccepted(d) /\ Compiles(s)
        /\ \A k \in DOMAIN d.selectors : Selected(d.selectors[k], f) # {}
    BY ExpectedCompiles
  <1>2. /\ DOMAIN m = DOMAIN d.selectors
        /\ \A k \in DOMAIN m : m[k] = ClauseFor(d.selectors[k], f)
    BY <1>1 DEF Materialize
  <1>3. ASSUME NEW k \in DOMAIN m PROVE Outcome(m[k], g) = "Satisfied"
    <2>1. /\ d.selectors[k].kind \in RequirementKinds
          /\ Selected(d.selectors[k], f) # {}
      BY <1>1, <1>2 DEF MetadataAccepted
    <2>2. s \in DOMAIN Programs
      BY <1>1 DEF Compiles
    <2>3. s = t \/ "name" \notin ClauseFor(d.selectors[k], f).constrain
      BY <1>2
    <2> DEFINE x == d.selectors[k]
    <2> HIDE DEF m, s, x
    <2>4. Outcome(ClauseFor(x, FactsOf[s]), FactsOf[t]) = "Satisfied"
      BY <2>1, <2>2, <2>3, ClauseMet DEF x, s
    <2>5. QED BY <1>2, <2>4 DEF x
  <1>4. CASE d.selectors = <<>>
    <2>1. m = <<>>
      BY <1>1, <1>4 DEF Materialize
    <2>2. QED BY <1>4, <2>1 DEF Verify
  <1>5. CASE d.selectors # <<>>
    <2>1. m # <<>>
      <3>1. DOMAIN d.selectors # {}
        <4>1. ASSUME NEW S, NEW q \in Seq(S), q # <<>> PROVE DOMAIN q # {}
          <5>1. Len(q) # 0 /\ Len(q) \in Nat /\ DOMAIN q = 1..Len(q)
            BY <4>1
          <5>2. 1 \in DOMAIN q
            BY <5>1
          <5>3. QED BY <5>2
        <4>2. QED BY <1>5, <4>1
      <3> HIDE DEF m
      <3>2. QED BY <1>2, <3>1
    <2> HIDE DEF m, g
    <2>2. QED BY <1>3, <1>5, <2>1 DEF Verify, m, g
  <1>6. QED BY <1>4, <1>5

-----------------------------------------------------------------------------
(***************************************************************************)
(* The judgements in the report.  Nothing is run before the dataset is     *)
(* loaded, and a dataset that is loaded has nothing wrong with it.         *)
(***************************************************************************)
Loaded == ~Diagnosed(Datasets[plan.dataset])

MatchMeets ==
  \A n \in DOMAIN report :
    report[n].semantic = "Match" =>
      \/ report[n].requirement \in {"Satisfied", "NotEvaluated"}
      \/ \E c \in DOMAIN Golds :
           /\ Golds[c].id = report[n].case
           /\ Has(Materialize(Golds[c]), LAMBDA r : "name" \in r.constrain)

MatchInv ==
  /\ ReportInv
  /\ stage \in {"corpus", "models", "next", "session", "write"} \/ report # <<>> => Loaded
  /\ MatchMeets

LEMMA LoadedCases ==
  ASSUME NEW p \in Plans, ~Diagnosed(Datasets[p.dataset]),
         NEW c \in DOMAIN Datasets[p.dataset].disk
  PROVE  LET d == Datasets[p.dataset].disk[c]
         IN  DirectoryProblems(c, d) = {} /\ d.selectors \in Seq(Range(d.selectors))
  BY DEF Diagnosed

LEMMA SameAsItself ==
  ASSUME NEW f PROVE SameSemantics(f, f)
  BY DEF SameSemantics

\* What is recorded of a run.
LEMMA ItemMatches ==
  ASSUME MatchInv, stage = "session", Item(Golden).semantic = "Match"
  PROVE  \/ Item(Golden).requirement \in {"Satisfied", "NotEvaluated"}
         \/ \E c \in DOMAIN Golds :
              /\ Golds[c].id = Item(Golden).case
              /\ Has(Materialize(Golds[c]), LAMBDA r : "name" \in r.constrain)
  <1> DEFINE s == result.script  e == Current.entry
             judged == IF s # NoScript /\ Compiles(s) THEN GoldenVerdict[plan.dataset][e][s]
                       ELSE [semantic |-> "NotEvaluated", requirement |-> "NotEvaluated"]
  <1>1. /\ Item(Golden).semantic = judged.semantic
        /\ Item(Golden).requirement = judged.requirement /\ Item(Golden).case = Golden.id
    BY DEF Item
  <1>2. s \in DOMAIN Programs /\ judged = GoldenVerdict[plan.dataset][e][s]
    BY <1>1 DEF Compiles
  <1>3. Golden = Golds[e] /\ e \in DOMAIN Golds /\ Loaded /\ plan \in Plans
    BY CurrentKnown DEF MatchInv, ReportInv, PreparedInv, Golden
  <1>4. plan.dataset \in Loadable /\ Golds = Datasets[plan.dataset].disk
    BY <1>3 DEF Loadable, Loaded, Golds
  <1>5. GoldenVerdict[plan.dataset][e][s] =
          IF ~Golden.expectedValid
          THEN [semantic |-> "NotEvaluated", requirement |-> "NotEvaluated"]
          ELSE [semantic |-> IF SameSemantics(FactsOf[Golden.expected], FactsOf[s])
                             THEN "Match" ELSE "Mismatch",
                requirement |-> Verify(Materialize(Golden), FactsOf[s])]
    BY <1>2, <1>3, <1>4 DEF GoldenVerdict
  <1>6. /\ Golden.expectedValid /\ SameSemantics(FactsOf[Golden.expected], FactsOf[s])
        /\ Item(Golden).requirement = Verify(Materialize(Golden), FactsOf[s])
    BY <1>1, <1>2, <1>5
  <1>7. CASE Has(Materialize(Golden), LAMBDA r : "name" \in r.constrain)
    BY <1>1, <1>3, <1>7
  <1>8. CASE ~Has(Materialize(Golden), LAMBDA r : "name" \in r.constrain)
    <2> DEFINE d == Golden
    <2>1. DirectoryProblems(e, d) = {} /\ d.selectors \in Seq(Range(d.selectors))
      BY <1>3, <1>4, LoadedCases DEF Loaded
    <2>2. \A k \in DOMAIN Materialize(d) : "name" \notin Materialize(d)[k].constrain
      BY <1>8 DEF Has
    <2> HIDE DEF d, s, e
    <2>3. Verify(Materialize(d), FactsOf[s]) =
            IF d.selectors = <<>> THEN "NotEvaluated" ELSE "Satisfied"
      BY <1>2, <1>6, <2>1, <2>2, RequirementsMet DEF d
    <2>4. QED BY <1>6, <2>3 DEF d
  <1>9. QED BY <1>7, <1>8

LEMMA MatchUnchanged ==
  ASSUME MatchInv, ReportInv', UNCHANGED <<plan, report>>,
         stage' \in {"corpus", "models", "next", "session", "write"} =>
           stage \in {"corpus", "models", "next", "session", "write"}
  PROVE  MatchInv'
  <1>1. Golds' = Golds
    BY DEF Golds
  <1>2. MatchMeets'
    BY <1>1 DEF MatchInv, MatchMeets, Has
  <1>3. QED BY <1>2 DEF MatchInv, Loaded

LEMMA FinishMatches ==
  ASSUME MatchInv, ReportInv', FinishRun
  PROVE  MatchInv'
  <1> DEFINE item == Item(Golden)  n == Len(report)
  <1>1. stage = "session" /\ report' = Append(report, item) /\ plan' = plan
    BY DEF FinishRun
  <1>2. item.semantic = "Match" =>
          \/ item.requirement \in {"Satisfied", "NotEvaluated"}
          \/ \E c \in DOMAIN Golds :
               /\ Golds[c].id = item.case
               /\ Has(Materialize(Golds[c]), LAMBDA r : "name" \in r.constrain)
    BY <1>1, ItemMatches
  <1> HIDE DEF item
  <1>3. /\ DOMAIN report = 1..n /\ DOMAIN report' = 1..(n + 1)
        /\ \A i \in 1..n : report'[i] = report[i]
        /\ report'[n + 1] = item /\ n \in Nat
    BY <1>1, AppendIsList DEF MatchInv, ReportInv, PreparedInv, IsList
  <1>4. Golds' = Golds /\ Loaded /\ Loaded'
    BY <1>1 DEF Golds, MatchInv, Loaded
  <1> DEFINE Meets(r) ==
        r.semantic = "Match" =>
          \/ r.requirement \in {"Satisfied", "NotEvaluated"}
          \/ \E c \in DOMAIN Golds :
               /\ Golds[c].id = r.case
               /\ Has(Materialize(Golds[c]), LAMBDA x : "name" \in x.constrain)
  <1>5. (\A i \in DOMAIN report : Meets(report[i])) /\ Meets(item)
    BY <1>2 DEF MatchInv, MatchMeets
  <1>6. (\A i \in DOMAIN report' : Meets(report'[i])) => MatchMeets'
    BY <1>4 DEF MatchMeets, Has
  <1> HIDE DEF Meets, n
  <1>7. ASSUME NEW i \in DOMAIN report' PROVE Meets(report'[i])
    <2>1. CASE i = n + 1
      BY <1>3, <1>5, <2>1
    <2>2. CASE i # n + 1
      <3>1. i \in 1..n
        BY <1>3, <2>2
      <3>2. QED BY <1>3, <1>5, <3>1
    <2>3. QED BY <2>1, <2>2
  <1>8. QED BY <1>4, <1>6, <1>7 DEF MatchInv

LEMMA MatchStep == MatchInv /\ [Next]_allVars => MatchInv'
  <1> SUFFICES ASSUME MatchInv, [Next]_allVars PROVE MatchInv'
    OBVIOUS
  <1>0. ReportInv'
    BY ReportStep DEF MatchInv
  <1>1. CASE LoadDataset
    <2>1. /\ UNCHANGED <<plan, report>> /\ report = <<>>
          /\ stage' \in {"corpus", "models"} => Loaded'
          /\ stage' \in {"corpus", "models", "exited"}
      BY <1>1 DEF LoadDataset, Leave, Enter, Loaded, MatchInv, ReportInv, PreparedInv
    <2>2. DOMAIN report' = {}
      BY <2>1
    <2>3. QED BY <1>0, <2>1, <2>2 DEF MatchInv, MatchMeets
  <1>2. CASE LoadCorpus \/ QueryModels \/ StartRun \/ RevalidationThrows \/ WriteReport
    BY <1>0, <1>2, MatchUnchanged
    DEF LoadCorpus, QueryModels, StartRun, RevalidationThrows, WriteReport, Leave, Enter
  <1>3. CASE Assessed \/ Converse \/ ProviderReturns \/ RequestStop
    BY <1>0, <1>3, MatchUnchanged
    DEF Assessed, Converse, ProviderReturns, RequestStop, evaluation
  <1>4. CASE FinishRun
    BY <1>0, <1>4, FinishMatches
  <1>5. CASE UNCHANGED allVars
    BY <1>0, <1>5, MatchUnchanged DEF allVars, evaluation
  <1>6. QED
    BY <1>1, <1>2, <1>3, <1>4, <1>5 DEF Next, EvaluationStep

LEMMA MatchInit == Init => MatchInv
  <1> SUFFICES ASSUME Init PROVE MatchInv
    OBVIOUS
  <1>1. report = <<>> /\ plan \in Plans /\ DOMAIN report = {}
    BY DEF Init
  <1>2. /\ stage \in {"dataset", "next"}
        /\ stage = "next" => plan.caller # "ai_eval"
    BY DEF Init
  <1>3. stage = "next" => Loaded
    BY <1>1, <1>2 DEF Loaded
  <1>4. QED BY <1>1, <1>2, <1>3, ReportInit DEF MatchInv, MatchMeets

\* For every dataset and whatever the models answer: a script that means what the
\* expected program means meets the requirements taken from that program, unless
\* one asks for a name, and the expected program meets them all
\* (golden_dataset.cpp:502-545, semantic_comparison.cpp:199-262).
THEOREM MatchesMeetRequirements == Spec => []MatchMeetsRequirements
  <1>1. MatchInv => MatchMeetsRequirements
    <2> SUFFICES ASSUME MatchInv PROVE MatchMeetsRequirements
      OBVIOUS
    <2>1. ASSUME NEW n \in DOMAIN report, NEW c \in DOMAIN Golds,
                 Golds[c].expectedValid, Golds[c].selectors # <<>>
          PROVE  Verify(Materialize(Golds[c]), FactsOf[Golds[c].expected]) = "Satisfied"
      <3> DEFINE d == Golds[c]
      <3>1. report # <<>>
        BY <2>1
      <3>2. Loaded /\ plan \in Plans
        BY <3>1 DEF MatchInv, ReportInv, PreparedInv
      <3>3. DirectoryProblems(c, d) = {} /\ d.selectors \in Seq(Range(d.selectors))
        BY <2>1, <3>2, LoadedCases DEF Loaded, Golds
      <3>4. d.expected \in DOMAIN Programs
        BY <2>1, <3>3, ExpectedCompiles DEF Compiles
      <3> HIDE DEF d
      <3>5. Verify(Materialize(d), FactsOf[d.expected]) =
              IF d.selectors = <<>> THEN "NotEvaluated" ELSE "Satisfied"
        BY <2>1, <3>3, <3>4, SameAsItself, RequirementsMet DEF d
      <3>6. QED BY <2>1, <3>5 DEF d
    <2>2. QED BY <2>1 DEF MatchInv, MatchMeets, MatchMeetsRequirements
  <1>2. QED BY <1>1, MatchInit, MatchStep, PTL DEF Spec

-----------------------------------------------------------------------------
\* During a run, what was retrieved for it is what its first prompt holds.
RetrievalInv ==
  /\ ReportInv
  /\ stage = "session" => retrieved = Retrieved[plan][Golden.prompt]

LEMMA RetrievalStep == RetrievalInv /\ [Next]_allVars => RetrievalInv'
  <1> SUFFICES ASSUME RetrievalInv, [Next]_allVars PROVE RetrievalInv'
    OBVIOUS
  <1>0. ReportInv'
    BY ReportStep DEF RetrievalInv
  <1>1. CASE StartRun
    <2>1. retrieved' = Retrieved[plan][Golden.prompt] /\ UNCHANGED <<plan, cases, report>>
      BY <1>1 DEF StartRun
    <2>2. Golden' = Golden
      BY <2>1 DEF Golden, Golds, Current, RunAt
    <2>3. Retrieved' = Retrieved
      BY DEF Retrieved
    <2>4. QED BY <1>0, <2>1, <2>2, <2>3 DEF RetrievalInv
  <1>2. CASE LoadDataset \/ LoadCorpus \/ QueryModels \/ RevalidationThrows \/ FinishRun
             \/ WriteReport
    <2>1. stage' # "session"
      BY <1>2 DEF LoadDataset, LoadCorpus, QueryModels, RevalidationThrows, FinishRun,
                  WriteReport, Leave, Enter
    <2>2. QED BY <1>0, <2>1 DEF RetrievalInv
  <1>3. CASE Assessed \/ Converse \/ ProviderReturns \/ RequestStop \/ UNCHANGED allVars
    <2>1. UNCHANGED <<plan, cases, report, stage, retrieved>>
      BY <1>3 DEF Assessed, Converse, ProviderReturns, RequestStop, evaluation, allVars
    <2>2. Golden' = Golden
      BY <2>1 DEF Golden, Golds, Current, RunAt
    <2>3. Retrieved' = Retrieved
      BY DEF Retrieved
    <2>4. QED BY <1>0, <2>1, <2>2, <2>3 DEF RetrievalInv
  <1>4. QED BY <1>1, <1>2, <1>3 DEF Next, EvaluationStep

\* For every corpus, query, limit and budget: what goes into a prompt fits the
\* budget and the limit and repeats nothing, and each example that ranked was put
\* in, suppressed or rejected, unless the limit was reached; nothing rejected was
\* put in (retrieval.cpp:1011-1046).
THEOREM RetrievalFits == Spec => []RetrievalWithinBudget
  <1>1. RetrievalInv => RetrievalWithinBudget
    <2> SUFFICES ASSUME RetrievalInv, stage = "session", retrieved.selected # <<>>
                 PROVE  RetrievalWithinBudget
      BY DEF RetrievalWithinBudget
    <2> DEFINE i == Golden.prompt  q == Queries[i]  settings == plan.retrieval
    <2>1. i \in Instructions /\ plan \in Plans /\ plan.corpus \in DOMAIN Corpora
      BY GoldenKnown, CorporaAssumption DEF RetrievalInv, ReportInv, PreparedInv
    <2>2. retrieved = Retrieve(q, Examples, settings)
      <3>1. \A reason : NothingRetrieved(reason).selected = <<>>
        BY DEF NothingRetrieved
      <3>2. retrieved = IF ~plan.structural THEN NothingRetrieved("none")
                        ELSE IF plan.caller = "host" /\ Examples = <<>>
                        THEN NothingRetrieved("RetrieverUnavailable")
                        ELSE Retrieve(q, Examples, settings)
        BY <2>1 DEF RetrievalInv, Retrieved, Examples
      <3>3. QED BY <3>1, <3>2
    <2>3. /\ Examples \in Seq(Range(Examples))
          /\ \A e \in DOMAIN Examples :
               Examples[e].bytes \in Nat /\ Score(q, Examples[e]) \in Int
          /\ settings.topK \in Nat /\ settings.budget \in Nat
      BY <2>1, CorporaAssumption DEF Examples
    <2> HIDE DEF q, settings
    <2>4. /\ Fits(Examples, settings, retrieved)
          /\ \A e \in Range(Ranked(q, Examples)) : Accounted(settings, e, retrieved)
      BY <2>2, <2>3, RetrievesWell
    <2> DEFINE picked == retrieved.selected
               cost == [k \in DOMAIN picked |-> Cost(Examples[picked[k]], settings.unit)]
    <2>5. /\ Len(picked) <= settings.topK
          /\ retrieved.used <= settings.budget /\ retrieved.used = SumOf(cost)
          /\ \A j, k \in DOMAIN picked :
               j < k => ~NearDuplicate(Examples[picked[j]], Examples[picked[k]])
          /\ \A e \in retrieved.rejected : e \notin Range(picked)
      BY <2>4 DEF Fits, Costs
    <2>6. SumOf(cost) <= settings.budget
      BY <2>5
    <2>7. \A e \in Range(Ranked(q, Examples)) :
            \/ e \in Range(picked) \cup retrieved.suppressed \cup retrieved.rejected
            \/ Len(picked) = settings.topK
      BY <2>4 DEF Accounted
    <2>8. FoldFunction(+, 0, cost) <= settings.budget
      BY <2>6, Zenon DEF SumOf
    <2> HIDE DEF picked
    <2>9. QED BY <2>5, <2>7, <2>8 DEF RetrievalWithinBudget, picked, q, settings
  <1>2. Init => RetrievalInv
    BY ReportInit DEF RetrievalInv, Init
  <1>3. QED BY <1>1, <1>2, RetrievalStep, PTL DEF Spec

-----------------------------------------------------------------------------
(***************************************************************************)
(* What is recorded of each run.                                           *)
(***************************************************************************)
Recorded(r, run) ==
  /\ r.model = run.model /\ r.repetition = run.repetition /\ r.case = run.entry
  /\ r.cold <=> run.repetition = 1 /\ run.entry = cases[1]
  /\ r.expectedSupport \in SupportStates
  /\ r.semantic \in {"Match", "Mismatch", "NotEvaluated"}
  /\ r.requirement \in {"Satisfied", "Violated", "Unknown", "NotEvaluated"}
  /\ r.verdict \in Verdicts
  /\ r.requirement = "Satisfied" => r.expectedSupported
  /\ r.recognized => r.expectedSupport = "Unsupported"

LEMMA ItemRecorded ==
  ASSUME MatchInv, stage = "session"
  PROVE  Recorded(Item(Golden), Current)
  <1> DEFINE s == result.script  e == Current.entry  r == Item(Golden)
             judged == IF s # NoScript /\ Compiles(s) THEN GoldenVerdict[plan.dataset][e][s]
                       ELSE [semantic |-> "NotEvaluated", requirement |-> "NotEvaluated"]
             expected == ExpectedSupport(Golden)
  <1>1. /\ r.semantic = judged.semantic /\ r.requirement = judged.requirement
        /\ r.case = Golden.id /\ r.model = Current.model
        /\ r.repetition = Current.repetition
        /\ r.cold = (Current.repetition = 1 /\ Current.entry = cases[1])
        /\ r.expectedSupported = Golden.expectedValid /\ r.expectedSupport = expected
        /\ r.recognized = (Status = "Unsupported" /\ expected = "Unsupported")
    BY DEF Item
  <1>2. Golden = Golds[e] /\ e \in DOMAIN Golds /\ Loaded /\ plan \in Plans
    BY CurrentKnown DEF MatchInv, ReportInv, PreparedInv, Golden
  <1>3. plan.dataset \in Loadable /\ Golds = Datasets[plan.dataset].disk
    BY <1>2 DEF Loadable, Loaded, Golds
  <1>4. DirectoryProblems(e, Golden) = {}
    BY <1>2, <1>3, LoadedCases DEF Loaded
  <1>5. MetadataAccepted(Golden) /\ Golden.id = e
    BY <1>4 DEF DirectoryProblems
  <1>6. expected \in SupportStates
    BY <1>5 DEF MetadataAccepted
  <1>7. ASSUME s \in DOMAIN Programs
        PROVE  GoldenVerdict[plan.dataset][e][s] =
                 IF ~Golden.expectedValid
                 THEN [semantic |-> "NotEvaluated", requirement |-> "NotEvaluated"]
                 ELSE [semantic |-> IF SameSemantics(FactsOf[Golden.expected], FactsOf[s])
                                    THEN "Match" ELSE "Mismatch",
                       requirement |-> Verify(Materialize(Golden), FactsOf[s])]
    BY <1>2, <1>3, <1>7 DEF GoldenVerdict
  <1>8. /\ judged.semantic \in {"Match", "Mismatch", "NotEvaluated"}
        /\ judged.requirement \in {"Satisfied", "Violated", "Unknown", "NotEvaluated"}
        /\ judged.requirement = "Satisfied" => Golden.expectedValid
    <2> HIDE DEF s, e
    <2>1. CASE s # NoScript /\ Compiles(s)
      BY <1>7, <2>1, Verifications DEF Compiles
    <2>2. CASE ~(s # NoScript /\ Compiles(s))
      BY <2>2
    <2>3. QED BY <2>1, <2>2
  <1>9. r.verdict \in Verdicts
    <2>1. Golden.prompt \in Instructions
      BY GoldenKnown DEF MatchInv
    <2>2. result.kind = "unsupported" => result.script = NoScript
      BY DEF MatchInv, ReportInv, ObserverInv, TypesInv
    <2>3. QED BY <2>1, <2>2, ItemEarned
  <1> HIDE DEF r, judged, expected
  <1>10. QED BY <1>1, <1>5, <1>6, <1>8, <1>9 DEF Recorded, r

-----------------------------------------------------------------------------
(***************************************************************************)
(* The runs that are made are those of the product, in its order.          *)
(***************************************************************************)
Running == stage \in {"next", "session", "write"} \/ report # <<>>

\* An evaluation that succeeds has a report of every run, or was stopped.
Succeeded ==
  exit = 0 => /\ stage = "exited"
              /\ plan.caller = "ai_eval" => written # "none"
              /\ plan.caller # "ai_eval" => Len(report) = Total(plan) \/ stop

RunsInv ==
  /\ MatchInv
  /\ plan.caller = "ai_eval" => stop = FALSE
  /\ stage \in {"corpus", "models"} => IsInjective(cases)
  /\ Running => Shaped
  /\ stage \in {"next", "session"} => Len(report) < Total(plan)
  /\ stage = "write" => Len(report) = Total(plan)
  /\ Running => Len(report) <= Total(plan)
  /\ written # "none" => stage = "exited" /\ Len(report) = Total(plan)
  /\ Succeeded
  /\ \A n \in DOMAIN report : Recorded(report[n], RunAt(n))

\* Whatever a session does, it does not touch the token.
LEMMA SessionKeepsStop ==
  ASSUME NEW v,
         \/ Session(v)!Preflight \/ Session(v)!AskProvider \/ Session(v)!BeginValidation
         \/ Session(v)!ValidationThrows \/ Session(v)!Judge
         \/ \E fault : Session(v)!ProviderFault(fault)
         \/ \E s : Session(v)!ProviderAnswer(s)
  PROVE  stop' = stop
  <1>1. CASE Session(v)!Preflight
    BY <1>1 DEF Session!Preflight, Session!FailBare, Session!Return
  <1>2. CASE Session(v)!AskProvider
    BY <1>2 DEF Session!AskProvider, Session!Fail, Session!Return
  <1>3. CASE Session(v)!BeginValidation
    BY <1>3 DEF Session!BeginValidation, Session!Fail, Session!Return
  <1>4. CASE Session(v)!ValidationThrows
    BY <1>4 DEF Session!ValidationThrows, Session!FailBare, Session!Return
  <1>5. CASE Session(v)!Judge
    <2>1. ASSUME NEW code, Session(v)!FailWithCandidate(code) PROVE stop' = stop
      BY <2>1 DEF Session!FailWithCandidate, Session!Return
    <2>2. ASSUME Session(v)!JudgeInvalid PROVE stop' = stop
      BY <2>1, <2>2 DEF Session!JudgeInvalid, Session!AskAgain
    <2>3. ASSUME Session(v)!JudgeValid PROVE stop' = stop
      BY <2>1, <2>3 DEF Session!JudgeValid, Session!AskAgain, Session!Return
    <2>4. QED BY <1>5, <2>1, <2>2, <2>3 DEF Session!Judge
  <1>6. CASE \E fault : Session(v)!ProviderFault(fault)
    BY <1>6 DEF Session!ProviderFault, Session!Fail, Session!Return
  <1>7. CASE \E s : Session(v)!ProviderAnswer(s)
    BY <1>7 DEF Session!ProviderAnswer, Session!Fail, Session!Return
  <1>8. QED BY <1>1, <1>2, <1>3, <1>4, <1>5, <1>6, <1>7

LEMMA RunsUnchanged ==
  ASSUME RunsInv, MatchInv', UNCHANGED <<plan, cases, report, written>>,
         \/ stage' = stage
         \/ stage' = "exited"
         \/ stage = "next" /\ stage' = "session"
         \/ stage = "corpus" /\ stage' = "models",
         plan.caller = "ai_eval" => stop' = stop,
         stop => stop', exit' = exit \/ exit' # 0
  PROVE  RunsInv'
  <1>1. Total(plan)' = Total(plan) /\ (Shaped => Shaped')
    BY DEF Total, Shaped, Golds
  <1>2. Running' => Running
    BY DEF Running
  <1>3. \A n \in DOMAIN report : RunAt(n)' = RunAt(n)
    BY DEF RunAt
  <1>4. \A n \in DOMAIN report' : Recorded(report[n], RunAt(n))'
    BY <1>3 DEF RunsInv, Recorded
  <1>5. Succeeded'
    BY <1>1 DEF RunsInv, Succeeded
  <1>6. QED BY <1>1, <1>2, <1>4, <1>5 DEF RunsInv

LEMMA FinishRuns ==
  ASSUME RunsInv, MatchInv', FinishRun
  PROVE  RunsInv'
  <1> DEFINE item == Item(Golden)  n == Len(report)
  <1>1. /\ stage = "session" /\ report' = Append(report, item)
        /\ UNCHANGED <<plan, cases, written, stop>>
        /\ IF stop \/ n + 1 = Total(plan)
           THEN stage' = IF plan.caller = "ai_eval" THEN "write" ELSE "exited"
           ELSE stage' = "next"
        /\ exit' = exit \/ (stage' = "exited" /\ plan.caller # "ai_eval"
                            /\ (stop \/ n + 1 = Total(plan)))
    BY DEF FinishRun, Enter, Leave, session
  <1>2. Recorded(item, RunAt(n + 1))
    BY <1>1, ItemRecorded DEF RunsInv, Current
  <1>3. /\ n \in Nat /\ DOMAIN report = 1..n /\ DOMAIN report' = 1..(n + 1)
        /\ Len(report') = n + 1 /\ report'[n + 1] = item
        /\ \A i \in 1..n : report'[i] = report[i]
    BY <1>1, AppendIsList DEF RunsInv, MatchInv, ReportInv, PreparedInv, IsList
  <1>4. Shaped /\ n < Total(plan) /\ written = "none"
    BY <1>1 DEF RunsInv, Running
  <1>5. /\ Total(plan)' = Total(plan) /\ Shaped' /\ Total(plan) \in Nat
        /\ \A i : RunAt(i)' = RunAt(i)
    <2>1. plan.models # <<>>
      BY DEF RunsInv, MatchInv, ReportInv, PreparedInv
    <2>2. QED BY <1>1, <1>4, <2>1, TotalPositive DEF Total, Shaped, Golds, RunAt
  <1> HIDE DEF item, n
  <1>6. ASSUME NEW i \in DOMAIN report' PROVE Recorded(report[i], RunAt(i))'
    <2>1. Recorded(report'[i], RunAt(i))
      <3>1. CASE i = n + 1
        BY <1>2, <1>3, <3>1
      <3>2. CASE i # n + 1
        <4>1. i \in DOMAIN report /\ report'[i] = report[i]
          BY <1>3, <3>2
        <4>2. QED BY <4>1 DEF RunsInv
      <3>3. QED BY <3>1, <3>2
    <2>2. QED BY <1>1, <1>5, <2>1 DEF Recorded
  <1>7. n + 1 <= Total(plan) /\ (n + 1 # Total(plan) => n + 1 < Total(plan))
    BY <1>3, <1>4, <1>5
  <1>8. /\ stage' \in {"next", "session"} => n + 1 < Total(plan)
        /\ stage' = "write" => n + 1 = Total(plan)
        /\ stage' \notin {"corpus", "models"}
    BY <1>1, <1>7 DEF RunsInv
  <1>9. Succeeded'
    BY <1>1, <1>3, <1>5 DEF RunsInv, Succeeded
  <1>10. QED BY <1>1, <1>3, <1>4, <1>5, <1>6, <1>7, <1>8, <1>9 DEF RunsInv

LEMMA RunsStep == RunsInv /\ [Next]_allVars => RunsInv'
  <1> SUFFICES ASSUME RunsInv, [Next]_allVars PROVE RunsInv'
    OBVIOUS
  <1>0. MatchInv'
    BY MatchStep DEF RunsInv
  <1>1. CASE LoadDataset
    <2>1. /\ stage = "dataset" /\ cases' = Chosen(plan)
          /\ UNCHANGED <<plan, report, written, stop>>
          /\ \/ stage' = "exited"
             \/ stage' \in {"corpus", "models"} /\ ~Diagnosed(Datasets[plan.dataset])
          /\ exit' = exit \/ exit' = 2
      BY <1>1 DEF LoadDataset, Leave, Enter, session
    <2>2. plan \in Plans /\ report = <<>> /\ DOMAIN report' = {} /\ written = "none"
      BY <2>1 DEF RunsInv, MatchInv, ReportInv, PreparedInv
    <2>3. stage' \in {"corpus", "models"} => IsInjective(cases')
      BY <2>1, <2>2, ChosenAreListed
    <2>4. ~Running'
      BY <2>1, <2>2 DEF Running
    <2>5. Succeeded'
      BY <2>1 DEF RunsInv, Succeeded
    <2>6. QED BY <1>0, <2>1, <2>2, <2>3, <2>4, <2>5 DEF RunsInv, Running
  <1>2. CASE QueryModels
    <2>1. /\ stage = "models" /\ UNCHANGED <<plan, cases, report, written, stop>>
          /\ \/ stage' = "exited"
             \/ stage' = "next" /\ IsInjective(plan.models)
          /\ exit' = exit \/ exit' \in {2, 3}
      BY <1>2 DEF QueryModels, Leave, Enter, session
    <2>2. /\ plan \in Plans /\ report = <<>> /\ written = "none" /\ IsInjective(cases)
          /\ cases \in Seq(DOMAIN Golds) /\ cases # <<>>
      BY <2>1 DEF RunsInv, MatchInv, ReportInv, PreparedInv
    <2>0. Succeeded'
      BY <2>1 DEF RunsInv, Succeeded
    <2>3. CASE stage' = "exited"
      <3>1. ~Running'
        BY <2>1, <2>2, <2>3 DEF Running
      <3>2. DOMAIN report' = {}
        BY <2>1, <2>2
      <3>3. QED BY <1>0, <2>0, <2>1, <2>2, <2>3, <3>1, <3>2 DEF RunsInv
    <2>4. CASE stage' = "next" /\ IsInjective(plan.models)
      <3>1. Shaped /\ plan.models # <<>>
        BY <2>2, <2>4 DEF Shaped
      <3>2. Total(plan) \in Nat /\ Total(plan) > 0 /\ Shaped' /\ Total(plan)' = Total(plan)
        BY <2>1, <3>1, TotalPositive DEF Shaped, Total, Golds
      <3>3. DOMAIN report' = {} /\ Len(report') = 0
        BY <2>1, <2>2
      <3>4. QED BY <1>0, <2>0, <2>1, <2>2, <2>4, <3>2, <3>3 DEF RunsInv
    <2>5. QED BY <2>1, <2>3, <2>4
  <1>3. CASE LoadCorpus \/ StartRun \/ RevalidationThrows
    <2>1. /\ UNCHANGED <<plan, cases, report, written, stop>>
          /\ \/ stage' = "exited"
             \/ stage = "next" /\ stage' = "session"
             \/ stage = "corpus" /\ stage' = "models"
          /\ exit' = exit \/ exit' \in {2, 3}
      BY <1>3 DEF LoadCorpus, StartRun, RevalidationThrows, Leave, Enter, session
    <2>2. QED BY <1>0, <2>1, RunsUnchanged
  <1>4. CASE Assessed \/ Converse \/ ProviderReturns
    <2>1. UNCHANGED <<plan, cases, report, written, stage, exit>>
      BY <1>4 DEF Assessed, Converse, ProviderReturns, evaluation
    <2>2. stop' = stop
      BY <1>4, SessionKeepsStop DEF Assessed, Converse, ProviderReturns
    <2>3. QED BY <1>0, <2>1, <2>2, RunsUnchanged
  <1>5. CASE FinishRun
    BY <1>0, <1>5, FinishRuns
  <1>6. CASE WriteReport
    <2>1. /\ stage = "write" /\ stage' = "exited" /\ UNCHANGED <<plan, cases, report, stop>>
          /\ exit' = 3 \/ (exit' = 0 /\ written' # "none")
      BY <1>6 DEF WriteReport, Leave, session
    <2>2. Total(plan)' = Total(plan) /\ (Shaped => Shaped')
      BY <2>1 DEF Total, Shaped, Golds
    <2>3. \A n \in DOMAIN report' : Recorded(report[n], RunAt(n))'
      BY <2>1 DEF RunsInv, Recorded, RunAt
    <2>4. Running
      BY <2>1 DEF Running
    <2>5. Len(report) = Total(plan)
      BY <2>1 DEF RunsInv
    <2>6. Succeeded'
      BY <2>1, <2>2, <2>5 DEF Succeeded
    <2>7. QED BY <1>0, <2>1, <2>2, <2>3, <2>4, <2>6 DEF RunsInv
  <1>7. CASE RequestStop \/ UNCHANGED allVars
    BY <1>0, <1>7, RunsUnchanged DEF RequestStop, allVars, evaluation, session
  <1>8. QED
    BY <1>1, <1>2, <1>3, <1>4, <1>5, <1>6, <1>7 DEF Next, EvaluationStep

LEMMA RunsInit == Init => RunsInv
  <1> SUFFICES ASSUME Init PROVE RunsInv
    OBVIOUS
  <1>1. /\ plan \in Plans /\ report = <<>> /\ DOMAIN report = {} /\ Len(report) = 0
        /\ written = "none" /\ stop = FALSE /\ Succeeded
    BY DEF Init, Succeeded
  <1>2. MatchInv
    BY MatchInit
  <1>3. CASE plan.caller = "ai_eval"
    <2>1. stage = "dataset" /\ ~Running
      BY <1>1, <1>3 DEF Init, Running
    <2>2. QED BY <1>1, <1>2, <2>1 DEF RunsInv
  <1>4. CASE plan.caller # "ai_eval"
    <2>1. stage = "next" /\ cases = Chosen(plan)
      BY <1>4 DEF Init
    <2>2. ~Diagnosed(Datasets[plan.dataset]) /\ IsInjective(plan.models) /\ Chosen(plan) # <<>>
      BY <1>1, <1>4
    <2>3. Shaped /\ plan.models # <<>>
      BY <1>1, <2>1, <2>2, ChosenAreListed DEF Shaped, Golds
    <2>4. Total(plan) \in Nat /\ Total(plan) > 0
      BY <2>3, TotalPositive
    <2>5. QED BY <1>1, <1>2, <2>1, <2>3, <2>4 DEF RunsInv
  <1>5. QED BY <1>3, <1>4

-----------------------------------------------------------------------------
(***************************************************************************)
(* The report: what is counted of the runs of a model.                     *)
(***************************************************************************)
Mine(m) == {n \in DOMAIN report : report[n].model = m}

Semantics == {"Match", "Mismatch", "NotEvaluated"}
Requirements == {"Satisfied", "Violated", "Unknown", "NotEvaluated"}

LEMMA LabelsFinite ==
  IsFiniteSet(SupportStates) /\ IsFiniteSet(Semantics) /\ IsFiniteSet(Requirements)
    /\ IsFiniteSet(Verdicts)
  <1>1. ASSUME NEW a, NEW b, NEW c
        PROVE  IsFiniteSet({a, b, c})
    <2>1. IsFiniteSet({a} \cup {b})
      BY FS_Singleton, FS_Union
    <2>2. IsFiniteSet(({a} \cup {b}) \cup {c})
      BY <2>1, FS_Singleton, FS_Union
    <2>3. {a, b, c} = ({a} \cup {b}) \cup {c}
      OBVIOUS
    <2>4. QED BY <2>2, <2>3
  <1>2. ASSUME NEW a, NEW b, NEW c, NEW d
        PROVE  IsFiniteSet({a, b, c, d})
    <2>1. IsFiniteSet({a, b, c} \cup {d})
      BY <1>1, FS_Singleton, FS_Union
    <2>2. {a, b, c, d} = {a, b, c} \cup {d}
      OBVIOUS
    <2>3. QED BY <2>1, <2>2
  <1>3. QED BY <1>1, <1>2 DEF SupportStates, Semantics, Requirements, Verdicts

\* The sets of runs that are counted are finite, and counting is monotonic.
LEMMA RunsAreFinite ==
  ASSUME IsList(report), NEW A, NEW B, A \subseteq B, B \subseteq DOMAIN report
  PROVE  /\ IsFiniteSet(A) /\ IsFiniteSet(B) /\ Cardinality(A) \in Nat /\ Cardinality(B) \in Nat
         /\ Cardinality(A) <= Cardinality(B)
  <1>1. Len(report) \in Nat /\ DOMAIN report = 1..Len(report)
    BY DEF IsList
  <1>2. IsFiniteSet(DOMAIN report)
    BY <1>1, FS_Interval
  <1>3. IsFiniteSet(A) /\ IsFiniteSet(B) /\ Cardinality(A) <= Cardinality(B)
    BY <1>2, FS_Subset
  <1>4. QED BY <1>3, FS_CardinalityType

\* A label of the runs, and the runs of a model that have the label l.
Labelled(m, label, l) == {n \in DOMAIN report : report[n].model = m /\ label[n] = l}

SupportOf == [n \in DOMAIN report |-> report[n].expectedSupport]
SemanticOf == [n \in DOMAIN report |-> report[n].semantic]
RequirementOf == [n \in DOMAIN report |-> report[n].requirement]
VerdictOf == [n \in DOMAIN report |-> report[n].verdict]

\* The runs of a model that raise each of the other counters.
Applicable(m) == {n \in DOMAIN report : report[n].model = m /\ report[n].expectedSupported}
AcceptedRuns(m) == {n \in DOMAIN report : report[n].model = m /\ Accepted(report[n])}
Recognized(m) == {n \in DOMAIN report : report[n].model = m /\ report[n].recognized}
Cold(m) == {n \in DOMAIN report : report[n].model = m /\ report[n].cold}
Repaired(m) == {n \in DOMAIN report : report[n].model = m /\ report[n].repairs # 0}

\* How many of the first n runs are in S.
Tallied(S, n) == Cardinality(S \cap (1..n))

LEMMA TallyNothing == \A S : Tallied(S, 0) = 0
  <1>1. \A S : S \cap (1..0) = {}
    OBVIOUS
  <1>2. QED BY <1>1, FS_EmptySet DEF Tallied

LEMMA TallyIsNat == \A S : \A n \in Nat : Tallied(S, n) \in Nat
  <1> SUFFICES ASSUME NEW S, NEW n \in Nat PROVE Tallied(S, n) \in Nat
    OBVIOUS
  <1>1. IsFiniteSet(1..n)
    BY FS_Interval
  <1>2. IsFiniteSet(S \cap (1..n))
    BY <1>1, FS_Subset
  <1>3. QED BY <1>2, FS_CardinalityType DEF Tallied

\* A counter is raised by the runs that it counts.
LEMMA TallyOne ==
  ASSUME NEW S, NEW n \in Nat \ {0}
  PROVE  Tallied(S, n) = Tallied(S, n - 1) + Add(n \in S)
  <1> DEFINE T == S \cap (1..(n - 1))
  <1>1. IsFiniteSet(T) /\ n \notin T /\ Cardinality(T) \in Nat
    <2>1. IsFiniteSet(1..(n - 1))
      BY FS_Interval
    <2>2. IsFiniteSet(T)
      BY <2>1, FS_Subset
    <2>3. QED BY <2>2, FS_CardinalityType
  <1>2. CASE n \in S
    <2>1. S \cap (1..n) = T \cup {n}
      BY <1>2
    <2> HIDE DEF T
    <2>2. Cardinality(T \cup {n}) = Cardinality(T) + 1
      BY <1>1, FS_AddElement
    <2>3. QED BY <1>2, <2>1, <2>2 DEF Tallied, Add, T
  <1>3. CASE n \notin S
    <2>1. S \cap (1..n) = T
      BY <1>3
    <2>2. Tallied(S, n) = Cardinality(T) /\ Tallied(S, n - 1) = Cardinality(T)
      BY <2>1 DEF Tallied
    <2> HIDE DEF T
    <2>3. QED BY <1>1, <1>3, <2>2 DEF Add
  <1>4. QED BY <1>2, <1>3

LEMMA TallySame ==
  ASSUME NEW S, NEW n \in Nat \ {0}, n \notin S
  PROVE  Tallied(S, n) = Tallied(S, n - 1)
  <1>1. Tallied(S, n) = Tallied(S, n - 1) + Add(n \in S)
    BY TallyOne
  <1>2. Tallied(S, n - 1) \in Nat
    BY TallyIsNat
  <1>3. QED BY <1>1, <1>2 DEF Add

\* All of them were counted in the end.
LEMMA TalliedAll ==
  ASSUME IsList(report), NEW S, S \subseteq DOMAIN report
  PROVE  Tallied(S, Len(report)) = Cardinality(S)
  <1>1. S \cap (1..Len(report)) = S
    BY DEF IsList
  <1>2. QED BY <1>1 DEF Tallied

Raised(counters, l) == [counters EXCEPT ![l] = @ + 1]
Breakdown(m, label, L, n) == [l \in L |-> Tallied(Labelled(m, label, l), n)]

\* One more run raises one counter of a breakdown.
LEMMA BreakdownRaised ==
  ASSUME NEW m, NEW label, NEW L, NEW n \in Mine(m), n \in Nat \ {0}
  PROVE  Breakdown(m, label, L, n) = Raised(Breakdown(m, label, L, n - 1), label[n])
  <1>1. ASSUME NEW l \in L
        PROVE  Tallied(Labelled(m, label, l), n) =
                 IF l = label[n] THEN Tallied(Labelled(m, label, l), n - 1) + 1
                 ELSE Tallied(Labelled(m, label, l), n - 1)
    <2>1. n \in Labelled(m, label, l) <=> label[n] = l
      BY DEF Labelled, Mine
    <2>2. Tallied(Labelled(m, label, l), n) =
            Tallied(Labelled(m, label, l), n - 1) + Add(n \in Labelled(m, label, l))
      BY TallyOne
    <2>3. Tallied(Labelled(m, label, l), n - 1) \in Nat
      BY TallyIsNat
    <2>4. QED BY <2>1, <2>2, <2>3 DEF Add
  <1>2. QED BY <1>1 DEF Breakdown, Raised

LEMMA BreakdownKept ==
  ASSUME NEW m, NEW label, NEW L, NEW n \in DOMAIN report, n \in Nat \ {0},
         report[n].model # m
  PROVE  Breakdown(m, label, L, n) = Breakdown(m, label, L, n - 1)
  <1>1. ASSUME NEW l \in L
        PROVE  Tallied(Labelled(m, label, l), n) = Tallied(Labelled(m, label, l), n - 1)
    <2>1. n \notin Labelled(m, label, l)
      BY DEF Labelled
    <2>2. Tallied(Labelled(m, label, l), n) =
            Tallied(Labelled(m, label, l), n - 1) + Add(n \in Labelled(m, label, l))
      BY TallyOne
    <2>3. Tallied(Labelled(m, label, l), n - 1) \in Nat
      BY TallyIsNat
    <2>4. QED BY <2>1, <2>2, <2>3 DEF Add
  <1>2. QED BY <1>1 DEF Breakdown

\* The summary of a model after n runs.
SummaryAfter(m, n) ==
  [total |-> Tallied(Mine(m), n),
   applicable |-> Tallied(Applicable(m), n),
   support |-> Breakdown(m, SupportOf, SupportStates, n),
   semantic |-> Breakdown(m, SemanticOf, Semantics, n),
   requirement |-> Breakdown(m, RequirementOf, Requirements, n),
   verdict |-> Breakdown(m, VerdictOf, Verdicts, n),
   accepted |-> Tallied(AcceptedRuns(m), n),
   recognized |-> Tallied(Recognized(m), n),
   cold |-> Tallied(Cold(m), n),
   repaired |-> Tallied(Repaired(m), n)]

LEMMA SummaryAtFirst == \A m : SummaryAfter(m, 0) = NoRuns
  <1> SUFFICES ASSUME NEW m PROVE SummaryAfter(m, 0) = NoRuns
    OBVIOUS
  <1>1. \A label, L : Breakdown(m, label, L, 0) = [l \in L |-> 0]
    BY TallyNothing DEF Breakdown
  <1>2. QED BY <1>1, TallyNothing, Zenon
           DEF SummaryAfter, NoRuns, Semantics, Requirements, Verdicts

\* A run of the model raises the counters that count it.
LEMMA SummaryRaised ==
  ASSUME NEW m, NEW n \in DOMAIN report, n \in Nat \ {0}, report[n].model = m
  PROVE  SummaryAfter(m, n) = Summed(SummaryAfter(m, n - 1), report[n])
  <1> DEFINE r == report[n]
  <1>1. /\ n \in Mine(m)
        /\ n \in Applicable(m) <=> r.expectedSupported
        /\ n \in AcceptedRuns(m) <=> Accepted(r)
        /\ n \in Recognized(m) <=> r.recognized
        /\ n \in Cold(m) <=> r.cold
        /\ n \in Repaired(m) <=> r.repairs # 0
    BY DEF Mine, Applicable, AcceptedRuns, Recognized, Cold, Repaired
  <1>2. \A S : Tallied(S, n) = Tallied(S, n - 1) + Add(n \in S)
    BY TallyOne
  <1>3. /\ Tallied(Mine(m), n) = Tallied(Mine(m), n - 1) + 1
        /\ Tallied(Applicable(m), n) = Tallied(Applicable(m), n - 1) + Add(r.expectedSupported)
        /\ Tallied(AcceptedRuns(m), n) = Tallied(AcceptedRuns(m), n - 1) + Add(Accepted(r))
        /\ Tallied(Recognized(m), n) = Tallied(Recognized(m), n - 1) + Add(r.recognized)
        /\ Tallied(Cold(m), n) = Tallied(Cold(m), n - 1) + Add(r.cold)
        /\ Tallied(Repaired(m), n) = Tallied(Repaired(m), n - 1) + Add(r.repairs # 0)
    <2> HIDE DEF r
    <2>1. QED BY <1>1, <1>2, Zenon DEF Add
  <1>4. /\ SupportOf[n] = r.expectedSupport /\ SemanticOf[n] = r.semantic
        /\ RequirementOf[n] = r.requirement /\ VerdictOf[n] = r.verdict
    BY DEF SupportOf, SemanticOf, RequirementOf, VerdictOf
  <1>5. ASSUME NEW label, NEW L
        PROVE  Breakdown(m, label, L, n) = Raised(Breakdown(m, label, L, n - 1), label[n])
    <2> HIDE DEF r
    <2>1. n \in Mine(m)
      BY <1>1
    <2>2. QED BY <2>1, BreakdownRaised
  <1> DEFINE b == SummaryAfter(m, n - 1)
  <1>6. /\ b.total = Tallied(Mine(m), n - 1)
        /\ b.applicable = Tallied(Applicable(m), n - 1)
        /\ b.support = Breakdown(m, SupportOf, SupportStates, n - 1)
        /\ b.semantic = Breakdown(m, SemanticOf, Semantics, n - 1)
        /\ b.requirement = Breakdown(m, RequirementOf, Requirements, n - 1)
        /\ b.verdict = Breakdown(m, VerdictOf, Verdicts, n - 1)
        /\ b.accepted = Tallied(AcceptedRuns(m), n - 1)
        /\ b.recognized = Tallied(Recognized(m), n - 1)
        /\ b.cold = Tallied(Cold(m), n - 1)
        /\ b.repaired = Tallied(Repaired(m), n - 1)
    BY DEF SummaryAfter
  <1> HIDE DEF b, r
  <1>7. /\ Breakdown(m, SupportOf, SupportStates, n) = Raised(b.support, r.expectedSupport)
        /\ Breakdown(m, SemanticOf, Semantics, n) = Raised(b.semantic, r.semantic)
        /\ Breakdown(m, RequirementOf, Requirements, n) = Raised(b.requirement, r.requirement)
        /\ Breakdown(m, VerdictOf, Verdicts, n) = Raised(b.verdict, r.verdict)
    BY <1>4, <1>5, <1>6, Zenon
  <1>8. SummaryAfter(m, n) = Summed(b, r)
    BY <1>3, <1>6, <1>7, Zenon DEF SummaryAfter, Summed, Raised
  <1>9. QED BY <1>8 DEF b, r

LEMMA SummaryKept ==
  ASSUME NEW m, NEW n \in DOMAIN report, n \in Nat \ {0}, report[n].model # m
  PROVE  SummaryAfter(m, n) = SummaryAfter(m, n - 1)
  <1>1. /\ n \notin Mine(m) /\ n \notin Applicable(m) /\ n \notin AcceptedRuns(m)
        /\ n \notin Recognized(m) /\ n \notin Cold(m) /\ n \notin Repaired(m)
    BY DEF Mine, Applicable, AcceptedRuns, Recognized, Cold, Repaired
  <1>2. \A S : n \notin S => Tallied(S, n) = Tallied(S, n - 1)
    BY TallySame
  <1>3. \A label, L : Breakdown(m, label, L, n) = Breakdown(m, label, L, n - 1)
    BY BreakdownKept
  <1>4. QED BY <1>1, <1>2, <1>3, Zenon DEF SummaryAfter

\* The loop of summarize computes these.
LEMMA SummaryIsAfter ==
  ASSUME IsList(report), NEW m
  PROVE  Summary(m) = SummaryAfter(m, Len(report))
  <1> DEFINE N == Len(report)
             Next1(f, n) == IF report[n].model # m THEN f[n - 1]
                            ELSE Summed(f[n - 1], report[n])
             Defines(f) == f = [n \in 0..N |-> IF n = 0 THEN NoRuns ELSE Next1(f, n)]
             g == [n \in 0..N |-> SummaryAfter(m, n)]
  <1>1. N \in Nat /\ DOMAIN report = 1..N
    BY DEF IsList
  <1>2. ASSUME NEW n \in 1..N
        PROVE  g[n - 1] = SummaryAfter(m, n - 1) /\ g[n] = Next1(g, n)
    <2>1. n \in DOMAIN report /\ n \in Nat \ {0} /\ n \in 0..N /\ n - 1 \in 0..N
      BY <1>1
    <2>2. g[n] = SummaryAfter(m, n) /\ g[n - 1] = SummaryAfter(m, n - 1)
      BY <2>1
    <2> HIDE DEF g, N
    <2>3. CASE report[n].model = m
      BY <2>1, <2>2, <2>3, SummaryRaised
    <2>4. CASE report[n].model # m
      BY <2>1, <2>2, <2>4, SummaryKept
    <2>5. QED BY <2>2, <2>3, <2>4
  <1>3. g[0] = NoRuns
    BY <1>1, SummaryAtFirst
  <1>4. Defines(g)
    <2>1. ASSUME NEW n \in 0..N PROVE g[n] = IF n = 0 THEN NoRuns ELSE Next1(g, n)
      <3>1. n = 0 \/ n \in 1..N
        BY <1>1
      <3> HIDE DEF g, N, Next1
      <3>2. QED BY <1>2, <1>3, <3>1
    <2>2. g = [n \in 0..N |-> g[n]]
      OBVIOUS
    <2> HIDE DEF g, N, Next1
    <2>3. QED BY <2>1, <2>2
  <1> DEFINE f == CHOOSE f : Defines(f)
  <1>5. Summary(m) = f[N]
    BY DEF Summary
  <1>6. Defines(f)
    <2> HIDE DEF Defines, g
    <2>1. QED BY <1>4
  <1>7. f[0] = NoRuns /\ \A n \in 1..N : f[n] = Next1(f, n)
    <2>1. f = [n \in 0..N |-> IF n = 0 THEN NoRuns ELSE Next1(f, n)]
      BY <1>6
    <2>2. 0 \in 0..N /\ \A n \in 1..N : n \in 0..N /\ n # 0
      BY <1>1
    <2> HIDE DEF f, N, Next1
    <2>3. f[0] = NoRuns
      BY <2>1, <2>2
    <2>4. ASSUME NEW n \in 1..N PROVE f[n] = Next1(f, n)
      BY <2>1, <2>2
    <2>5. QED BY <2>3, <2>4
  <1>8. ASSUME NEW n \in 1..N, f[n - 1] = g[n - 1] PROVE f[n] = g[n]
    <2>1. f[n] = Next1(f, n) /\ g[n] = Next1(g, n)
      BY <1>2, <1>7
    <2> HIDE DEF f, g, N
    <2>2. Next1(f, n) = Next1(g, n)
      BY <1>8
    <2>3. QED BY <2>1, <2>2
  <1> HIDE DEF f, g, Next1, Defines
  <1>9. 0..N \subseteq {n \in 0..N : f[n] = g[n]}
    <2> DEFINE T == {n \in 0..N : f[n] = g[n]}
    <2>1. 0 \in T
      BY <1>1, <1>3, <1>7
    <2>2. \A n \in 1..N : n - 1 \in T => n \in T
      BY <1>1, <1>8
    <2> HIDE DEF T, N
    <2>3. 0..N \subseteq T
      BY <1>1, <2>1, <2>2, InductionTo
    <2>4. QED BY <2>3 DEF T
  <1>10. f[N] = g[N]
    BY <1>1, <1>9
  <1>11. QED BY <1>1, <1>5, <1>10 DEF g

LEMMA SummaryCounts ==
  ASSUME IsList(report), NEW m
  PROVE  LET s == Summary(m)
         IN  /\ s.total = Cardinality(Mine(m))
             /\ s.applicable = Cardinality(Applicable(m))
             /\ s.accepted = Cardinality(AcceptedRuns(m))
             /\ s.recognized = Cardinality(Recognized(m))
             /\ s.cold = Cardinality(Cold(m))
  <1>1. /\ Mine(m) \subseteq DOMAIN report /\ Applicable(m) \subseteq DOMAIN report
        /\ AcceptedRuns(m) \subseteq DOMAIN report /\ Recognized(m) \subseteq DOMAIN report
        /\ Cold(m) \subseteq DOMAIN report
    BY DEF Mine, Applicable, AcceptedRuns, Recognized, Cold
  <1>2. \A S : S \subseteq DOMAIN report => Tallied(S, Len(report)) = Cardinality(S)
    BY TalliedAll
  <1>3. Summary(m) = SummaryAfter(m, Len(report))
    BY SummaryIsAfter
  <1>4. QED BY <1>1, <1>2, <1>3 DEF SummaryAfter

LEMMA SummaryBreaksDown ==
  ASSUME IsList(report), NEW m
  PROVE  LET s == Summary(m)
         IN  /\ s.support =
                  [l \in SupportStates |-> Cardinality(Labelled(m, SupportOf, l))]
             /\ s.semantic = [l \in Semantics |-> Cardinality(Labelled(m, SemanticOf, l))]
             /\ s.requirement =
                  [l \in Requirements |-> Cardinality(Labelled(m, RequirementOf, l))]
             /\ s.verdict = [l \in Verdicts |-> Cardinality(Labelled(m, VerdictOf, l))]
  <1>1. \A label, l : Tallied(Labelled(m, label, l), Len(report)) =
                        Cardinality(Labelled(m, label, l))
    BY TalliedAll DEF Labelled
  <1>2. \A label, L : Breakdown(m, label, L, Len(report)) =
                        [l \in L |-> Cardinality(Labelled(m, label, l))]
    BY <1>1 DEF Breakdown
  <1>3. Summary(m) = SummaryAfter(m, Len(report))
    BY SummaryIsAfter
  <1>4. QED BY <1>2, <1>3 DEF SummaryAfter

\* A breakdown of a model's runs by a label adds up to the model's runs.
LEMMA BreakdownAdds ==
  ASSUME IsList(report), NEW m, NEW L, IsFiniteSet(L),
         NEW label, \A n \in Mine(m) : label[n] \in L
  PROVE  SumOf([l \in L |-> Cardinality(Labelled(m, label, l))]) = Cardinality(Mine(m))
  <1>1. IsFiniteSet(Mine(m))
    BY RunsAreFinite DEF Mine
  <1>2. SumOf([l \in L |-> Cardinality({n \in Mine(m) : label[n] = l})]) = Cardinality(Mine(m))
    BY <1>1, CountsAddUp
  <1>3. \A l : {n \in Mine(m) : label[n] = l} = Labelled(m, label, l)
    BY DEF Mine, Labelled
  <1>4. QED BY <1>2, <1>3

\* The runs of a trend, and those of them that raise its other counters.
Keyed(key) == {n \in DOMAIN report : Key(report[n]) = key}
SatisfiedOf(key) ==
  {n \in DOMAIN report : Key(report[n]) = key /\ report[n].requirement = "Satisfied"}
AllowedOf(key) == {n \in DOMAIN report : Key(report[n]) = key /\ report[n].verdict = "Allow"}
AcceptedOf(key) == {n \in DOMAIN report : Key(report[n]) = key /\ Accepted(report[n])}

\* The trends after n runs.
TrendAfter(key, n) ==
  [repetitions |-> Tallied(Keyed(key), n), satisfied |-> Tallied(SatisfiedOf(key), n),
   allowed |-> Tallied(AllowedOf(key), n), accepted |-> Tallied(AcceptedOf(key), n)]

KeysAfter(n) == {Key(report[k]) : k \in 1..n}
TrendsAfter(n) == [key \in KeysAfter(n) |-> TrendAfter(key, n)]

\* A run raises the counters of its own trend, which starts at nothing, and leaves
\* the other trends alone.
LEMMA TrendRaised ==
  ASSUME NEW n \in DOMAIN report, n \in Nat \ {0}, NEW key, Key(report[n]) = key
  PROVE  TrendAfter(key, n) = Counted(TrendAfter(key, n - 1), report[n])
  <1> DEFINE r == report[n]
  <1>1. /\ n \in Keyed(key)
        /\ n \in SatisfiedOf(key) <=> r.requirement = "Satisfied"
        /\ n \in AllowedOf(key) <=> r.verdict = "Allow"
        /\ n \in AcceptedOf(key) <=> Accepted(r)
    BY DEF Keyed, SatisfiedOf, AllowedOf, AcceptedOf
  <1>2. \A S : Tallied(S, n) = Tallied(S, n - 1) + Add(n \in S)
    BY TallyOne
  <1> HIDE DEF r
  <1>3. /\ Tallied(Keyed(key), n) = Tallied(Keyed(key), n - 1) + 1
        /\ Tallied(SatisfiedOf(key), n) =
             Tallied(SatisfiedOf(key), n - 1) + Add(r.requirement = "Satisfied")
        /\ Tallied(AllowedOf(key), n) = Tallied(AllowedOf(key), n - 1) + Add(r.verdict = "Allow")
        /\ Tallied(AcceptedOf(key), n) = Tallied(AcceptedOf(key), n - 1) + Add(Accepted(r))
    BY <1>1, <1>2, Zenon DEF Add
  <1> DEFINE b == TrendAfter(key, n - 1)
  <1>4. /\ b.repetitions = Tallied(Keyed(key), n - 1)
        /\ b.satisfied = Tallied(SatisfiedOf(key), n - 1)
        /\ b.allowed = Tallied(AllowedOf(key), n - 1)
        /\ b.accepted = Tallied(AcceptedOf(key), n - 1)
    BY DEF TrendAfter
  <1> HIDE DEF b
  <1>5. TrendAfter(key, n) = Counted(b, r)
    BY <1>3, <1>4, Zenon DEF TrendAfter, Counted
  <1>6. QED BY <1>5 DEF b, r

LEMMA TrendKept ==
  ASSUME NEW n \in DOMAIN report, n \in Nat \ {0}, NEW key, Key(report[n]) # key
  PROVE  TrendAfter(key, n) = TrendAfter(key, n - 1)
  <1>1. /\ n \notin Keyed(key) /\ n \notin SatisfiedOf(key)
        /\ n \notin AllowedOf(key) /\ n \notin AcceptedOf(key)
    BY DEF Keyed, SatisfiedOf, AllowedOf, AcceptedOf
  <1>2. \A S : n \notin S => Tallied(S, n) = Tallied(S, n - 1)
    BY TallySame
  <1>3. QED BY <1>1, <1>2, Zenon DEF TrendAfter

LEMMA TrendBegins ==
  ASSUME NEW n \in Nat, NEW key, key \notin KeysAfter(n)
  PROVE  TrendAfter(key, n) = NewTrend
  <1>1. \A k \in 1..n : Key(report[k]) # key
    BY DEF KeysAfter
  <1>2. /\ Keyed(key) \cap (1..n) = {} /\ SatisfiedOf(key) \cap (1..n) = {}
        /\ AllowedOf(key) \cap (1..n) = {} /\ AcceptedOf(key) \cap (1..n) = {}
    BY <1>1 DEF Keyed, SatisfiedOf, AllowedOf, AcceptedOf
  <1>3. QED BY <1>2, FS_EmptySet, Zenon DEF TrendAfter, NewTrend, Tallied

LEMMA TrendsEntered ==
  ASSUME NEW n \in DOMAIN report, n \in Nat \ {0}
  PROVE  TrendsAfter(n) = Entered(TrendsAfter(n - 1), report[n])
  <1> DEFINE t == TrendsAfter(n - 1)
             own == Key(report[n])
  <1>1. DOMAIN t = KeysAfter(n - 1)
    BY DEF TrendsAfter
  <1>2. KeysAfter(n) = KeysAfter(n - 1) \cup {own}
    <2>1. 1..n = (1..(n - 1)) \cup {n}
      OBVIOUS
    <2>2. QED BY <2>1 DEF KeysAfter
  <1>3. ASSUME NEW key \in KeysAfter(n), key # own
        PROVE  TrendAfter(key, n) = t[key]
    <2>1. key \in KeysAfter(n - 1)
      BY <1>2, <1>3
    <2>2. t[key] = TrendAfter(key, n - 1)
      BY <2>1 DEF TrendsAfter
    <2>3. TrendAfter(key, n) = TrendAfter(key, n - 1)
      BY <1>3, TrendKept
    <2>4. QED BY <2>2, <2>3
  <1>4. TrendAfter(own, n) = Counted(Found(t, own), report[n])
    <2>1. TrendAfter(own, n) = Counted(TrendAfter(own, n - 1), report[n])
      BY TrendRaised
    <2>2. own \in KeysAfter(n - 1) => Found(t, own) = TrendAfter(own, n - 1)
      BY DEF Found, TrendsAfter
    <2>3. own \notin KeysAfter(n - 1) => Found(t, own) = TrendAfter(own, n - 1)
      <3>1. ASSUME own \notin KeysAfter(n - 1) PROVE TrendAfter(own, n - 1) = NewTrend
        <4>1. n - 1 \in Nat
          OBVIOUS
        <4>2. QED BY <3>1, <4>1, TrendBegins
      <3>2. own \notin KeysAfter(n - 1) => Found(t, own) = NewTrend
        BY <1>1 DEF Found
      <3>3. QED BY <3>1, <3>2
    <2>4. QED BY <2>1, <2>2, <2>3
  <1> HIDE DEF t, own
  <1>5. [key \in KeysAfter(n) |-> TrendAfter(key, n)] =
        [key \in DOMAIN t \cup {own} |->
           IF key = own THEN Counted(Found(t, key), report[n]) ELSE t[key]]
    BY <1>1, <1>2, <1>3, <1>4
  <1>6. QED BY <1>5 DEF TrendsAfter, Entered, t, own

LEMMA TrendsAtFirst == TrendsAfter(0) = <<>>
  <1>1. KeysAfter(0) = {}
    BY DEF KeysAfter
  <1>2. QED BY <1>1 DEF TrendsAfter

\* The loop of build_case_trends computes these.
LEMMA TrendsAreAfter ==
  ASSUME IsList(report)
  PROVE  Trends = TrendsAfter(Len(report))
  <1> DEFINE N == Len(report)
             Defines(f) == f = [n \in 0..N |-> IF n = 0 THEN <<>> ELSE Entered(f[n - 1], report[n])]
             g == [n \in 0..N |-> TrendsAfter(n)]
  <1>1. N \in Nat /\ DOMAIN report = 1..N
    BY DEF IsList
  <1>2. ASSUME NEW n \in 1..N PROVE g[n] = Entered(g[n - 1], report[n])
    <2>1. n \in DOMAIN report /\ n \in Nat \ {0} /\ n \in 0..N /\ n - 1 \in 0..N
      BY <1>1
    <2>2. g[n] = TrendsAfter(n) /\ g[n - 1] = TrendsAfter(n - 1)
      BY <2>1
    <2>3. TrendsAfter(n) = Entered(TrendsAfter(n - 1), report[n])
      BY <2>1, TrendsEntered
    <2> HIDE DEF g, N
    <2>4. QED BY <2>2, <2>3
  <1>3. g[0] = <<>>
    BY <1>1, TrendsAtFirst
  <1>4. Defines(g)
    <2>1. ASSUME NEW n \in 0..N PROVE g[n] = IF n = 0 THEN <<>> ELSE Entered(g[n - 1], report[n])
      <3>1. n = 0 \/ n \in 1..N
        BY <1>1
      <3> HIDE DEF g, N
      <3>2. QED BY <1>2, <1>3, <3>1
    <2>2. g = [n \in 0..N |-> g[n]]
      OBVIOUS
    <2> HIDE DEF g, N
    <2>3. QED BY <2>1, <2>2
  <1> DEFINE f == CHOOSE f : Defines(f)
  <1>5. Trends = f[N]
    BY DEF Trends
  <1>6. Defines(f)
    <2> HIDE DEF Defines, g
    <2>1. QED BY <1>4
  <1>7. f[0] = <<>> /\ \A n \in 1..N : f[n] = Entered(f[n - 1], report[n])
    <2>1. f = [n \in 0..N |-> IF n = 0 THEN <<>> ELSE Entered(f[n - 1], report[n])]
      BY <1>6
    <2> HIDE DEF f, N
    <2>2. QED BY <1>1, <2>1
  <1>8. ASSUME NEW n \in 1..N, f[n - 1] = g[n - 1] PROVE f[n] = g[n]
    <2> HIDE DEF f, g, N
    <2>1. f[n] = Entered(f[n - 1], report[n]) /\ g[n] = Entered(g[n - 1], report[n])
      BY <1>2, <1>7
    <2>2. QED BY <1>8, <2>1
  <1> HIDE DEF f, g, Defines
  <1>9. 0..N \subseteq {n \in 0..N : f[n] = g[n]}
    <2> DEFINE T == {n \in 0..N : f[n] = g[n]}
    <2>1. 0 \in T
      BY <1>1, <1>3, <1>7
    <2>2. \A n \in 1..N : n - 1 \in T => n \in T
      BY <1>1, <1>8
    <2> HIDE DEF T, N
    <2>3. 0..N \subseteq T
      BY <1>1, <2>1, <2>2, InductionTo
    <2>4. QED BY <2>3 DEF T
  <1>10. f[N] = g[N]
    BY <1>1, <1>9
  <1>11. QED BY <1>1, <1>5, <1>10 DEF g

LEMMA TrendCounts ==
  ASSUME IsList(report)
  PROVE  LET trends == Trends
         IN  /\ DOMAIN trends = {Key(report[n]) : n \in DOMAIN report}
             /\ \A key \in DOMAIN trends :
                  /\ trends[key].repetitions = Cardinality(Keyed(key))
                  /\ trends[key].satisfied = Cardinality(SatisfiedOf(key))
                  /\ trends[key].accepted = Cardinality(AcceptedOf(key))
  <1>1. \A S : S \subseteq DOMAIN report => Tallied(S, Len(report)) = Cardinality(S)
    BY TalliedAll
  <1>2. \A key : /\ Keyed(key) \subseteq DOMAIN report /\ SatisfiedOf(key) \subseteq DOMAIN report
                 /\ AcceptedOf(key) \subseteq DOMAIN report
    BY DEF Keyed, SatisfiedOf, AcceptedOf
  <1>3. Trends = TrendsAfter(Len(report))
    BY TrendsAreAfter
  <1>4. KeysAfter(Len(report)) = {Key(report[n]) : n \in DOMAIN report}
    BY DEF KeysAfter, IsList
  <1>5. QED BY <1>1, <1>2, <1>3, <1>4 DEF TrendsAfter, TrendAfter

\* Each run of a model is counted once in each breakdown.
LEMMA BreakdownsAdd ==
  ASSUME RunsInv, NEW m
  PROVE  \A f \in {Summary(m).support, Summary(m).semantic, Summary(m).requirement,
                   Summary(m).verdict} : SumOf(f) = Summary(m).total
  <1>0. IsList(report)
    BY DEF RunsInv, MatchInv, ReportInv, PreparedInv
  <1>1. IsList(report) /\ Summary(m).total = Cardinality(Mine(m))
    BY <1>0, SummaryCounts
  <1>2. \A n \in Mine(m) :
          /\ SupportOf[n] \in SupportStates /\ SemanticOf[n] \in Semantics
          /\ RequirementOf[n] \in Requirements /\ VerdictOf[n] \in Verdicts
    BY DEF RunsInv, Recorded, Mine, Semantics, Requirements, SupportOf, SemanticOf,
           RequirementOf, VerdictOf
  <1>3. SumOf(Summary(m).support) = Cardinality(Mine(m))
    <2>1. Summary(m).support = [l \in SupportStates |-> Cardinality(Labelled(m, SupportOf, l))]
      BY <1>0, SummaryBreaksDown
    <2>2. SumOf([l \in SupportStates |-> Cardinality(Labelled(m, SupportOf, l))])
            = Cardinality(Mine(m))
      BY <1>1, <1>2, BreakdownAdds, LabelsFinite
    <2>3. QED BY <2>1, <2>2
  <1>4. SumOf(Summary(m).semantic) = Cardinality(Mine(m))
    <2>1. Summary(m).semantic = [l \in Semantics |-> Cardinality(Labelled(m, SemanticOf, l))]
      BY <1>0, SummaryBreaksDown
    <2>2. SumOf([l \in Semantics |-> Cardinality(Labelled(m, SemanticOf, l))])
            = Cardinality(Mine(m))
      BY <1>1, <1>2, BreakdownAdds, LabelsFinite
    <2>3. QED BY <2>1, <2>2
  <1>5. SumOf(Summary(m).requirement) = Cardinality(Mine(m))
    <2>1. Summary(m).requirement =
            [l \in Requirements |-> Cardinality(Labelled(m, RequirementOf, l))]
      BY <1>0, SummaryBreaksDown
    <2>2. SumOf([l \in Requirements |-> Cardinality(Labelled(m, RequirementOf, l))])
            = Cardinality(Mine(m))
      BY <1>1, <1>2, BreakdownAdds, LabelsFinite
    <2>3. QED BY <2>1, <2>2
  <1>6. SumOf(Summary(m).verdict) = Cardinality(Mine(m))
    <2>1. Summary(m).verdict = [l \in Verdicts |-> Cardinality(Labelled(m, VerdictOf, l))]
      BY <1>0, SummaryBreaksDown
    <2>2. SumOf([l \in Verdicts |-> Cardinality(Labelled(m, VerdictOf, l))])
            = Cardinality(Mine(m))
      BY <1>1, <1>2, BreakdownAdds, LabelsFinite
    <2>3. QED BY <2>1, <2>2
  <1>7. QED BY <1>1, <1>3, <1>4, <1>5, <1>6

\* Each run of a model is in one trend, and so is each that met its requirements
\* and each that was accepted.
LEMMA TrendsAdd ==
  ASSUME RunsInv, NEW m
  PROVE  LET trends == Trends
             keys == {key \in DOMAIN trends : key[1] = m}
         IN  /\ SumOf([key \in keys |-> trends[key].repetitions]) = Summary(m).total
             /\ SumOf([key \in keys |-> trends[key].satisfied]) =
                  Summary(m).requirement["Satisfied"]
             /\ SumOf([key \in keys |-> trends[key].accepted]) = Summary(m).accepted
  <1> DEFINE trends == Trends
             keys == {key \in DOMAIN trends : key[1] = m}
             label == [n \in DOMAIN report |-> Key(report[n])]
             met == {n \in DOMAIN report : /\ report[n].model = m
                                           /\ report[n].requirement = "Satisfied"}
  <1>1. IsList(report)
    BY DEF RunsInv, MatchInv, ReportInv, PreparedInv
  <1>2. /\ DOMAIN trends = {Key(report[n]) : n \in DOMAIN report}
        /\ \A key \in DOMAIN trends : /\ trends[key].repetitions = Cardinality(Keyed(key))
                                      /\ trends[key].satisfied = Cardinality(SatisfiedOf(key))
                                      /\ trends[key].accepted = Cardinality(AcceptedOf(key))
    BY <1>1, TrendCounts
  <1> HIDE DEF trends
  <1>3. IsFiniteSet(keys)
    <2>1. IsFiniteSet(DOMAIN report)
      BY <1>1, RunsAreFinite
    <2>2. label \in Surjection(DOMAIN report, DOMAIN trends)
      BY <1>2 DEF Surjection
    <2> HIDE DEF label
    <2>3. IsFiniteSet(DOMAIN trends)
      BY <2>1, <2>2, FS_Surjection
    <2>4. QED BY <2>3, FS_Subset
  <1>4. \A n \in DOMAIN report : label[n][1] = report[n].model /\ label[n] \in DOMAIN trends
    BY <1>2 DEF Key
  <1>5. /\ \A n \in Mine(m) : label[n] \in keys
        /\ met \subseteq Mine(m) /\ AcceptedRuns(m) \subseteq Mine(m)
    BY <1>4 DEF Mine, AcceptedRuns
  <1>6. IsFiniteSet(Mine(m)) /\ IsFiniteSet(met) /\ IsFiniteSet(AcceptedRuns(m))
    BY <1>1, <1>5, RunsAreFinite DEF Mine
  <1>7. \A key \in keys : /\ Keyed(key) = {n \in Mine(m) : label[n] = key}
                          /\ SatisfiedOf(key) = {n \in met : label[n] = key}
                          /\ AcceptedOf(key) = {n \in AcceptedRuns(m) : label[n] = key}
    <2> SUFFICES ASSUME NEW key \in keys
                 PROVE  /\ Keyed(key) = {n \in Mine(m) : label[n] = key}
                        /\ SatisfiedOf(key) = {n \in met : label[n] = key}
                        /\ AcceptedOf(key) = {n \in AcceptedRuns(m) : label[n] = key}
      OBVIOUS
    <2>1. \A n \in DOMAIN report : /\ label[n] = Key(report[n])
                                   /\ label[n] = key => report[n].model = m
      BY <1>4
    <2> HIDE DEF keys, label
    <2>2. QED BY <2>1 DEF Mine, AcceptedRuns, Keyed, SatisfiedOf, AcceptedOf
  <1>8. /\ Summary(m).total = Cardinality(Mine(m))
        /\ Summary(m).requirement["Satisfied"] = Cardinality(met)
        /\ Summary(m).accepted = Cardinality(AcceptedRuns(m))
    <2>1. Labelled(m, RequirementOf, "Satisfied") = met
      BY DEF Labelled, RequirementOf
    <2>2. Summary(m).requirement =
            [l \in Requirements |-> Cardinality(Labelled(m, RequirementOf, l))]
      BY <1>1, SummaryBreaksDown
    <2>3. /\ Summary(m).total = Cardinality(Mine(m))
          /\ Summary(m).accepted = Cardinality(AcceptedRuns(m))
      BY <1>1, SummaryCounts
    <2> HIDE DEF met
    <2>4. QED BY <2>1, <2>2, <2>3 DEF Requirements
  <1>9. \A key \in keys : key \in DOMAIN trends
    OBVIOUS
  <1> HIDE DEF keys, label, met
  <1>10. /\ [key \in keys |-> trends[key].repetitions] =
              [key \in keys |-> Cardinality({n \in Mine(m) : label[n] = key})]
         /\ [key \in keys |-> trends[key].satisfied] =
              [key \in keys |-> Cardinality({n \in met : label[n] = key})]
         /\ [key \in keys |-> trends[key].accepted] =
              [key \in keys |-> Cardinality({n \in AcceptedRuns(m) : label[n] = key})]
    BY <1>2, <1>7, <1>9
  <1>11. SumOf([key \in keys |-> Cardinality({n \in Mine(m) : label[n] = key})]) =
           Cardinality(Mine(m))
    BY <1>3, <1>5, <1>6, CountsAddUp
  <1>12. SumOf([key \in keys |-> Cardinality({n \in met : label[n] = key})]) = Cardinality(met)
    BY <1>3, <1>5, <1>6, CountsAddUp
  <1>13. SumOf([key \in keys |-> Cardinality({n \in AcceptedRuns(m) : label[n] = key})]) =
           Cardinality(AcceptedRuns(m))
    BY <1>3, <1>5, <1>6, CountsAddUp
  <1>14. QED BY <1>8, <1>10, <1>11, <1>12, <1>13 DEF keys, trends

\* What is known of the runs that were made.
LEMMA RunsMade ==
  ASSUME RunsInv, NEW n \in DOMAIN report
  PROVE  /\ Shaped /\ n \in Nat \ {0} /\ n <= Total(plan) /\ Len(report) \in Nat
         /\ DOMAIN report = 1..Len(report) /\ Recorded(report[n], RunAt(n))
  <1>1. Len(report) \in Nat /\ DOMAIN report = 1..Len(report)
    BY DEF RunsInv, MatchInv, ReportInv, PreparedInv, IsList
  <1>2. report # <<>>
    OBVIOUS
  <1>3. Shaped /\ Len(report) <= Total(plan) /\ plan.models # <<>>
    BY <1>2 DEF RunsInv, Running, MatchInv, ReportInv, PreparedInv
  <1>4. Total(plan) \in Nat
    BY <1>3, TotalPositive
  <1>5. QED BY <1>1, <1>3, <1>4 DEF RunsInv

\* A trend has at most one run of each repetition.
LEMMA TrendsBounded ==
  ASSUME RunsInv, NEW key \in DOMAIN Trends
  PROVE  Trends[key].repetitions <= plan.repetitions
  <1> DEFINE S == {n \in DOMAIN report : Key(report[n]) = key}
             f == [n \in DOMAIN report |-> report[n].repetition]
  <1>1. plan.repetitions \in Nat
    BY DEF RunsInv, MatchInv, ReportInv, PreparedInv
  <1>2. \A n \in S : f[n] \in 1..plan.repetitions
    <2> SUFFICES ASSUME NEW n \in DOMAIN report PROVE report[n].repetition \in 1..plan.repetitions
      OBVIOUS
    <2>1. Shaped /\ n \in Nat \ {0} /\ n <= Total(plan) /\ Recorded(report[n], RunAt(n))
      BY RunsMade
    <2>2. PICK k \in DOMAIN plan.models, i \in 1..plan.repetitions, j \in DOMAIN cases :
            n = Number(k, i, j)
      BY <2>1, NumberOfRun
    <2>3. RunAt(n).repetition = i
      BY <2>1, <2>2, RunOfNumber
    <2>4. QED BY <2>1, <2>3 DEF Recorded
  <1>3. \A i, j \in S : f[i] = f[j] => i = j
    <2> SUFFICES ASSUME NEW i \in DOMAIN report, NEW j \in DOMAIN report,
                        report[i].model = report[j].model, report[i].case = report[j].case,
                        report[i].repetition = report[j].repetition
                 PROVE  i = j
      BY DEF Key
    <2>1. Shaped /\ i \in Nat \ {0} /\ i <= Total(plan) /\ Recorded(report[i], RunAt(i))
      BY RunsMade
    <2>2. j \in Nat \ {0} /\ j <= Total(plan) /\ Recorded(report[j], RunAt(j))
      BY RunsMade
    <2>3. /\ RunAt(i).model = RunAt(j).model /\ RunAt(i).repetition = RunAt(j).repetition
          /\ RunAt(i).entry = RunAt(j).entry
      BY <2>1, <2>2 DEF Recorded
    <2>4. QED BY <2>1, <2>2, <2>3, RunsDiffer
  <1>4. Trends[key].repetitions = Cardinality(S)
    <2>1. IsList(report)
      BY DEF RunsInv, MatchInv, ReportInv, PreparedInv
    <2>2. Trends[key].repetitions = Cardinality(Keyed(key))
      BY <2>1, TrendCounts
    <2>3. QED BY <2>2 DEF Keyed
  <1> HIDE DEF S, f
  <1>5. QED BY <1>1, <1>2, <1>3, <1>4, AtMostOneEach

\* One run of each model that was run is cold.
LEMMA OneIsCold ==
  ASSUME RunsInv, NEW m, Summary(m).total > 0
  PROVE  Summary(m).cold = 1
  <1> DEFINE S == {n \in DOMAIN report : report[n].model = m /\ report[n].cold}
  <1>1. Summary(m).cold = Cardinality(S) /\ Summary(m).total = Cardinality(Mine(m))
    <2>1. IsList(report)
      BY DEF RunsInv, MatchInv, ReportInv, PreparedInv
    <2>2. Summary(m).cold = Cardinality(Cold(m)) /\ Summary(m).total = Cardinality(Mine(m))
      BY <2>1, SummaryCounts
    <2>3. QED BY <2>2 DEF Cold
  <1>2. PICK n \in DOMAIN report : report[n].model = m
    <2>1. Cardinality({}) = 0 /\ ~(0 > 0)
      BY FS_EmptySet
    <2>2. Mine(m) # {}
      BY <1>1, <2>1
    <2>3. QED BY <2>2 DEF Mine
  <1>3. /\ Shaped /\ n \in Nat \ {0} /\ n <= Total(plan) /\ Len(report) \in Nat
        /\ DOMAIN report = 1..Len(report) /\ Recorded(report[n], RunAt(n))
    BY RunsMade
  <1>4. PICK first \in 1..n : RunAt(first) = [model |-> RunAt(n).model, repetition |-> 1,
                                              entry |-> cases[1]]
    BY <1>3, FirstRun
  <1>5. first \in DOMAIN report
    BY <1>3
  <1>6. Recorded(report[first], RunAt(first)) /\ first \in Nat \ {0} /\ first <= Total(plan)
    BY <1>5, RunsMade
  <1>7. first \in S
    BY <1>2, <1>3, <1>4, <1>5, <1>6 DEF Recorded
  <1>8. ASSUME NEW i \in S PROVE i = first
    <2>1. i \in Nat \ {0} /\ i <= Total(plan) /\ Recorded(report[i], RunAt(i))
      BY RunsMade
    <2>2. /\ RunAt(i).model = RunAt(first).model /\ RunAt(i).repetition = RunAt(first).repetition
          /\ RunAt(i).entry = RunAt(first).entry
      BY <1>2, <1>3, <1>4, <2>1 DEF Recorded
    <2>3. QED BY <1>3, <1>6, <2>1, <2>2, RunsDiffer
  <1>9. S = {first}
    BY <1>7, <1>8
  <1>10. QED BY <1>1, <1>9, FS_Singleton

\* The fractions reported have a numerator within their denominator.
LEMMA FractionsHold ==
  ASSUME RunsInv, NEW m
  PROVE  LET s == Summary(m)
         IN  /\ s.requirement["Satisfied"] <= s.applicable
             /\ s.accepted <= s.verdict["Allow"]
             /\ s.recognized <= s.support["Unsupported"]
  <1> DEFINE met == Labelled(m, RequirementOf, "Satisfied")
             allowed == Labelled(m, VerdictOf, "Allow")
             unsupported == Labelled(m, SupportOf, "Unsupported")
  <1>1. IsList(report)
    BY DEF RunsInv, MatchInv, ReportInv, PreparedInv
  <1>2. \A n \in DOMAIN report : Recorded(report[n], RunAt(n))
    BY DEF RunsInv
  <1>3. /\ met = {n \in DOMAIN report : report[n].model = m /\ report[n].requirement = "Satisfied"}
        /\ allowed = {n \in DOMAIN report : report[n].model = m /\ report[n].verdict = "Allow"}
        /\ unsupported = {n \in DOMAIN report : /\ report[n].model = m
                                                /\ report[n].expectedSupport = "Unsupported"}
    BY DEF Labelled, RequirementOf, VerdictOf, SupportOf
  <1>4. /\ Summary(m).requirement["Satisfied"] = Cardinality(met)
        /\ Summary(m).applicable = Cardinality(Applicable(m))
        /\ Summary(m).accepted = Cardinality(AcceptedRuns(m))
        /\ Summary(m).verdict["Allow"] = Cardinality(allowed)
        /\ Summary(m).recognized = Cardinality(Recognized(m))
        /\ Summary(m).support["Unsupported"] = Cardinality(unsupported)
    <2>1. "Satisfied" \in Requirements /\ "Allow" \in Verdicts /\ "Unsupported" \in SupportStates
      BY DEF Requirements, Verdicts, SupportStates
    <2>2. /\ Summary(m).applicable = Cardinality(Applicable(m))
          /\ Summary(m).accepted = Cardinality(AcceptedRuns(m))
          /\ Summary(m).recognized = Cardinality(Recognized(m))
      BY <1>1, SummaryCounts
    <2>3. /\ Summary(m).requirement =
               [l \in Requirements |-> Cardinality(Labelled(m, RequirementOf, l))]
          /\ Summary(m).verdict = [l \in Verdicts |-> Cardinality(Labelled(m, VerdictOf, l))]
          /\ Summary(m).support =
               [l \in SupportStates |-> Cardinality(Labelled(m, SupportOf, l))]
      BY <1>1, SummaryBreaksDown
    <2>4. QED BY <2>1, <2>2, <2>3
  <1> HIDE DEF met, allowed, unsupported
  <1>5. /\ met \subseteq Applicable(m) /\ Applicable(m) \subseteq DOMAIN report
        /\ AcceptedRuns(m) \subseteq allowed /\ allowed \subseteq DOMAIN report
        /\ Recognized(m) \subseteq unsupported /\ unsupported \subseteq DOMAIN report
    BY <1>2, <1>3 DEF Recorded, Accepted, Applicable, AcceptedRuns, Recognized
  <1>6. QED BY <1>1, <1>4, <1>5, RunsAreFinite

\* For every dataset, list of models and number of repetitions, however the runs
\* go: each run of a model is counted once in each breakdown and in one trend, no
\* fraction exceeds one, one run of each model is cold, a report that is written,
\* in whole or in part, has all runs, and no evaluation succeeds without its
\* report (evaluation.cpp:147, 655-900).
THEOREM ReportsAddUp == Spec => []ReportAddsUp
  <1>1. RunsInv => ReportAddsUp
    <2> SUFFICES ASSUME RunsInv PROVE ReportAddsUp
      OBVIOUS
    <2>1. ASSUME NEW k \in DOMAIN plan.models
          PROVE  LET m == plan.models[k]
                     s == Summary(m)
                     trends == Trends
                     keys == {key \in DOMAIN trends : key[1] = m}
                 IN  /\ \A f \in {s.support, s.semantic, s.requirement, s.verdict} :
                          SumOf(f) = s.total
                     /\ SumOf([key \in keys |-> trends[key].repetitions]) = s.total
                     /\ SumOf([key \in keys |-> trends[key].satisfied]) =
                          s.requirement["Satisfied"]
                     /\ SumOf([key \in keys |-> trends[key].accepted]) = s.accepted
                     /\ \A key \in keys : trends[key].repetitions <= plan.repetitions
                     /\ s.requirement["Satisfied"] <= s.applicable
                     /\ s.accepted <= s.verdict["Allow"]
                     /\ s.recognized <= s.support["Unsupported"]
                     /\ s.total > 0 => s.cold = 1
      <3> DEFINE m == plan.models[k]
      <3> HIDE DEF m
      <3>1. \A f \in {Summary(m).support, Summary(m).semantic, Summary(m).requirement,
                      Summary(m).verdict} : SumOf(f) = Summary(m).total
        BY BreakdownsAdd
      <3>2. LET trends == Trends
                keys == {key \in DOMAIN trends : key[1] = m}
            IN  /\ SumOf([key \in keys |-> trends[key].repetitions]) = Summary(m).total
                /\ SumOf([key \in keys |-> trends[key].satisfied]) =
                     Summary(m).requirement["Satisfied"]
                /\ SumOf([key \in keys |-> trends[key].accepted]) = Summary(m).accepted
        BY TrendsAdd
      <3>3. \A key \in DOMAIN Trends : Trends[key].repetitions <= plan.repetitions
        BY TrendsBounded
      <3>4. Summary(m).total > 0 => Summary(m).cold = 1
        BY OneIsCold
      <3>5. QED BY <3>1, <3>2, <3>3, <3>4, FractionsHold, Zenon DEF m
    <2>2. written # "none" => Len(report) = Total(plan)
      BY DEF RunsInv
    <2>3. exit = 0 => IF plan.caller = "ai_eval" THEN written # "none"
                      ELSE Len(report) = Total(plan) \/ stop
      BY DEF RunsInv, Succeeded
    <2>4. QED BY <2>1, <2>2, <2>3, Zenon DEF ReportAddsUp, SumOf
  <1>2. QED BY <1>1, RunsInit, RunsStep, PTL DEF Spec
=============================================================================
