--------------------------- MODULE IrProgram_proofs ---------------------------
(***************************************************************************)
(* Lowering and the Validator agree: what lowering makes of any analysed   *)
(* script is an ir::Program the Validator accepts.  The product of the     *)
(* sweeps is a recursive function, so induction over the naturals comes    *)
(* first; the provers take it from the well-foundedness of finite sets.    *)
(***************************************************************************)
EXTENDS IrProgram, FiniteSetTheorems, TLAPS

USE SweepAssumption

-----------------------------------------------------------------------------
(* Induction and recursion.                                                *)

\* A set of naturals has a least element.
LEMMA LeastNatural ==
  ASSUME NEW T \in SUBSET Nat, T # {}
  PROVE  \E m \in T : \A n \in T : m <= n
  <1> DEFINE Below == {0..n : n \in T}
  <1>1. Below \subseteq FiniteSubsetsOf(Nat) /\ Below # {}
    <2>1. \A n \in T : IsFiniteSet(0..n) /\ 0..n \subseteq Nat
      BY FS_Interval
    <2>2. QED BY <2>1 DEF FiniteSubsetsOf
  <1>2. PICK x \in Below : \A y \in Below : <<y, x>> \notin StrictSubsetOrdering(Nat)
    <2> HIDE DEF Below
    <2>1. IsWellFoundedOn(StrictSubsetOrdering(Nat), FiniteSubsetsOf(Nat))
      BY FS_StrictSubsetOrderingWellFounded
    <2>2. QED BY <1>1, <2>1, WFMin
  <1>3. PICK m \in T : x = 0..m
    OBVIOUS
  <1>4. ASSUME NEW n \in T, n < m PROVE FALSE
    <2>1. 0..n \in Below /\ 0..n \subseteq x /\ 0..n # x
      BY <1>3, <1>4
    <2>2. <<0..n, x>> \in StrictSubsetOrdering(Nat)
      BY <2>1, <1>3 DEF StrictSubsetOrdering
    <2>3. QED BY <1>2, <2>1, <2>2
  <1>5. QED BY <1>4

\* Induction from 0 to n, with the property given by the set of its cases.
LEMMA InductionTo ==
  ASSUME NEW n \in Nat, NEW T, 0 \in T, \A k \in 1..n : k - 1 \in T => k \in T
  PROVE  0..n \subseteq T
  <1> SUFFICES ASSUME (0..n) \ T # {} PROVE FALSE
    OBVIOUS
  <1> DEFINE U == (0..n) \ T
  <1>1. U \in SUBSET Nat /\ U # {}
    OBVIOUS
  <1>2. PICK m \in U : \A k \in U : m <= k
    <2> HIDE DEF U
    <2>1. QED BY <1>1, LeastNatural
  <1>3. QED BY <1>2

\* f is defined from 0 to n by recursion on its argument.
Recurs(f, n, start, step) ==
  f[0] = start /\ \A k \in 1..n : f[k] = step[k][f[k - 1]]

\* There is such a function.
LEMMA RecursionTo ==
  ASSUME NEW n \in Nat, NEW S, NEW start \in S, NEW step \in [1..n -> [S -> S]]
  PROVE  \E f \in [0..n -> S] : Recurs(f, n, start, step)
  <1> USE DEF Recurs
  <1> DEFINE Goes(f, m) == Recurs(f, m, start, step)
             T == {m \in 0..n : \E f \in [0..m -> S] : Goes(f, m)}
  <1>1. 0 \in T
    <2>1. Goes([k \in 0..0 |-> start], 0) /\ [k \in 0..0 |-> start] \in [0..0 -> S]
      OBVIOUS
    <2>2. \E f \in [0..0 -> S] : Goes(f, 0)
      BY <2>1
    <2>3. 0 \in 0..n
      OBVIOUS
    <2>4. QED BY <2>2, <2>3
  <1>2. ASSUME NEW m \in 1..n, m - 1 \in T PROVE m \in T
    <2>1. PICK f \in [0..(m - 1) -> S] : Goes(f, m - 1)
      BY <1>2
    <2> DEFINE g == [k \in 0..m |-> IF k = m THEN step[m][f[m - 1]] ELSE f[k]]
    <2>2. g \in [0..m -> S]
      <3>1. step[m] \in [S -> S] /\ f[m - 1] \in S
        OBVIOUS
      <3>2. QED BY <3>1
    <2>3. g[0] = start
      BY <2>1
    <2>4. ASSUME NEW k \in 1..m PROVE g[k] = step[k][g[k - 1]]
      <3>1. CASE k = m
        BY <3>1
      <3>2. CASE k # m
        BY <2>1, <3>2
      <3>3. QED BY <3>1, <3>2
    <2> HIDE DEF g
    <2>5. \E h \in [0..m -> S] : Goes(h, m)
      BY <2>2, <2>3, <2>4
    <2>6. m \in 0..n
      OBVIOUS
    <2>7. QED BY <2>5, <2>6
  <1>3. n \in T
    <2> HIDE DEF T
    <2>1. 0..n \subseteq T
      BY <1>1, <1>2, InductionTo
    <2>2. QED BY <2>1
  <1>4. QED BY <1>3

-----------------------------------------------------------------------------
(* Sequences, of whatever elements.                                        *)

IsSeq(v) == Len(v) \in Nat /\ v = [i \in 1..Len(v) |-> v[i]]

LEMMA SeqIsSeq ==
  ASSUME NEW S, NEW v \in Seq(S)
  PROVE  IsSeq(v) /\ DOMAIN v = 1..Len(v)
  BY DEF IsSeq

LEMMA EmptyIsSeq == IsSeq(<<>>) /\ Len(<<>>) = 0
  <1>1. <<>> \in Seq({})
    OBVIOUS
  <1>2. QED BY <1>1, SeqIsSeq

LEMMA ElementOf ==
  ASSUME NEW S, NEW v \in Seq(S), NEW i \in DOMAIN v
  PROVE  v[i] \in S
  OBVIOUS

LEMMA FunctionIsSeq ==
  ASSUME NEW n \in Nat, NEW v, v = [i \in 1..n |-> v[i]]
  PROVE  IsSeq(v) /\ Len(v) = n /\ DOMAIN v = 1..n
  <1> DEFINE S == {v[i] : i \in 1..n}
  <1>1. v \in [1..n -> S]
    OBVIOUS
  <1>2. v \in Seq(S) /\ Len(v) = n
    BY <1>1
  <1>3. QED BY <1>2, SeqIsSeq

LEMMA AppendIsSeq ==
  ASSUME NEW v, NEW x, IsSeq(v)
  PROVE  /\ IsSeq(Append(v, x)) /\ Len(Append(v, x)) = Len(v) + 1
         /\ DOMAIN v = 1..Len(v) /\ DOMAIN Append(v, x) = 1..(Len(v) + 1)
         /\ \A i \in 1..Len(v) : Append(v, x)[i] = v[i]
         /\ Append(v, x)[Len(v) + 1] = x
  <1> DEFINE S == {v[i] : i \in 1..Len(v)} \cup {x}
  <1>1. Len(v) \in Nat /\ v = [i \in 1..Len(v) |-> v[i]]
    BY DEF IsSeq
  <1>2. v \in [1..Len(v) -> S] /\ x \in S
    BY <1>1
  <1>3. v \in Seq(S)
    BY <1>1, <1>2
  <1>4. Append(v, x) \in Seq(S) /\ Len(Append(v, x)) = Len(v) + 1
    BY <1>2, <1>3
  <1>5. /\ \A i \in 1..Len(v) : Append(v, x)[i] = v[i]
        /\ Append(v, x)[Len(v) + 1] = x
    BY <1>2, <1>3
  <1>6. QED BY <1>1, <1>4, <1>5, SeqIsSeq

LEMMA ConcatIsSeq ==
  ASSUME NEW v, NEW w, IsSeq(v), IsSeq(w)
  PROVE  IsSeq(v \o w) /\ Len(v \o w) = Len(v) + Len(w)
  <1> DEFINE S == {v[i] : i \in 1..Len(v)} \cup {w[i] : i \in 1..Len(w)}
  <1>1. /\ Len(v) \in Nat /\ v = [i \in 1..Len(v) |-> v[i]]
        /\ Len(w) \in Nat /\ w = [i \in 1..Len(w) |-> w[i]]
    BY DEF IsSeq
  <1>2. v \in [1..Len(v) -> S] /\ w \in [1..Len(w) -> S]
    BY <1>1
  <1>3. v \in Seq(S) /\ w \in Seq(S)
    BY <1>1, <1>2, SMTT(30)
  <1>4. v \o w \in Seq(S) /\ Len(v \o w) = Len(v) + Len(w)
    BY <1>3
  <1>5. QED BY <1>4, SeqIsSeq

LEMMA JoinedAt ==
  ASSUME NEW S, NEW u \in Seq(S), NEW x \in S, NEW w \in Seq(S), NEW s,
         s = u \o <<x>> \o w
  PROVE  /\ s \in Seq(S) /\ Len(s) = Len(u) + 1 + Len(w)
         /\ \A i \in 1..Len(u) : s[i] = u[i]
         /\ s[Len(u) + 1] = x
         /\ \A k \in 1..Len(w) : s[Len(u) + 1 + k] = w[k]
  <1> DEFINE t == Append(u, x)
  <1>1. u \o <<x>> = t
    OBVIOUS
  <1>2. /\ t \in Seq(S) /\ Len(t) = Len(u) + 1
        /\ \A i \in 1..Len(u) : t[i] = u[i]
        /\ t[Len(u) + 1] = x
    OBVIOUS
  <1>3. s = t \o w
    BY <1>1
  <1> HIDE DEF t
  <1>4. /\ s \in Seq(S) /\ Len(s) = Len(t) + Len(w)
        /\ \A i \in 1..Len(t) : s[i] = t[i]
        /\ \A k \in 1..Len(w) : s[Len(t) + k] = w[k]
    BY <1>2, <1>3
  <1>5. QED BY <1>2, <1>4

-----------------------------------------------------------------------------
(* Products of point counts.                                               *)

LEMMA ProductsAre ==
  ASSUME NEW counts \in Seq(Nat)
  PROVE  /\ Products(counts) \in [0..Len(counts) -> Nat]
         /\ Products(counts)[0] = 1
         /\ \A a \in 1..Len(counts) :
              Products(counts)[a] = Products(counts)[a - 1] * counts[a]
  <1> DEFINE n == Len(counts)
             step == [a \in 1..n |-> [v \in Nat |-> v * counts[a]]]
             Defines(g) == g = [a \in 0..n |-> IF a = 0 THEN 1 ELSE g[a - 1] * counts[a]]
  <1>1. n \in Nat /\ \A a \in 1..n : counts[a] \in Nat
    OBVIOUS
  <1>2. step \in [1..n -> [Nat -> Nat]]
    BY <1>1
  <1>3. PICK f \in [0..n -> Nat] : f[0] = 1 /\ \A a \in 1..n : f[a] = step[a][f[a - 1]]
    <2> HIDE DEF step, n
    <2>1. 1 \in Nat
      OBVIOUS
    <2>2. \E f \in [0..n -> Nat] : Recurs(f, n, 1, step)
      BY <1>1, <1>2, <2>1, RecursionTo
    <2>3. QED BY <2>2 DEF Recurs
  <1>4. ASSUME NEW a \in 1..n PROVE f[a] = f[a - 1] * counts[a]
    <2>1. f[a - 1] \in Nat /\ f[a] = step[a][f[a - 1]]
      <3> HIDE DEF step, n
      <3>1. n \in Nat
        BY <1>1
      <3>2. a - 1 \in 0..n
        BY <3>1
      <3>3. f[a - 1] \in Nat
        BY <1>3, <3>2
      <3>4. f[a] = step[a][f[a - 1]]
        BY <1>3
      <3>5. QED BY <3>3, <3>4
    <2> HIDE DEF n
    <2>2. step[a] = [v \in Nat |-> v * counts[a]]
      OBVIOUS
    <2> HIDE DEF step
    <2>3. QED BY <2>1, <2>2
  <1>5. Defines(f)
    BY <1>1, <1>3, <1>4
  <1>6. Products(counts) = CHOOSE g : Defines(g)
    BY DEF Products
  <1>7. Defines(Products(counts))
    <2> HIDE DEF Defines
    <2>1. QED BY <1>5, <1>6, Zenon
  <1> DEFINE p == Products(counts)
  <1>8. p = [a \in 0..n |-> IF a = 0 THEN 1 ELSE p[a - 1] * counts[a]]
    BY <1>7
  <1> HIDE DEF p, n
  <1>9. DOMAIN p = 0..n /\ p[0] = 1 /\ \A a \in 1..n : p[a] = p[a - 1] * counts[a]
    BY <1>1, <1>8
  <1> DEFINE T == {a \in 0..n : p[a] \in Nat}
  <1>10. 0 \in T /\ \A a \in 1..n : a - 1 \in T => a \in T
    <2>1. 0 \in T
      BY <1>1, <1>9
    <2>2. ASSUME NEW a \in 1..n, p[a - 1] \in Nat PROVE p[a] \in Nat
      <3>1. counts[a] \in Nat /\ p[a] = p[a - 1] * counts[a]
        BY <1>1, <1>9
      <3>2. QED BY <2>2, <3>1
    <2>3. QED BY <1>1, <2>1, <2>2
  <1>11. 0..n \subseteq T
    <2> HIDE DEF T
    <2>1. QED BY <1>1, <1>10, InductionTo
  <1>12. p \in [0..n -> Nat]
    BY <1>8, <1>11
  <1>13. QED BY <1>9, <1>12 DEF p, n

\* The product of a prefix is the product up to its end.
LEMMA PrefixProducts ==
  ASSUME NEW counts \in Seq(Nat), NEW longer \in Seq(Nat), Len(counts) <= Len(longer),
         \A a \in 1..Len(counts) : longer[a] = counts[a]
  PROVE  \A a \in 0..Len(counts) : Products(longer)[a] = Products(counts)[a]
  <1> DEFINE n == Len(counts)  p == Products(counts)  q == Products(longer)
             T == {a \in 0..n : q[a] = p[a]}
  <1>1. /\ n \in Nat /\ p[0] = 1 /\ \A a \in 1..n : p[a] = p[a - 1] * counts[a]
        /\ q[0] = 1 /\ \A a \in 1..n : q[a] = q[a - 1] * counts[a]
    <2>1. \A a \in 1..n : a \in 1..Len(longer)
      OBVIOUS
    <2>2. \A a \in 1..n : q[a] = q[a - 1] * longer[a]
      BY <2>1, ProductsAre
    <2>3. QED BY <2>2, ProductsAre
  <1> HIDE DEF n, p, q
  <1>2. 0 \in T
    BY <1>1
  <1>3. ASSUME NEW a \in 1..n, a - 1 \in T PROVE a \in T
    BY <1>1, <1>3
  <1>4. 0..n \subseteq T
    <2> HIDE DEF T
    <2>1. QED BY <1>1, <1>2, <1>3, InductionTo
  <1>5. QED BY <1>4 DEF n, p, q

LEMMA ExtendedProduct ==
  ASSUME NEW counts \in Seq(Nat), NEW longer \in Seq(Nat), Len(longer) = Len(counts) + 1,
         \A a \in 1..Len(counts) : longer[a] = counts[a]
  PROVE  Product(longer) = Product(counts) * longer[Len(longer)]
  <1> DEFINE n == Len(counts)
  <1>1. n \in Nat /\ n \in 0..n /\ n + 1 \in 1..Len(longer) /\ Len(counts) <= Len(longer)
    OBVIOUS
  <1>2. Products(longer)[n] = Products(counts)[n]
    BY <1>1, PrefixProducts
  <1>3. Products(longer)[n + 1] = Products(longer)[(n + 1) - 1] * longer[n + 1]
    BY <1>1, ProductsAre
  <1>4. (n + 1) - 1 = n
    BY <1>1
  <1>5. QED BY <1>2, <1>3, <1>4 DEF Product

\* Factors of one or more: no partial product is larger than the whole.
LEMMA ProductsGrow ==
  ASSUME NEW counts \in Seq(Nat), \A a \in 1..Len(counts) : counts[a] > 0
  PROVE  \A a \in 0..Len(counts) :
           Products(counts)[a] > 0 /\ Products(counts)[a] <= Product(counts)
  <1> DEFINE n == Len(counts)  p == Products(counts)
             T == {a \in 0..n : p[a] > 0}
             U == {k \in 0..n : p[n - k] <= p[n]}
  <1>1. /\ n \in Nat /\ p \in [0..n -> Nat] /\ p[0] = 1
        /\ \A a \in 1..n : p[a] = p[a - 1] * counts[a]
        /\ \A a \in 1..n : counts[a] \in Nat /\ counts[a] > 0
    BY ProductsAre
  <1> HIDE DEF n, p
  <1>2. \A u, v \in Nat : v > 0 => u * v >= u /\ (u > 0 => u * v > 0)
    OBVIOUS
  <1>3. 0..n \subseteq T
    <2>1. 0 \in T
      BY <1>1
    <2>2. ASSUME NEW a \in 1..n, a - 1 \in T PROVE a \in T
      <3>1. p[a - 1] \in Nat /\ p[a - 1] > 0 /\ counts[a] \in Nat /\ counts[a] > 0
        BY <1>1, <2>2
      <3>2. p[a - 1] * counts[a] > 0
        BY <1>2, <3>1
      <3>3. QED BY <1>1, <3>2
    <2> HIDE DEF T
    <2>3. QED BY <1>1, <2>1, <2>2, InductionTo
  <1>4. 0..n \subseteq U
    <2>1. 0 \in U
      BY <1>1
    <2>2. ASSUME NEW k \in 1..n, k - 1 \in U PROVE k \in U
      <3> DEFINE a == n - (k - 1)
      <3>1. a \in 1..n /\ a - 1 = n - k /\ p[a] <= p[n]
        BY <1>1, <2>2
      <3> HIDE DEF a
      <3>2. p[a - 1] \in Nat /\ counts[a] \in Nat /\ counts[a] > 0 /\ p[a] = p[a - 1] * counts[a]
        BY <1>1, <3>1
      <3>3. p[a - 1] <= p[a]
        BY <1>2, <3>2
      <3>4. p[a] \in Nat /\ p[n] \in Nat
        BY <1>1, <3>1
      <3>5. p[n - k] <= p[n]
        BY <3>1, <3>2, <3>3, <3>4
      <3>6. QED BY <1>1, <3>5
    <2> HIDE DEF U
    <2>3. QED BY <1>1, <2>1, <2>2, InductionTo
  <1>5. ASSUME NEW a \in 0..n PROVE p[a] > 0 /\ p[a] <= p[n]
    <2>1. a \in T
      BY <1>3
    <2>2. n - a \in 0..n /\ n - (n - a) = a
      BY <1>1
    <2>3. n - a \in U
      <3> HIDE DEF U
      <3>1. QED BY <1>4, <2>2
    <2>4. QED BY <2>1, <2>2, <2>3
  <1>6. QED BY <1>5 DEF n, p, Product

-----------------------------------------------------------------------------
(* The points of one sweep.                                                *)

LEMMA ToleranceNat ==
  ASSUME NEW s \in Bounds
  PROVE  Tolerance(s) \in Nat
  <1>1. Magnitude(s) \in Nat
    BY DEF Magnitude, Larger, Abs, Bounds
  <1>2. QED BY <1>1 DEF Tolerance

LEMMA Distributes ==
  ASSUME NEW a \in Int, NEW b \in Int, NEW t \in Int
  PROVE  (a + b) * t = a * t + b * t /\ a * t \in Int
  OBVIOUS

LEMMA LatticeGrows ==
  ASSUME NEW s \in Bounds, s.step > 0, NEW i \in Int, NEW j \in Int, i < j
  PROVE  /\ Lattice(s, i) \in Int /\ Lattice(s, j) \in Int
         /\ Lattice(s, i) + s.step <= Lattice(s, j)
         /\ Lattice(s, i + 1) = Lattice(s, i) + s.step
  <1> DEFINE t == s.step
  <1>1. t \in Int /\ t > 0 /\ s.start \in Int
    BY DEF Bounds
  <1> DEFINE k == j - i - 1
  <1>2. k \in Nat /\ i + 1 \in Int /\ j = (i + 1) + k
    OBVIOUS
  <1> HIDE DEF t, k
  <1>3. k * t \in Nat
    <2>1. \A a, b \in Nat : a * b \in Nat
      OBVIOUS
    <2>2. QED BY <1>1, <1>2, <2>1
  <1>4. j * t = (i + 1) * t + k * t /\ (i + 1) * t \in Int
    BY <1>1, <1>2, Distributes
  <1>5. (i + 1) * t = i * t + t /\ i * t \in Int
    <2>1. (i + 1) * t = i * t + 1 * t /\ i * t \in Int
      BY <1>1, Distributes
    <2>2. QED BY <1>1, <2>1
  <1>6. Lattice(s, i) = s.start + i * t /\ Lattice(s, j) = s.start + j * t
        /\ Lattice(s, i + 1) = s.start + (i + 1) * t
    BY DEF Lattice, t
  <1>7. Lattice(s, i) \in Int /\ Lattice(s, j) \in Int
    BY <1>1, <1>3, <1>4, <1>5, <1>6
  <1>8. s.step = t
    BY DEF t
  <1>9. QED BY <1>1, <1>3, <1>4, <1>5, <1>6, <1>7, <1>8

\* The last point at or below the end.
LEMMA Floored ==
  ASSUME NEW s \in Bounds, ValidSweep(s)
  PROVE  /\ FlooredIndex(s) \in Nat
         /\ Lattice(s, FlooredIndex(s)) <= s.end
         /\ Lattice(s, FlooredIndex(s) + 1) > s.end
  <1> DEFINE w == s.end - s.start  t == s.step  q == w \div t
  <1>1. w \in Nat /\ t \in Nat /\ t > 0 /\ s.start \in Int /\ s.end = s.start + w
    BY DEF ValidSweep, Bounds
  <1> HIDE DEF w, t
  <1>2. q \in Nat /\ q * t <= w /\ (q + 1) * t > w
    BY <1>1
  <1>3. FlooredIndex(s) = q
    BY DEF FlooredIndex, w, t
  <1> HIDE DEF q
  <1>4. q * t \in Int /\ (q + 1) * t \in Int
    BY <1>1, <1>2
  <1>5. Lattice(s, q) = s.start + q * t /\ Lattice(s, q + 1) = s.start + (q + 1) * t
    BY DEF Lattice, t
  <1>6. QED BY <1>1, <1>2, <1>3, <1>4, <1>5

\* Every point but the last lies at or below the end and, with a step larger
\* than the tolerance, is not moved to it.
LEMMA Last ==
  ASSUME NEW s \in Bounds, ValidSweep(s)
  PROVE  /\ LastIndex(s) \in Nat
         /\ \A i \in 0..(LastIndex(s) - 1) :
              Lattice(s, i) <= s.end /\ Lattice(s, i) \in Int
         /\ Lattice(s, LastIndex(s)) \in Int
         /\ Lattice(s, LastIndex(s)) > s.end => Nearby(s, Lattice(s, LastIndex(s)))
         /\ ~Nearby(s, Lattice(s, LastIndex(s))) =>
              /\ Lattice(s, LastIndex(s)) <= s.end
              /\ Lattice(s, LastIndex(s) + 1) > s.end + Tolerance(s)
         /\ Nearby(s, Lattice(s, LastIndex(s) - 1)) /\ LastIndex(s) > 0 =>
              Lattice(s, LastIndex(s)) <= s.end
  <1> DEFINE q == FlooredIndex(s)  L == LastIndex(s)
  <1>0. s.step \in Int /\ s.step > 0 /\ s.start \in Int /\ s.end \in Int /\ Tolerance(s) \in Nat
    BY ToleranceNat DEF Bounds, ValidSweep
  <1>1. q \in Nat /\ Lattice(s, q) <= s.end /\ Lattice(s, q + 1) > s.end
    BY Floored
  <1> HIDE DEF q
  <1>2. Lattice(s, q) \in Int /\ Lattice(s, q + 1) \in Int
    <2>1. q \in Int /\ q + 1 \in Int /\ q < q + 1
      BY <1>1
    <2>2. QED BY <1>0, <2>1, LatticeGrows
  <1>3. \/ /\ L = q
           /\ Nearby(s, Lattice(s, q)) \/ Lattice(s, q + 1) > s.end + Tolerance(s)
        \/ /\ L = q + 1
           /\ ~Nearby(s, Lattice(s, q)) /\ Lattice(s, q + 1) <= s.end + Tolerance(s)
    BY <1>0, <1>1, <1>2 DEF LastIndex, q
  <1> HIDE DEF L
  <1>4. \A i \in 0..(L - 1) : Lattice(s, i) <= s.end /\ Lattice(s, i) \in Int
    <2> SUFFICES ASSUME NEW i \in 0..(L - 1)
                 PROVE  Lattice(s, i) <= s.end /\ Lattice(s, i) \in Int
      OBVIOUS
    <2>1. i \in Int /\ i <= q
      BY <1>1, <1>3
    <2>2. CASE i = q
      BY <1>1, <1>2, <2>2
    <2>3. CASE i < q
      <3>0. q \in Int
        BY <1>1
      <3>1. Lattice(s, i) \in Int /\ Lattice(s, i) + s.step <= Lattice(s, q)
        BY <1>0, <3>0, <2>1, <2>3, LatticeGrows
      <3>2. QED BY <1>0, <1>1, <1>2, <3>1
    <2>4. QED BY <1>1, <2>1, <2>2, <2>3
  <1>5. L \in Nat /\ Lattice(s, L) \in Int
    BY <1>1, <1>2, <1>3
  <1>6. Lattice(s, L) > s.end => Nearby(s, Lattice(s, L))
    BY <1>0, <1>1, <1>2, <1>3 DEF Nearby, Abs
  <1>7. ~Nearby(s, Lattice(s, L)) =>
          Lattice(s, L) <= s.end /\ Lattice(s, L + 1) > s.end + Tolerance(s)
    BY <1>0, <1>1, <1>2, <1>3 DEF Nearby, Abs
  <1>8. Nearby(s, Lattice(s, L - 1)) /\ L > 0 => Lattice(s, L) <= s.end
    <2>1. L = q + 1 => L - 1 = q
      BY <1>1
    <2>2. QED BY <1>0, <1>1, <1>2, <1>3, <2>1
  <1>9. QED BY <1>4, <1>5, <1>6, <1>7, <1>8 DEF L

\* What the values set for one axis are: within the end, a step apart up to the
\* tolerance, and increasing when the step is larger than the tolerance.
LEMMA ValuesSpaced ==
  ASSUME NEW s \in Bounds, ValidSweep(s), NEW i \in 0..LastIndex(s)
  PROVE  /\ ValueAt(s, i) \in Int /\ ValueAt(s, i) <= s.end
         /\ i > 0 =>
              /\ Abs(ValueAt(s, i) - ValueAt(s, i - 1) - s.step) <= Tolerance(s)
              /\ s.step > Tolerance(s) => ValueAt(s, i - 1) < ValueAt(s, i)
  <1> DEFINE L == LastIndex(s)
  <1>1. s.step \in Int /\ s.step > 0 /\ s.end \in Int /\ Tolerance(s) \in Nat
    BY ToleranceNat DEF Bounds, ValidSweep
  <1>2. /\ L \in Nat /\ i \in 0..L
        /\ \A j \in 0..(L - 1) : Lattice(s, j) <= s.end /\ Lattice(s, j) \in Int
        /\ Lattice(s, L) \in Int
        /\ Lattice(s, L) > s.end => Nearby(s, Lattice(s, L))
        /\ Nearby(s, Lattice(s, L - 1)) /\ L > 0 => Lattice(s, L) <= s.end
    BY Last
  <1> HIDE DEF L
  <1>3. i = L \/ i \in 0..(L - 1)
    BY <1>2
  <1>4. Lattice(s, i) \in Int /\ (Lattice(s, i) > s.end => Nearby(s, Lattice(s, i)))
    BY <1>1, <1>2, <1>3
  <1>5. ValueAt(s, i) \in Int /\ ValueAt(s, i) <= s.end
    BY <1>1, <1>4 DEF ValueAt
  <1>6. ASSUME i > 0
        PROVE  /\ Abs(ValueAt(s, i) - ValueAt(s, i - 1) - s.step) <= Tolerance(s)
               /\ s.step > Tolerance(s) => ValueAt(s, i - 1) < ValueAt(s, i)
    <2>1. i - 1 \in 0..(L - 1) /\ i - 1 \in Int /\ i \in Int /\ i - 1 < i /\ (i - 1) + 1 = i
      BY <1>2, <1>6
    <2>2. Lattice(s, i - 1) <= s.end /\ Lattice(s, i - 1) \in Int
      BY <1>2, <2>1
    <2>3. Lattice(s, i) = Lattice(s, i - 1) + s.step
      <3>1. Lattice(s, (i - 1) + 1) = Lattice(s, i - 1) + s.step
        BY <1>1, <2>1, LatticeGrows
      <3>2. QED BY <2>1, <3>1
    <2>4. Nearby(s, Lattice(s, i - 1)) => Lattice(s, i) <= s.end
      BY <1>1, <1>2, <1>3, <1>4, <1>6
    <2>5. QED BY <1>1, <1>4, <2>2, <2>3, <2>4 DEF ValueAt, Nearby, Abs
  <1>7. QED BY <1>5, <1>6

\* The points of an accepted sweep can be counted.
LEMMA PlannedCount ==
  ASSUME NEW s \in Bounds, Planned(s)
  PROVE  /\ ValidSweep(s) /\ LastIndex(s) \in Nat
         /\ PointCount(s) = LastIndex(s) + 1 /\ PointCount(s) <= MaxSweepPoints
  BY Last DEF Planned, TooLarge, PointCount

-----------------------------------------------------------------------------
(* What a lowered program consists of.                                     *)

MeasuredId(script) ==
  LET power == {k \in 1..Len(script.measurements) : script.measurements[k] = "MeasurePower"}
  IN  1 + Len(script.sweeps) + CHOOSE k \in power : \A j \in power : k <= j

ErrorId(script) == Len(script.sweeps) + Len(script.measurements) + 1 + script.derived

CorrectionId(script) == ErrorId(script) + 2 * script.assertions + 1

SweptFrequency(script) ==
  CHOOSE a \in 1..Len(script.sweeps) : script.sweeps[a].dimension = "frequency"

PointCounts(script) == [a \in 1..Len(script.sweeps) |-> PointCount(script.sweeps[a].bounds)]

\* The value the program has at id i.
ValueOf(script, i) ==
  IF i = 1 THEN Value(1, "ReferencePower", <<>>)
  ELSE IF i <= 1 + Len(script.sweeps)
  THEN Value(i, SweepOp(script.sweeps[i - 1].dimension), <<>>)
  ELSE IF i <= 1 + Len(script.sweeps) + Len(script.measurements)
  THEN Value(i, script.measurements[i - 1 - Len(script.sweeps)], <<>>)
  ELSE IF i <= ErrorId(script)
  THEN Value(i, "PowerDifference", <<MeasuredId(script), 1>>)
  ELSE IF i = CorrectionId(script)
  THEN Value(i, "PowerDifference", <<1, MeasuredId(script)>>)
  ELSE IF (i - ErrorId(script)) % 2 = 1 THEN Value(i, "Constant", <<>>)
  ELSE Value(i, "Compare", <<ErrorId(script), i - 1>>)

LEMMA Types ==
  /\ TypeOf("ReferencePower") = "Power" /\ TypeOf("MeasurePower") = "Power"
  /\ TypeOf("MeasureEvm") = "Ratio" /\ TypeOf("MeasureFrequencyError") = "FrequencyDelta"
  /\ TypeOf("SweepFrequency") = "Frequency" /\ TypeOf("SweepTemperature") = "Temperature"
  /\ TypeOf("PowerDifference") = "PowerDelta" /\ TypeOf("Constant") = "PowerDelta"
  /\ TypeOf("Compare") = "Boolean"
  <1>1. \A x : (CHOOSE t \in {x} : TRUE) = x
    OBVIOUS
  <1>2. /\ ResultTypes["ReferencePower"] = {"Power"} /\ ResultTypes["MeasurePower"] = {"Power"}
        /\ ResultTypes["MeasureEvm"] = {"Ratio"}
        /\ ResultTypes["MeasureFrequencyError"] = {"FrequencyDelta"}
        /\ ResultTypes["SweepFrequency"] = {"Frequency"}
        /\ ResultTypes["SweepTemperature"] = {"Temperature"}
        /\ ResultTypes["PowerDifference"] = {"PowerDelta"}
        /\ ResultTypes["Compare"] = {"Boolean"}
    BY DEF ResultTypes
  <1>3. QED BY <1>1, <1>2 DEF TypeOf

\* What an analysed script is made of.
LEMMA ScriptParts ==
  ASSUME NEW script \in Scripts
  PROVE  /\ Len(script.sweeps) \in Nat /\ DOMAIN script.sweeps = 1..Len(script.sweeps)
         /\ \A a \in 1..Len(script.sweeps) :
              script.sweeps[a].dimension \in Dimensions /\ script.sweeps[a].bounds \in Bounds
         /\ Len(script.measurements) \in Nat
         /\ DOMAIN script.measurements = 1..Len(script.measurements)
         /\ \A k \in 1..Len(script.measurements) : script.measurements[k] \in MeasureOps
         /\ script.legacy \in BOOLEAN /\ script.derived \in {0, 1} /\ script.assertions \in Nat
         /\ ErrorId(script) \in Nat /\ CorrectionId(script) \in Nat
         /\ CorrectionId(script) = ErrorId(script) + 2 * script.assertions + 1
         /\ ErrorId(script) =
              Len(script.sweeps) + Len(script.measurements) + 1 + script.derived
  <1>1. /\ script.sweeps \in Seq([dimension : Dimensions, bounds : Bounds])
        /\ script.measurements \in Seq(MeasureOps) /\ script.legacy \in BOOLEAN
        /\ script.assertions \in Nat /\ script.derived \in {0, 1}
    BY DEF Scripts
  <1>2. ASSUME NEW a \in 1..Len(script.sweeps)
        PROVE  script.sweeps[a].dimension \in Dimensions /\ script.sweeps[a].bounds \in Bounds
    <2>1. a \in DOMAIN script.sweeps
      BY <1>1
    <2>2. script.sweeps[a] \in [dimension : Dimensions, bounds : Bounds]
      BY <1>1, <2>1, ElementOf
    <2>3. QED BY <2>2
  <1>3. \A k \in 1..Len(script.measurements) : script.measurements[k] \in MeasureOps
    BY <1>1
  <1>4. /\ Len(script.sweeps) \in Nat /\ DOMAIN script.sweeps = 1..Len(script.sweeps)
        /\ Len(script.measurements) \in Nat
        /\ DOMAIN script.measurements = 1..Len(script.measurements)
    BY <1>1
  <1>5. /\ ErrorId(script) =
             Len(script.sweeps) + Len(script.measurements) + 1 + script.derived
        /\ CorrectionId(script) = ErrorId(script) + 2 * script.assertions + 1
    BY DEF ErrorId, CorrectionId
  <1>6. ErrorId(script) \in Nat
    <2> DEFINE n == Len(script.sweeps)  m == Len(script.measurements)  d == script.derived
    <2>1. n \in Nat /\ m \in Nat /\ d \in {0, 1} /\ ErrorId(script) = n + m + 1 + d
      BY <1>1, <1>4, <1>5
    <2> HIDE DEF n, m, d
    <2>2. QED BY <2>1
  <1>7. CorrectionId(script) \in Nat
    <2>1. \A e, s \in Nat : e + 2 * s + 1 \in Nat
      OBVIOUS
    <2>2. QED BY <1>1, <1>5, <1>6, <2>1
  <1>8. QED BY <1>1, <1>2, <1>3, <1>4, <1>5, <1>6, <1>7

LEMMA LowerIs ==
  ASSUME NEW script
  PROVE  LET p == Lower(script)
             n == Len(script.sweeps)
         IN  /\ p.reference = 1 /\ p.measurement = MeasuredId(script)
             /\ p.sweep = [frequency |-> 1 + SweptFrequency(script),
                           bounds |-> script.sweeps[SweptFrequency(script)].bounds]
             /\ p.sweeps = [a \in 1..n |->
                  [value |-> 1 + a, dimension |-> script.sweeps[a].dimension,
                   bounds |-> script.sweeps[a].bounds,
                   pointCount |-> PointCount(script.sweeps[a].bounds)]]
             /\ p.totalPointCount = Product(PointCounts(script))
             /\ p.measurements = [k \in 1..Len(script.measurements) |->
                  [value |-> 1 + n + k, op |-> script.measurements[k],
                   type |-> TypeOf(script.measurements[k]), legacy |-> script.legacy]]
             /\ p.namedValues = [i \in 1..script.derived |->
                  [value |-> ErrorId(script), type |-> "PowerDelta"]]
             /\ p.assertions = [k \in 1..script.assertions |->
                  [value |-> ErrorId(script) + 2 * k, left |-> ErrorId(script),
                   right |-> ErrorId(script) + 2 * k - 1, of |-> "PowerDelta"]]
             /\ p.calibration =
                  [named |-> TRUE, correction |-> CorrectionId(script), type |-> "PowerDelta",
                   indexes |-> [a \in 1..n |-> 1 + a],
                   indexTypes |-> [a \in 1..n |-> SweepType(script.sweeps[a].dimension)]]
             /\ p = [values |-> p.values, reference |-> p.reference,
                     measurement |-> p.measurement, sweep |-> p.sweep, sweeps |-> p.sweeps,
                     totalPointCount |-> p.totalPointCount, measurements |-> p.measurements,
                     namedValues |-> p.namedValues, assertions |-> p.assertions,
                     calibration |-> p.calibration]
  <1> DEFINE n == Len(script.sweeps)
             p == Lower(script)
  <1>1. /\ p.reference = 1 /\ p.measurement = MeasuredId(script)
        /\ p.sweep = [frequency |-> 1 + SweptFrequency(script),
                      bounds |-> script.sweeps[SweptFrequency(script)].bounds]
        /\ p.sweeps = [a \in 1..n |->
             [value |-> 1 + a, dimension |-> script.sweeps[a].dimension,
              bounds |-> script.sweeps[a].bounds,
              pointCount |-> PointCount(script.sweeps[a].bounds)]]
        /\ p.totalPointCount = Product(PointCounts(script))
    BY DEF Lower, MeasuredId, SweptFrequency, PointCounts
  <1>2. /\ p.measurements = [k \in 1..Len(script.measurements) |->
             [value |-> 1 + n + k, op |-> script.measurements[k],
              type |-> TypeOf(script.measurements[k]), legacy |-> script.legacy]]
        /\ p.namedValues = [i \in 1..script.derived |->
             [value |-> ErrorId(script), type |-> "PowerDelta"]]
    BY DEF Lower, ErrorId
  <1>3. p.assertions = [k \in 1..script.assertions |->
             [value |-> ErrorId(script) + 2 * k, left |-> ErrorId(script),
              right |-> ErrorId(script) + 2 * k - 1, of |-> "PowerDelta"]]
    BY DEF Lower, ErrorId
  <1>4. p.calibration =
             [named |-> TRUE, correction |-> CorrectionId(script), type |-> "PowerDelta",
              indexes |-> [a \in 1..n |-> 1 + a],
              indexTypes |-> [a \in 1..n |-> SweepType(script.sweeps[a].dimension)]]
    BY DEF Lower, ErrorId, CorrectionId
  <1>5. p = [values |-> p.values, reference |-> p.reference,
             measurement |-> p.measurement, sweep |-> p.sweep, sweeps |-> p.sweeps,
             totalPointCount |-> p.totalPointCount, measurements |-> p.measurements,
             namedValues |-> p.namedValues, assertions |-> p.assertions,
             calibration |-> p.calibration]
    BY DEF Lower
  <1> HIDE DEF p
  <1>6. QED BY <1>1, <1>2, <1>3, <1>4, <1>5, Zenon DEF n, p

LEMMA ConcatAt ==
  ASSUME NEW v, NEW w, IsSeq(v), IsSeq(w)
  PROVE  /\ \A i \in 1..Len(v) : (v \o w)[i] = v[i]
         /\ \A i \in (Len(v) + 1)..(Len(v) + Len(w)) : (v \o w)[i] = w[i - Len(v)]
  <1> DEFINE S == {v[i] : i \in 1..Len(v)} \cup {w[i] : i \in 1..Len(w)}
  <1>1. /\ Len(v) \in Nat /\ v = [i \in 1..Len(v) |-> v[i]]
        /\ Len(w) \in Nat /\ w = [i \in 1..Len(w) |-> w[i]]
    BY DEF IsSeq
  <1>2. v \in [1..Len(v) -> S] /\ w \in [1..Len(w) -> S]
    BY <1>1
  <1>3. v \in Seq(S) /\ w \in Seq(S)
    BY <1>1, <1>2, SMTT(30)
  <1>4. QED BY <1>3

\* The regions of a program's values.
LEMMA ValueRegions ==
  ASSUME NEW script \in Scripts
  PROVE  LET n == Len(script.sweeps)
             m == Len(script.measurements)
             error == ErrorId(script)
             correction == CorrectionId(script)
         IN  /\ ValueOf(script, 1) = Value(1, "ReferencePower", <<>>)
             /\ \A i \in 2..(1 + n) :
                  ValueOf(script, i) = Value(i, SweepOp(script.sweeps[i - 1].dimension), <<>>)
             /\ \A i \in (2 + n)..(1 + n + m) :
                  ValueOf(script, i) = Value(i, script.measurements[i - 1 - n], <<>>)
             /\ \A i \in (2 + n + m)..error :
                  ValueOf(script, i) = Value(i, "PowerDifference", <<MeasuredId(script), 1>>)
             /\ \A i \in (error + 1)..(correction - 1) :
                  ValueOf(script, i) =
                    IF (i - error) % 2 = 1 THEN Value(i, "Constant", <<>>)
                    ELSE Value(i, "Compare", <<error, i - 1>>)
             /\ ValueOf(script, correction) =
                  Value(correction, "PowerDifference", <<1, MeasuredId(script)>>)
  <1> DEFINE n == Len(script.sweeps)
             m == Len(script.measurements)
             error == ErrorId(script)
             correction == CorrectionId(script)
  <1>1. n \in Nat /\ m \in Nat /\ error \in Nat /\ correction \in Nat
        /\ error < correction /\ error >= n + m + 1
    <2> DEFINE d == script.derived  s == script.assertions
    <2>1. /\ n \in Nat /\ m \in Nat /\ d \in {0, 1} /\ s \in Nat
          /\ error = n + m + 1 + d /\ correction = error + 2 * s + 1
      BY ScriptParts
    <2> HIDE DEF n, m, d, s, error, correction
    <2>2. error \in Nat /\ error >= n + m + 1
      BY <2>1
    <2>3. 2 * s \in Nat
      BY <2>1
    <2>4. QED BY <2>1, <2>2, <2>3
  <1>2. \A i : ValueOf(script, i) =
          IF i = 1 THEN Value(1, "ReferencePower", <<>>)
          ELSE IF i <= 1 + n THEN Value(i, SweepOp(script.sweeps[i - 1].dimension), <<>>)
          ELSE IF i <= 1 + n + m THEN Value(i, script.measurements[i - 1 - n], <<>>)
          ELSE IF i <= error THEN Value(i, "PowerDifference", <<MeasuredId(script), 1>>)
          ELSE IF i = correction THEN Value(i, "PowerDifference", <<1, MeasuredId(script)>>)
          ELSE IF (i - error) % 2 = 1 THEN Value(i, "Constant", <<>>)
          ELSE Value(i, "Compare", <<error, i - 1>>)
    BY DEF ValueOf
  <1> HIDE DEF n, m, error, correction
  <1>3. ValueOf(script, 1) = Value(1, "ReferencePower", <<>>)
    BY <1>2
  <1>4. ASSUME NEW i \in 2..(1 + n)
        PROVE  ValueOf(script, i) = Value(i, SweepOp(script.sweeps[i - 1].dimension), <<>>)
    <2>1. i # 1 /\ i <= 1 + n
      BY <1>1
    <2>2. QED BY <1>2, <2>1, Zenon
  <1>5. ASSUME NEW i \in (2 + n)..(1 + n + m)
        PROVE  ValueOf(script, i) = Value(i, script.measurements[i - 1 - n], <<>>)
    <2>1. i # 1 /\ ~(i <= 1 + n) /\ i <= 1 + n + m
      BY <1>1
    <2>2. QED BY <1>2, <2>1, Zenon
  <1>6. ASSUME NEW i \in (2 + n + m)..error
        PROVE  ValueOf(script, i) = Value(i, "PowerDifference", <<MeasuredId(script), 1>>)
    <2>1. i # 1 /\ ~(i <= 1 + n) /\ ~(i <= 1 + n + m) /\ i <= error
      BY <1>1
    <2>2. QED BY <1>2, <2>1, Zenon
  <1>7. ASSUME NEW i \in (error + 1)..(correction - 1)
        PROVE  ValueOf(script, i) =
                 IF (i - error) % 2 = 1 THEN Value(i, "Constant", <<>>)
                 ELSE Value(i, "Compare", <<error, i - 1>>)
    <2>1. /\ i # 1 /\ ~(i <= 1 + n) /\ ~(i <= 1 + n + m) /\ ~(i <= error)
          /\ i # correction
      BY <1>1
    <2>2. QED BY <1>2, <2>1, Zenon
  <1>8. ValueOf(script, correction) =
          Value(correction, "PowerDifference", <<1, MeasuredId(script)>>)
    <2>1. /\ correction # 1 /\ ~(correction <= 1 + n) /\ ~(correction <= 1 + n + m)
          /\ ~(correction <= error)
      BY <1>1
    <2>2. QED BY <1>2, <2>1, Zenon
  <1>9. QED BY <1>3, <1>4, <1>5, <1>6, <1>7, <1>8 DEF n, m, error, correction

\* The values are those regions one after the other.
LEMMA LoweredValues ==
  ASSUME NEW script \in Scripts
  PROVE  /\ IsSeq(Lower(script).values)
         /\ Len(Lower(script).values) = CorrectionId(script)
         /\ \A i \in 1..CorrectionId(script) : Lower(script).values[i] = ValueOf(script, i)
  <1>0. script.assertions \in Nat /\ 2 * script.assertions \in Nat
    <2>1. script.assertions \in Nat
      BY ScriptParts
    <2>2. QED BY <2>1
  <1> DEFINE n == Len(script.sweeps)
             m == Len(script.measurements)
             d == script.derived
             s == 2 * script.assertions
             error == ErrorId(script)
             correction == CorrectionId(script)
             measured == MeasuredId(script)
             v1 == << Value(1, "ReferencePower", <<>>) >>
             v2 == [a \in 1..n |-> Value(1 + a, SweepOp(script.sweeps[a].dimension), <<>>)]
             v3 == [k \in 1..m |-> Value(1 + n + k, script.measurements[k], <<>>)]
             v4 == [i \in 1..d |-> Value(error, "PowerDifference", <<measured, 1>>)]
             assertion(i) ==
               IF i % 2 = 1 THEN Value(error + i, "Constant", <<>>)
               ELSE Value(error + i, "Compare", <<error, error + i - 1>>)
             v5 == [i \in 1..s |-> assertion(i)]
             v6 == << Value(correction, "PowerDifference", <<1, measured>>) >>
             w2 == v1 \o v2
             w3 == w2 \o v3
             w4 == w3 \o v4
             w5 == w4 \o v5
             w6 == w5 \o v6
             Is(i, v) == v = ValueOf(script, i)
  <1>1. Lower(script).values = w6
    BY DEF Lower, ErrorId, CorrectionId, MeasuredId
  <1>2. /\ n \in Nat /\ m \in Nat /\ d \in {0, 1} /\ s \in Nat /\ error \in Nat
        /\ error = n + m + 1 + d /\ correction = error + s + 1
    BY <1>0, ScriptParts
  <1>3. /\ Is(1, Value(1, "ReferencePower", <<>>))
        /\ \A i \in 2..(1 + n) : Is(i, Value(i, SweepOp(script.sweeps[i - 1].dimension), <<>>))
        /\ \A i \in (2 + n)..(1 + n + m) :
             Is(i, Value(i, script.measurements[i - 1 - n], <<>>))
        /\ \A i \in (2 + n + m)..error : Is(i, Value(i, "PowerDifference", <<measured, 1>>))
        /\ \A i \in (error + 1)..(correction - 1) :
             Is(i, IF (i - error) % 2 = 1 THEN Value(i, "Constant", <<>>)
                   ELSE Value(i, "Compare", <<error, i - 1>>))
        /\ Is(correction, Value(correction, "PowerDifference", <<1, measured>>))
    BY ValueRegions
  <1> HIDE DEF n, m, d, s, error, correction, measured, Is
  <1>4. /\ IsSeq(v1) /\ Len(v1) = 1 /\ v1[1] = Value(1, "ReferencePower", <<>>)
        /\ IsSeq(v6) /\ Len(v6) = 1
        /\ v6[1] = Value(correction, "PowerDifference", <<1, measured>>)
    BY DEF IsSeq
  <1>5. IsSeq(v2) /\ Len(v2) = n /\ \A a \in 1..n : Is(1 + a, v2[a])
    <2>1. v2 = [a \in 1..n |-> v2[a]]
      OBVIOUS
    <2>2. ASSUME NEW a \in 1..n PROVE Is(1 + a, v2[a])
      <3>1. 1 + a \in 2..(1 + n) /\ (1 + a) - 1 = a
        BY <1>2
      <3>2. Is(1 + a, Value(1 + a, SweepOp(script.sweeps[(1 + a) - 1].dimension), <<>>))
        BY <1>3, <3>1
      <3>3. QED BY <3>1, <3>2
    <2> HIDE DEF v2
    <2>3. QED BY <1>2, <2>1, <2>2, FunctionIsSeq
  <1>6. IsSeq(v3) /\ Len(v3) = m /\ \A k \in 1..m : Is(1 + n + k, v3[k])
    <2>1. v3 = [k \in 1..m |-> v3[k]]
      OBVIOUS
    <2>2. ASSUME NEW k \in 1..m PROVE Is(1 + n + k, v3[k])
      <3>1. 1 + n + k \in (2 + n)..(1 + n + m) /\ (1 + n + k) - 1 - n = k
        BY <1>2
      <3>2. Is(1 + n + k, Value(1 + n + k, script.measurements[(1 + n + k) - 1 - n], <<>>))
        BY <1>3, <3>1
      <3>3. QED BY <3>1, <3>2
    <2> HIDE DEF v3
    <2>3. QED BY <1>2, <2>1, <2>2, FunctionIsSeq
  <1>7. IsSeq(v4) /\ Len(v4) = d /\ \A i \in 1..d : Is(1 + n + m + i, v4[i])
    <2>1. v4 = [i \in 1..d |-> v4[i]]
      OBVIOUS
    <2>2. ASSUME NEW i \in 1..d PROVE Is(1 + n + m + i, v4[i])
      <3>1. 1 + n + m + i = error /\ error \in (2 + n + m)..error
        BY <1>2
      <3>2. Is(error, Value(error, "PowerDifference", <<measured, 1>>))
        BY <1>3, <3>1
      <3>3. QED BY <3>1, <3>2
    <2> HIDE DEF v4
    <2>3. QED BY <1>2, <2>1, <2>2, FunctionIsSeq
  <1>8. IsSeq(v5) /\ Len(v5) = s /\ \A i \in 1..s : Is(error + i, v5[i])
    <2>1. v5 = [i \in 1..s |-> v5[i]]
      OBVIOUS
    <2>2. ASSUME NEW i \in 1..s PROVE Is(error + i, v5[i])
      <3> DEFINE j == error + i
      <3>1. j \in (error + 1)..(correction - 1) /\ j - error = i
        BY <1>2
      <3>2. Is(j, IF (j - error) % 2 = 1 THEN Value(j, "Constant", <<>>)
                  ELSE Value(j, "Compare", <<error, j - 1>>))
        <4> HIDE DEF j
        <4>1. QED BY <1>3, <3>1
      <3>3. Is(j, IF i % 2 = 1 THEN Value(j, "Constant", <<>>)
                  ELSE Value(j, "Compare", <<error, j - 1>>))
        <4> HIDE DEF j
        <4>1. QED BY <3>1, <3>2
      <3>4. assertion(i) = IF i % 2 = 1 THEN Value(j, "Constant", <<>>)
                           ELSE Value(j, "Compare", <<error, j - 1>>)
        BY <1>2 DEF Value
      <3> HIDE DEF j, assertion
      <3>6. Is(j, assertion(i))
        BY <3>3, <3>4, Zenon
      <3>5. QED BY <3>6 DEF j
    <2> HIDE DEF v5
    <2>3. QED BY <1>2, <2>1, <2>2, FunctionIsSeq
  <1> HIDE DEF v1, v2, v3, v4, v5, v6
  <1>9. IsSeq(w2) /\ Len(w2) = 1 + n /\ \A i \in 1..(1 + n) : Is(i, w2[i])
    <2>1. /\ IsSeq(w2) /\ Len(w2) = Len(v1) + Len(v2)
          /\ \A i \in 1..Len(v1) : w2[i] = v1[i]
          /\ \A i \in (Len(v1) + 1)..(Len(v1) + Len(v2)) : w2[i] = v2[i - Len(v1)]
      BY <1>4, <1>5, ConcatIsSeq, ConcatAt
    <2> HIDE DEF w2
    <2>2. ASSUME NEW i \in 1..(1 + n) PROVE Is(i, w2[i])
      <3>1. CASE i = 1
        <4>1. 1 \in 1..Len(v1)
          BY <1>4
        <4>2. w2[1] = v1[1]
          BY <2>1, <4>1
        <4>3. QED BY <1>3, <1>4, <3>1, <4>2
      <3>2. CASE i # 1
        <4>1. i - 1 \in 1..n /\ i \in (1 + 1)..(1 + n) /\ 1 + (i - 1) = i
          BY <1>2, <3>2
        <4>2. w2[i] = v2[i - 1]
          BY <1>4, <1>5, <2>1, <4>1
        <4>3. Is(1 + (i - 1), v2[i - 1])
          BY <1>5, <4>1
        <4>4. QED BY <4>1, <4>2, <4>3
      <3>3. QED BY <3>1, <3>2
    <2>3. QED BY <1>4, <1>5, <2>1, <2>2
  <1> HIDE DEF w2
  <1>10. IsSeq(w3) /\ Len(w3) = 1 + n + m /\ \A i \in 1..(1 + n + m) : Is(i, w3[i])
    <2>1. /\ IsSeq(w3) /\ Len(w3) = 1 + n + m
          /\ \A i \in 1..(1 + n) : w3[i] = w2[i]
          /\ \A i \in (1 + n + 1)..(1 + n + m) : w3[i] = v3[i - (1 + n)]
      <3>1. /\ IsSeq(w3) /\ Len(w3) = Len(w2) + Len(v3)
            /\ \A i \in 1..Len(w2) : w3[i] = w2[i]
            /\ \A i \in (Len(w2) + 1)..(Len(w2) + Len(v3)) : w3[i] = v3[i - Len(w2)]
        BY <1>6, <1>9, ConcatIsSeq, ConcatAt
      <3> HIDE DEF w3
      <3>2. QED BY <1>6, <1>9, <3>1
    <2> HIDE DEF w3
    <2>2. ASSUME NEW i \in 1..(1 + n + m), ~(i <= 1 + n) PROVE Is(i, w3[i])
      <3> DEFINE k == i - (1 + n)
      <3>1. k \in 1..m /\ i \in (1 + n + 1)..(1 + n + m) /\ 1 + n + k = i
        BY <1>2, <2>2
      <3>2. w3[i] = v3[k]
        BY <2>1, <3>1
      <3> HIDE DEF k
      <3>3. Is(1 + n + k, v3[k])
        BY <1>6, <3>1
      <3>4. QED BY <3>1, <3>2, <3>3
    <2>3. ASSUME NEW i \in 1..(1 + n + m), i <= 1 + n PROVE Is(i, w3[i])
      <3>1. i \in 1..(1 + n)
        BY <1>2, <2>3
      <3>2. QED BY <1>9, <2>1, <3>1
    <2>4. QED BY <2>1, <2>2, <2>3
  <1> HIDE DEF w3
  <1>11. IsSeq(w4) /\ Len(w4) = error /\ \A i \in 1..error : Is(i, w4[i])
    <2>1. /\ IsSeq(w4) /\ Len(w4) = 1 + n + m + d
          /\ \A i \in 1..(1 + n + m) : w4[i] = w3[i]
          /\ \A i \in (1 + n + m + 1)..(1 + n + m + d) : w4[i] = v4[i - (1 + n + m)]
      <3>1. /\ IsSeq(w4) /\ Len(w4) = Len(w3) + Len(v4)
            /\ \A i \in 1..Len(w3) : w4[i] = w3[i]
            /\ \A i \in (Len(w3) + 1)..(Len(w3) + Len(v4)) : w4[i] = v4[i - Len(w3)]
        BY <1>7, <1>10, ConcatIsSeq, ConcatAt
      <3> HIDE DEF w4
      <3>2. QED BY <1>7, <1>10, <3>1
    <2> HIDE DEF w4
    <2>2. ASSUME NEW i \in 1..error, ~(i <= 1 + n + m) PROVE Is(i, w4[i])
      <3> DEFINE k == i - (1 + n + m)
      <3>1. k \in 1..d /\ i \in (1 + n + m + 1)..(1 + n + m + d) /\ 1 + n + m + k = i
        BY <1>2, <2>2
      <3>2. w4[i] = v4[k]
        BY <2>1, <3>1
      <3> HIDE DEF k
      <3>3. Is(1 + n + m + k, v4[k])
        BY <1>7, <3>1
      <3>4. QED BY <3>1, <3>2, <3>3
    <2>3. ASSUME NEW i \in 1..error, i <= 1 + n + m PROVE Is(i, w4[i])
      <3>1. i \in 1..(1 + n + m)
        BY <1>2, <2>3
      <3>2. QED BY <1>10, <2>1, <3>1
    <2>4. Len(w4) = error
      BY <1>2, <2>1
    <2>5. QED BY <2>1, <2>2, <2>3, <2>4
  <1> HIDE DEF w4
  <1>12. IsSeq(w5) /\ Len(w5) = error + s /\ \A i \in 1..(error + s) : Is(i, w5[i])
    <2>1. /\ IsSeq(w5) /\ Len(w5) = error + s
          /\ \A i \in 1..error : w5[i] = w4[i]
          /\ \A i \in (error + 1)..(error + s) : w5[i] = v5[i - error]
      BY <1>8, <1>11, ConcatIsSeq, ConcatAt
    <2> HIDE DEF w5
    <2>2. ASSUME NEW i \in 1..(error + s), ~(i <= error) PROVE Is(i, w5[i])
      <3> DEFINE k == i - error
      <3>1. k \in 1..s /\ i \in (error + 1)..(error + s) /\ error + k = i
        BY <1>2, <2>2
      <3>2. w5[i] = v5[k]
        BY <2>1, <3>1
      <3> HIDE DEF k
      <3>3. Is(error + k, v5[k])
        BY <1>8, <3>1
      <3>4. QED BY <3>1, <3>2, <3>3
    <2>3. ASSUME NEW i \in 1..(error + s), i <= error PROVE Is(i, w5[i])
      <3>1. i \in 1..error
        BY <1>2, <2>3
      <3>2. QED BY <1>11, <2>1, <3>1
    <2>4. QED BY <2>1, <2>2, <2>3
  <1> HIDE DEF w5
  <1>13. IsSeq(w6) /\ Len(w6) = correction /\ \A i \in 1..correction : Is(i, w6[i])
    <2>1. /\ IsSeq(w6) /\ Len(w6) = error + s + 1
          /\ \A i \in 1..(error + s) : w6[i] = w5[i]
          /\ \A i \in (error + s + 1)..(error + s + 1) : w6[i] = v6[i - (error + s)]
      <3>1. /\ IsSeq(w6) /\ Len(w6) = Len(w5) + Len(v6)
            /\ \A i \in 1..Len(w5) : w6[i] = w5[i]
            /\ \A i \in (Len(w5) + 1)..(Len(w5) + Len(v6)) : w6[i] = v6[i - Len(w5)]
        BY <1>4, <1>12, ConcatIsSeq, ConcatAt
      <3> HIDE DEF w6
      <3>2. QED BY <1>4, <1>12, <3>1
    <2> HIDE DEF w6
    <2>2. Is(correction, w6[correction])
      <3>1. correction \in (error + s + 1)..(error + s + 1) /\ correction - (error + s) = 1
        BY <1>2
      <3>2. w6[correction] = v6[correction - (error + s)]
        BY <2>1, <3>1
      <3>3. QED BY <1>3, <1>4, <3>1, <3>2
    <2>3. ASSUME NEW i \in 1..correction, i # correction PROVE Is(i, w6[i])
      <3>1. i \in 1..(error + s)
        BY <1>2, <2>3
      <3>2. QED BY <1>12, <2>1, <3>1
    <2>4. Len(w6) = correction
      BY <1>2, <2>1
    <2>5. QED BY <2>1, <2>2, <2>3, <2>4
  <1> HIDE DEF w6
  <1>14. QED BY <1>1, <1>13 DEF Is, correction

\* What the analyzer has made sure of.
LEMMA AnalyzedParts ==
  ASSUME NEW script \in Scripts, Analyzed(script)
  PROVE  LET n == Len(script.sweeps)
             m == Len(script.measurements)
         IN  /\ n > 0 /\ m > 0
             /\ \A a, b \in 1..n :
                  script.sweeps[a].dimension = script.sweeps[b].dimension => a = b
             /\ SweptFrequency(script) \in 1..n
             /\ script.sweeps[SweptFrequency(script)].dimension = "frequency"
             /\ MeasuredId(script) \in (2 + n)..(1 + n + m)
             /\ script.measurements[MeasuredId(script) - 1 - n] = "MeasurePower"
             /\ PointCounts(script) \in Seq(Nat) /\ Len(PointCounts(script)) = n
             /\ \A a \in 1..n :
                  /\ Planned(script.sweeps[a].bounds)
                  /\ PointCounts(script)[a] = PointCount(script.sweeps[a].bounds)
                  /\ PointCounts(script)[a] \in Nat /\ PointCounts(script)[a] > 0
             /\ Product(PointCounts(script)) \in Nat
             /\ Product(PointCounts(script)) <= MaxSweepPoints
             /\ script.assertions > 0 => script.derived = 1
  <1> DEFINE n == Len(script.sweeps)
             m == Len(script.measurements)
             counts == PointCounts(script)
  <1>1. /\ n \in Nat /\ DOMAIN script.sweeps = 1..n
        /\ \A a \in 1..n : script.sweeps[a].bounds \in Bounds
        /\ m \in Nat /\ DOMAIN script.measurements = 1..m
    BY ScriptParts
  <1>2. /\ \A a, b \in 1..n : script.sweeps[a].dimension = script.sweeps[b].dimension => a = b
        /\ \E a \in 1..n : script.sweeps[a].dimension = "frequency"
        /\ \A a \in 1..n : Planned(script.sweeps[a].bounds)
        /\ Product(counts) <= MaxSweepPoints
        /\ \E k \in 1..m : script.measurements[k] = "MeasurePower"
        /\ script.assertions > 0 => script.derived = 1
    BY <1>1 DEF Analyzed, PointCounts
  <1>3. /\ SweptFrequency(script) \in 1..n
        /\ script.sweeps[SweptFrequency(script)].dimension = "frequency"
    BY <1>2 DEF SweptFrequency
  <1>4. /\ MeasuredId(script) \in (2 + n)..(1 + n + m)
        /\ script.measurements[MeasuredId(script) - 1 - n] = "MeasurePower"
    <2> DEFINE power == {k \in 1..m : script.measurements[k] = "MeasurePower"}
               first == CHOOSE k \in power : \A j \in power : k <= j
    <2>1. power \in SUBSET Nat /\ power # {}
      BY <1>2
    <2>2. first \in power
      <3> HIDE DEF power
      <3>1. QED BY <2>1, LeastNatural
    <2>3. MeasuredId(script) = 1 + n + first
      BY DEF MeasuredId
    <2>4. first \in 1..m /\ script.measurements[first] = "MeasurePower"
      BY <2>2
    <2> HIDE DEF n, m, first
    <2>5. MeasuredId(script) \in (2 + n)..(1 + n + m) /\ MeasuredId(script) - 1 - n = first
      BY <1>1, <2>3, <2>4
    <2>6. QED BY <2>4, <2>5
  <1>5. \A a \in 1..n : /\ counts[a] = PointCount(script.sweeps[a].bounds)
                        /\ counts[a] \in Nat /\ counts[a] > 0
    <2> SUFFICES ASSUME NEW a \in 1..n
                 PROVE  /\ counts[a] = PointCount(script.sweeps[a].bounds)
                        /\ counts[a] \in Nat /\ counts[a] > 0
      OBVIOUS
    <2>1. counts[a] = PointCount(script.sweeps[a].bounds)
      BY DEF PointCounts
    <2> HIDE DEF counts
    <2>2. /\ LastIndex(script.sweeps[a].bounds) \in Nat
          /\ PointCount(script.sweeps[a].bounds) = LastIndex(script.sweeps[a].bounds) + 1
      BY <1>1, <1>2, PlannedCount
    <2>3. QED BY <2>1, <2>2
  <1>6. counts \in Seq(Nat) /\ Len(counts) = n
    <2>1. counts = [a \in 1..n |-> counts[a]]
      BY DEF PointCounts
    <2> HIDE DEF counts, n
    <2>2. counts \in [1..n -> Nat]
      BY <1>5, <2>1
    <2>3. QED BY <1>1, <2>2
  <1>7. Product(counts) \in Nat
    <2> HIDE DEF counts
    <2>1. Len(counts) \in 0..Len(counts)
      BY <1>1, <1>6
    <2>2. QED BY <1>6, <2>1, ProductsAre DEF Product
  <1>8. n > 0 /\ m > 0
    BY <1>1, <1>2
  <1>9. QED BY <1>2, <1>3, <1>4, <1>5, <1>6, <1>7, <1>8

\* The operations lowering uses.
LoweredOps ==
  {"ReferencePower", "PowerDifference", "Constant", "Compare"} \cup SweepOps \cup MeasureOps

LEMMA ValueTyped ==
  ASSUME NEW i \in Nat, NEW op \in LoweredOps, NEW operands \in Seq(Nat)
  PROVE  /\ Value(i, op, operands) \in Values
         /\ Value(i, op, operands).type \in ResultTypes[op]
         /\ Value(i, op, operands).type = TypeOf(op)
         /\ Value(i, op, operands).id = i /\ Value(i, op, operands).op = op
         /\ Value(i, op, operands).operands = operands
         /\ op = "Compare" => Value(i, op, operands).of = "PowerDelta"
  <1>1. op \in Ops
    BY DEF Ops, ResultTypes, LoweredOps, SweepOps, MeasureOps
  <1>2. TypeOf(op) \in ValueTypes /\ "PowerDelta" \in ValueTypes
    BY Types DEF ValueTypes, Deltas, LoweredOps, SweepOps, MeasureOps
  <1>3. TypeOf(op) \in ResultTypes[op]
    BY Types DEF ResultTypes, ValueTypes, LoweredOps, SweepOps, MeasureOps
  <1>4. QED BY <1>1, <1>2, <1>3 DEF Value, Values

\* What an analysed script's program has at each id.
LEMMA LoweredAt ==
  ASSUME NEW script \in Scripts, Analyzed(script), NEW p, p = Lower(script)
  PROVE  LET n == Len(script.sweeps)
             m == Len(script.measurements)
             s == script.assertions
             error == ErrorId(script)
             correction == CorrectionId(script)
             measured == MeasuredId(script)
         IN  /\ n \in Nat /\ m \in Nat /\ s \in Nat /\ error \in Nat /\ correction \in Nat
             /\ error = 1 + n + m + script.derived /\ script.derived \in {0, 1}
             /\ correction = error + 2 * s + 1
             /\ measured \in (2 + n)..(1 + n + m) /\ (s > 0 => script.derived = 1)
             /\ IsSeq(p.values) /\ Len(p.values) = correction
             /\ p.values[1] = Value(1, "ReferencePower", <<>>)
             /\ \A i \in 2..(1 + n) :
                  /\ script.sweeps[i - 1].dimension \in Dimensions
                  /\ p.values[i] = Value(i, SweepOp(script.sweeps[i - 1].dimension), <<>>)
             /\ \A i \in (2 + n)..(1 + n + m) :
                  /\ script.measurements[i - 1 - n] \in MeasureOps
                  /\ p.values[i] = Value(i, script.measurements[i - 1 - n], <<>>)
             /\ p.values[measured] = Value(measured, "MeasurePower", <<>>)
             /\ \A i \in (2 + n + m)..error :
                  p.values[i] = Value(i, "PowerDifference", <<measured, 1>>)
             /\ \A i \in (error + 1)..(correction - 1) :
                  /\ (i - error) % 2 = 1 => p.values[i] = Value(i, "Constant", <<>>)
                  /\ (i - error) % 2 # 1 =>
                       p.values[i] = Value(i, "Compare", <<error, i - 1>>)
             /\ p.values[correction] =
                  Value(correction, "PowerDifference", <<1, measured>>)
  <1> DEFINE n == Len(script.sweeps)
             m == Len(script.measurements)
             s == script.assertions
             error == ErrorId(script)
             correction == CorrectionId(script)
             measured == MeasuredId(script)
  <1>1. /\ n \in Nat /\ m \in Nat /\ s \in Nat /\ error \in Nat /\ correction \in Nat
        /\ script.derived \in {0, 1} /\ correction = error + 2 * s + 1
        /\ \A a \in 1..n : script.sweeps[a].dimension \in Dimensions
        /\ \A k \in 1..m : script.measurements[k] \in MeasureOps
        /\ measured \in (2 + n)..(1 + n + m) /\ (s > 0 => script.derived = 1)
        /\ script.measurements[measured - 1 - n] = "MeasurePower"
    BY ScriptParts, AnalyzedParts
  <1>2. error = 1 + n + m + script.derived
    <2>1. error = n + m + 1 + script.derived
      BY ScriptParts
    <2> HIDE DEF n, m, error
    <2>2. QED BY <1>1, <2>1
  <1>3. /\ IsSeq(p.values) /\ Len(p.values) = correction
        /\ \A i \in 1..correction : p.values[i] = ValueOf(script, i)
    BY LoweredValues
  <1>4. error >= 1 + n + m /\ error < correction
    <2> HIDE DEF n, m, s, error, correction
    <2>1. 2 * s \in Nat
      BY <1>1
    <2>2. QED BY <1>1, <1>2, <2>1
  <1>5. /\ ValueOf(script, 1) = Value(1, "ReferencePower", <<>>)
        /\ \A i \in 2..(1 + n) :
             ValueOf(script, i) = Value(i, SweepOp(script.sweeps[i - 1].dimension), <<>>)
        /\ \A i \in (2 + n)..(1 + n + m) :
             ValueOf(script, i) = Value(i, script.measurements[i - 1 - n], <<>>)
        /\ \A i \in (2 + n + m)..error :
             ValueOf(script, i) = Value(i, "PowerDifference", <<measured, 1>>)
        /\ \A i \in (error + 1)..(correction - 1) :
             ValueOf(script, i) =
               IF (i - error) % 2 = 1 THEN Value(i, "Constant", <<>>)
               ELSE Value(i, "Compare", <<error, i - 1>>)
        /\ ValueOf(script, correction) =
             Value(correction, "PowerDifference", <<1, measured>>)
    BY ValueRegions
  <1> HIDE DEF n, m, s, error, correction, measured
  <1>6. p.values[1] = Value(1, "ReferencePower", <<>>)
        /\ p.values[correction] = Value(correction, "PowerDifference", <<1, measured>>)
    BY <1>1, <1>3, <1>4, <1>5
  <1>7. ASSUME NEW i \in 2..(1 + n)
        PROVE  /\ script.sweeps[i - 1].dimension \in Dimensions
               /\ p.values[i] = Value(i, SweepOp(script.sweeps[i - 1].dimension), <<>>)
    <2>1. i - 1 \in 1..n /\ i \in 1..correction
      BY <1>1, <1>4
    <2>2. QED BY <1>1, <1>3, <1>5, <2>1
  <1>8. ASSUME NEW i \in (2 + n)..(1 + n + m)
        PROVE  /\ script.measurements[i - 1 - n] \in MeasureOps
               /\ p.values[i] = Value(i, script.measurements[i - 1 - n], <<>>)
    <2>1. i - 1 - n \in 1..m /\ i \in 1..correction
      BY <1>1, <1>4
    <2>2. QED BY <1>1, <1>3, <1>5, <2>1
  <1>9. p.values[measured] = Value(measured, "MeasurePower", <<>>)
    BY <1>1, <1>8
  <1>10. ASSUME NEW i \in (2 + n + m)..error
         PROVE  p.values[i] = Value(i, "PowerDifference", <<measured, 1>>)
    <2>1. i \in 1..correction
      BY <1>1, <1>4
    <2>2. QED BY <1>3, <1>5, <2>1
  <1>11. ASSUME NEW i \in (error + 1)..(correction - 1)
         PROVE  /\ (i - error) % 2 = 1 => p.values[i] = Value(i, "Constant", <<>>)
                /\ (i - error) % 2 # 1 => p.values[i] = Value(i, "Compare", <<error, i - 1>>)
    <2>1. i \in 1..correction
      BY <1>1, <1>4
    <2>2. p.values[i] = IF (i - error) % 2 = 1 THEN Value(i, "Constant", <<>>)
                        ELSE Value(i, "Compare", <<error, i - 1>>)
      BY <1>3, <1>5, <2>1
    <2>3. QED BY <2>2
  <1>12. QED
    BY <1>1, <1>2, <1>3, <1>6, <1>7, <1>8, <1>9, <1>10, <1>11
       DEF n, m, s, error, correction, measured

\* The ids an analysed script's program may ask about.
LEMMA LoweredHas ==
  ASSUME NEW script \in Scripts, Analyzed(script), NEW p, p = Lower(script)
  PROVE  LET n == Len(script.sweeps)
             m == Len(script.measurements)
             error == ErrorId(script)
         IN  /\ Binding(p, 1, "Power", "ReferencePower")
             /\ Binding(p, MeasuredId(script), "Power", "MeasurePower")
             /\ \A a \in 1..n : LET d == script.sweeps[a].dimension
                                IN  Binding(p, 1 + a, SweepType(d), SweepOp(d))
             /\ \A k \in 1..m : LET op == script.measurements[k]
                                IN  Binding(p, 1 + n + k, TypeOf(op), op)
             /\ script.derived = 1 => Has(p, error, "PowerDelta")
             /\ \A k \in 1..script.assertions :
                  /\ Has(p, error + 2 * k - 1, "PowerDelta")
                  /\ Has(p, error + 2 * k, "Boolean")
                  /\ p.values[error + 2 * k] =
                       Value(error + 2 * k, "Compare", <<error, error + 2 * k - 1>>)
             /\ Has(p, CorrectionId(script), "PowerDelta")
  <1> DEFINE n == Len(script.sweeps)
             m == Len(script.measurements)
             s == script.assertions
             d == script.derived
             error == ErrorId(script)
             correction == CorrectionId(script)
             measured == MeasuredId(script)
  <1>1. /\ n \in Nat /\ m \in Nat /\ s \in Nat /\ error \in Nat /\ correction \in Nat
        /\ error = 1 + n + m + d /\ d \in {0, 1} /\ correction = error + 2 * s + 1
        /\ measured \in (2 + n)..(1 + n + m)
        /\ Len(p.values) = correction
        /\ p.values[1] = Value(1, "ReferencePower", <<>>)
        /\ \A i \in 2..(1 + n) :
             /\ script.sweeps[i - 1].dimension \in Dimensions
             /\ p.values[i] = Value(i, SweepOp(script.sweeps[i - 1].dimension), <<>>)
        /\ \A i \in (2 + n)..(1 + n + m) :
             /\ script.measurements[i - 1 - n] \in MeasureOps
             /\ p.values[i] = Value(i, script.measurements[i - 1 - n], <<>>)
        /\ p.values[measured] = Value(measured, "MeasurePower", <<>>)
        /\ \A i \in (2 + n + m)..error :
             p.values[i] = Value(i, "PowerDifference", <<measured, 1>>)
        /\ \A i \in (error + 1)..(correction - 1) :
             /\ (i - error) % 2 = 1 => p.values[i] = Value(i, "Constant", <<>>)
             /\ (i - error) % 2 # 1 => p.values[i] = Value(i, "Compare", <<error, i - 1>>)
        /\ p.values[correction] = Value(correction, "PowerDifference", <<1, measured>>)
    BY LoweredAt
  <1> HIDE DEF n, m, s, d, error, correction, measured
  <1>2. error < correction /\ error >= 1 + n + m
    <2>1. 2 * s \in Nat
      BY <1>1
    <2>2. QED BY <1>1, <2>1
  <1>3. /\ \A i, op, operands : /\ Value(i, op, operands).type = TypeOf(op)
                                /\ Value(i, op, operands).op = op
    BY DEF Value
  <1>4. ASSUME NEW i \in 1..correction, NEW op, NEW operands,
               p.values[i] = Value(i, op, operands)
        PROVE  Binding(p, i, TypeOf(op), op)
    BY <1>1, <1>3, <1>4 DEF Binding, Has, Ids
  <1>5. Binding(p, 1, "Power", "ReferencePower")
    BY <1>1, <1>2, <1>3, Types DEF Binding, Has, Ids
  <1>6. Binding(p, measured, "Power", "MeasurePower")
    <2>1. measured \in 1..correction
      BY <1>1, <1>2
    <2>2. QED BY <1>1, <1>3, <2>1, Types DEF Binding, Has, Ids
  <1>7. ASSUME NEW a \in 1..n
        PROVE  Binding(p, 1 + a, SweepType(script.sweeps[a].dimension),
                       SweepOp(script.sweeps[a].dimension))
    <2>1. 1 + a \in 2..(1 + n) /\ (1 + a) - 1 = a /\ 1 + a \in 1..correction
      BY <1>1, <1>2
    <2>2. /\ script.sweeps[a].dimension \in Dimensions
          /\ p.values[1 + a] = Value(1 + a, SweepOp(script.sweeps[a].dimension), <<>>)
      BY <1>1, <2>1
    <2>3. TypeOf(SweepOp(script.sweeps[a].dimension)) = SweepType(script.sweeps[a].dimension)
      BY <2>2, Types DEF SweepOp, SweepType, Dimensions
    <2> DEFINE i == 1 + a
    <2>4. i \in 1..correction /\ p.values[i] = Value(i, SweepOp(script.sweeps[a].dimension), <<>>)
      BY <2>1, <2>2
    <2> HIDE DEF i
    <2>5. Binding(p, i, TypeOf(SweepOp(script.sweeps[a].dimension)),
                  SweepOp(script.sweeps[a].dimension))
      BY <1>4, <2>4
    <2>6. QED BY <2>3, <2>5 DEF i
  <1>8. ASSUME NEW k \in 1..m
        PROVE  Binding(p, 1 + n + k, TypeOf(script.measurements[k]), script.measurements[k])
    <2>1. /\ 1 + n + k \in (2 + n)..(1 + n + m) /\ (1 + n + k) - 1 - n = k
          /\ 1 + n + k \in 1..correction
      BY <1>1, <1>2
    <2>2. p.values[1 + n + k] = Value(1 + n + k, script.measurements[k], <<>>)
      BY <1>1, <2>1
    <2> DEFINE i == 1 + n + k
    <2>3. i \in 1..correction /\ p.values[i] = Value(i, script.measurements[k], <<>>)
      BY <2>1, <2>2
    <2> HIDE DEF i
    <2>4. Binding(p, i, TypeOf(script.measurements[k]), script.measurements[k])
      BY <1>4, <2>3
    <2>5. QED BY <2>4 DEF i
  <1>9. ASSUME d = 1 PROVE Has(p, error, "PowerDelta")
    <2>1. error \in (2 + n + m)..error /\ error \in 1..correction
      BY <1>1, <1>2, <1>9
    <2>2. p.values[error] = Value(error, "PowerDifference", <<measured, 1>>)
      BY <1>1, <2>1
    <2>3. QED BY <1>1, <1>3, <2>1, <2>2, Types DEF Has, Ids
  <1>10. ASSUME NEW k \in 1..s
         PROVE  /\ Has(p, error + 2 * k - 1, "PowerDelta")
                /\ Has(p, error + 2 * k, "Boolean")
                /\ p.values[error + 2 * k] =
                     Value(error + 2 * k, "Compare", <<error, error + 2 * k - 1>>)
    <2> DEFINE i == error + 2 * k
    <2>1. /\ i \in (error + 1)..(correction - 1) /\ i - 1 \in (error + 1)..(correction - 1)
          /\ i - error = 2 * k /\ (i - 1) - error = 2 * k - 1
      <3>1. error \in Nat /\ s \in Nat /\ correction = error + 2 * s + 1
        BY <1>1
      <3>2. QED BY <3>1
    <2>2. (i - error) % 2 # 1 /\ ((i - 1) - error) % 2 = 1
      <3>1. (2 * k) % 2 = 0 /\ (2 * k - 1) % 2 = 1
        BY <1>1
      <3> HIDE DEF i
      <3>2. QED BY <2>1, <3>1
    <2> HIDE DEF i
    <2>3. /\ p.values[i] = Value(i, "Compare", <<error, i - 1>>)
          /\ p.values[i - 1] = Value(i - 1, "Constant", <<>>)
      BY <1>1, <2>1, <2>2
    <2>4. i \in 1..correction /\ i - 1 \in 1..correction
      BY <1>1, <2>1
    <2>5. Has(p, i, "Boolean") /\ Has(p, i - 1, "PowerDelta")
      BY <1>1, <1>3, <2>3, <2>4, Types DEF Has, Ids
    <2>6. /\ Has(p, i - 1, "PowerDelta") /\ Has(p, i, "Boolean")
          /\ p.values[i] = Value(i, "Compare", <<error, i - 1>>)
      BY <2>3, <2>5
    <2>7. i - 1 = error + 2 * k - 1
      <3>1. error \in Nat /\ s \in Nat
        BY <1>1
      <3>2. QED BY <3>1 DEF i
    <2>8. QED BY <2>6, <2>7 DEF i
  <1>11. Has(p, correction, "PowerDelta")
    BY <1>1, <1>2, <1>3, Types DEF Has, Ids
  <1>12. QED
    BY <1>5, <1>6, <1>7, <1>8, <1>9, <1>10, <1>11 DEF n, m, s, d, error, correction, measured

\* Each value reads earlier values, of the types its operation requires.
LEMMA LoweredDefinitions ==
  ASSUME NEW script \in Scripts, Analyzed(script), NEW p, p = Lower(script)
  PROVE  p.values \in Seq(Values) /\ DefinitionsValid(p)
  <1> DEFINE n == Len(script.sweeps)
             m == Len(script.measurements)
             s == script.assertions
             d == script.derived
             error == ErrorId(script)
             correction == CorrectionId(script)
             measured == MeasuredId(script)
             Fine(i) ==
               /\ p.values[i] \in Values
               /\ p.values[i].id = i /\ p.values[i].type \in ResultTypes[p.values[i].op]
               /\ p.values[i].op = "Compare" => p.values[i].of # "Boolean"
               /\ \A k \in DOMAIN p.values[i].operands :
                    /\ p.values[i].operands[k] < i
                    /\ Has(p, p.values[i].operands[k], OperandType(p.values[i], k))
  <1>1. /\ n \in Nat /\ m \in Nat /\ s \in Nat /\ error \in Nat /\ correction \in Nat
        /\ error = 1 + n + m + d /\ d \in {0, 1} /\ correction = error + 2 * s + 1
        /\ measured \in (2 + n)..(1 + n + m) /\ (s > 0 => d = 1)
        /\ IsSeq(p.values) /\ Len(p.values) = correction
        /\ p.values[1] = Value(1, "ReferencePower", <<>>)
        /\ \A i \in 2..(1 + n) :
             /\ script.sweeps[i - 1].dimension \in Dimensions
             /\ p.values[i] = Value(i, SweepOp(script.sweeps[i - 1].dimension), <<>>)
        /\ \A i \in (2 + n)..(1 + n + m) :
             /\ script.measurements[i - 1 - n] \in MeasureOps
             /\ p.values[i] = Value(i, script.measurements[i - 1 - n], <<>>)
        /\ \A i \in (2 + n + m)..error :
             p.values[i] = Value(i, "PowerDifference", <<measured, 1>>)
        /\ \A i \in (error + 1)..(correction - 1) :
             /\ (i - error) % 2 = 1 => p.values[i] = Value(i, "Constant", <<>>)
             /\ (i - error) % 2 # 1 => p.values[i] = Value(i, "Compare", <<error, i - 1>>)
        /\ p.values[correction] = Value(correction, "PowerDifference", <<1, measured>>)
    BY LoweredAt
  <1>2. /\ Has(p, 1, "Power") /\ Has(p, measured, "Power")
        /\ d = 1 => Has(p, error, "PowerDelta")
        /\ \A k \in 1..s : Has(p, error + 2 * k - 1, "PowerDelta")
    BY LoweredHas DEF Binding
  <1> HIDE DEF n, m, s, d, error, correction, measured, Fine
  <1>3. /\ n \in Nat /\ m \in Nat /\ error \in Nat /\ correction \in Nat
        /\ error < correction /\ error >= 1 + n + m /\ measured \in Nat
        /\ measured > 1 /\ measured < 2 + n + m
    <2>1. 2 * s \in Nat
      BY <1>1
    <2>2. QED BY <1>1, <2>1
  <1>4. ASSUME NEW i \in Nat, NEW op \in {"ReferencePower", "Constant"} \cup SweepOps \cup MeasureOps,
               p.values[i] = Value(i, op, <<>>)
        PROVE  Fine(i)
    <2>1. <<>> \in Seq(Nat) /\ DOMAIN <<>> = {}
      OBVIOUS
    <2>2. op # "Compare"
      BY DEF SweepOps, MeasureOps
    <2> DEFINE none == <<>>
               v == Value(i, op, none)
    <2>3. /\ v \in Values /\ v.type \in ResultTypes[op]
          /\ v.id = i /\ v.op = op /\ v.operands = none
      <3>1. none \in Seq(Nat) /\ op \in LoweredOps
        BY <2>1 DEF LoweredOps
      <3> HIDE DEF none
      <3>2. QED BY <3>1, ValueTyped
    <2>4. p.values[i] = v
      BY <1>4
    <2> HIDE DEF v
    <2>5. QED BY <2>1, <2>2, <2>3, <2>4 DEF Fine
  <1>5. ASSUME NEW i \in Nat, NEW op \in {"PowerDifference", "Compare"}, NEW x \in Nat, NEW y \in Nat,
               p.values[i] = Value(i, op, <<x, y>>), x < i, y < i,
               LET type == IF op = "Compare" THEN "PowerDelta" ELSE "Power"
               IN  Has(p, x, type) /\ Has(p, y, type)
        PROVE  Fine(i)
    <2>1. <<x, y>> \in Seq(Nat) /\ DOMAIN <<x, y>> = {1, 2} /\ <<x, y>>[1] = x /\ <<x, y>>[2] = y
      OBVIOUS
    <2> DEFINE both == <<x, y>>
               v == Value(i, op, both)
    <2>2. /\ p.values[i] \in Values /\ p.values[i].type \in ResultTypes[op]
          /\ p.values[i].id = i /\ p.values[i].op = op /\ p.values[i].operands = <<x, y>>
          /\ op = "Compare" => p.values[i].of = "PowerDelta"
      <3>1. /\ v \in Values /\ v.type \in ResultTypes[op]
            /\ v.id = i /\ v.op = op /\ v.operands = both
            /\ op = "Compare" => v.of = "PowerDelta"
        <4>1. both \in Seq(Nat) /\ op \in LoweredOps
          BY <2>1 DEF LoweredOps
        <4> HIDE DEF both
        <4>2. QED BY <4>1, ValueTyped
      <3>2. p.values[i] = v
        BY <1>5
      <3> HIDE DEF v
      <3>3. QED BY <3>1, <3>2
    <2>3. \A k : OperandType(p.values[i], k) = IF op = "Compare" THEN "PowerDelta" ELSE "Power"
      <3>1. CASE op = "Compare"
        BY <2>2, <3>1 DEF OperandType
      <3>2. CASE op = "PowerDifference"
        BY <2>2, <3>2 DEF OperandType
      <3>3. QED BY <3>1, <3>2
    <2>4. QED BY <1>5, <2>1, <2>2, <2>3 DEF Fine
  <1>6. ASSUME NEW i \in 1..correction PROVE Fine(i)
    <2>1. CASE i = 1
      BY <1>1, <1>4, <2>1
    <2>2. CASE i \in 2..(1 + n)
      <3>1. SweepOp(script.sweeps[i - 1].dimension) \in SweepOps
        BY DEF SweepOp, SweepOps
      <3>2. p.values[i] = Value(i, SweepOp(script.sweeps[i - 1].dimension), <<>>)
        BY <1>1, <2>2
      <3>3. i \in Nat
        BY <2>2
      <3>4. QED BY <1>4, <3>1, <3>2, <3>3
    <2>3. CASE i \in (2 + n)..(1 + n + m)
      <3>1. /\ script.measurements[i - 1 - n] \in MeasureOps
            /\ p.values[i] = Value(i, script.measurements[i - 1 - n], <<>>)
        BY <1>1, <2>3
      <3>2. i \in Nat
        BY <1>3, <2>3
      <3>3. QED BY <1>4, <3>1, <3>2
    <2>4. CASE i \in (2 + n + m)..error
      <3>1. p.values[i] = Value(i, "PowerDifference", <<measured, 1>>)
        BY <1>1, <2>4
      <3>2. measured \in Nat /\ measured < i /\ 1 < i /\ i \in Nat
        BY <1>3, <2>4
      <3>3. QED BY <1>2, <1>5, <3>1, <3>2
    <2>5. CASE i \in (error + 1)..(correction - 1) /\ (i - error) % 2 = 1
      <3>1. p.values[i] = Value(i, "Constant", <<>>)
        BY <1>1, <2>5
      <3>2. i \in Nat
        BY <1>3, <2>5
      <3>3. QED BY <1>4, <3>1, <3>2
    <2>6. CASE i \in (error + 1)..(correction - 1) /\ (i - error) % 2 # 1
      <3>1. p.values[i] = Value(i, "Compare", <<error, i - 1>>)
        BY <1>1, <2>6
      <3>2. PICK k \in 1..s : i = error + 2 * k
        <4> DEFINE j == i - error  k == j \div 2
        <4>1. j \in 1..(2 * s) /\ j % 2 # 1 /\ i = error + j
          BY <1>1, <2>6
        <4> HIDE DEF j
        <4>2. s \in Nat /\ 2 * s \in Nat
          BY <1>1
        <4>3. j = 2 * k /\ k \in 1..s
          BY <4>1, <4>2
        <4> HIDE DEF k
        <4>4. QED BY <4>1, <4>3
      <3>3. i - 1 = error + 2 * k - 1 /\ d = 1
        BY <1>1, <3>2
      <3>4. error < i /\ i - 1 < i /\ i - 1 \in Nat
        BY <1>1, <2>6
      <3>5. Has(p, error, "PowerDelta") /\ Has(p, i - 1, "PowerDelta")
        BY <1>2, <3>3
      <3>6. QED BY <1>1, <1>5, <3>1, <3>4, <3>5
    <2>7. CASE i = correction
      <3>1. measured \in Nat /\ measured < i /\ 1 < i /\ i \in Nat
        BY <1>3, <2>7
      <3>2. QED BY <1>1, <1>2, <1>5, <2>7, <3>1
    <2>8. QED BY <1>1, <1>3, <2>1, <2>2, <2>3, <2>4, <2>5, <2>6, <2>7
  <1>7. p.values \in Seq(Values)
    <2>1. p.values = [i \in 1..correction |-> p.values[i]] /\ correction \in Nat
      BY <1>1 DEF IsSeq
    <2>2. \A i \in 1..correction : p.values[i] \in Values
      BY <1>6 DEF Fine
    <2>3. p.values \in [1..correction -> Values]
      BY <2>1, <2>2
    <2>4. QED BY <2>1, <2>3
  <1>8. DefinitionsValid(p)
    BY <1>1, <1>6 DEF DefinitionsValid, Ids, Fine
  <1>9. QED BY <1>7, <1>8

\* How many values of each kind there are.
LEMMA LoweredCounts ==
  ASSUME NEW script \in Scripts, Analyzed(script), NEW p, p = Lower(script)
  PROVE  /\ {i \in Ids(p) : p.values[i].op \in {"ReferencePower"}} = {1}
         /\ {i \in Ids(p) : p.values[i].op \in SweepOps} = 2..(1 + Len(script.sweeps))
         /\ {i \in Ids(p) : p.values[i].op \in MeasureOps} =
              (2 + Len(script.sweeps))..(1 + Len(script.sweeps) + Len(script.measurements))
         /\ \A i \in Ids(p) : p.values[i].op # "Alias"
  <1> DEFINE n == Len(script.sweeps)
             m == Len(script.measurements)
             s == script.assertions
             d == script.derived
             error == ErrorId(script)
             correction == CorrectionId(script)
             measured == MeasuredId(script)
             Rest == {"PowerDifference", "Constant", "Compare"}
  <1>1. /\ n \in Nat /\ m \in Nat /\ s \in Nat /\ error \in Nat /\ correction \in Nat
        /\ error = 1 + n + m + d /\ d \in {0, 1} /\ correction = error + 2 * s + 1
        /\ Len(p.values) = correction
        /\ p.values[1] = Value(1, "ReferencePower", <<>>)
        /\ \A i \in 2..(1 + n) :
             /\ script.sweeps[i - 1].dimension \in Dimensions
             /\ p.values[i] = Value(i, SweepOp(script.sweeps[i - 1].dimension), <<>>)
        /\ \A i \in (2 + n)..(1 + n + m) :
             /\ script.measurements[i - 1 - n] \in MeasureOps
             /\ p.values[i] = Value(i, script.measurements[i - 1 - n], <<>>)
        /\ \A i \in (2 + n + m)..error :
             p.values[i] = Value(i, "PowerDifference", <<measured, 1>>)
        /\ \A i \in (error + 1)..(correction - 1) :
             /\ (i - error) % 2 = 1 => p.values[i] = Value(i, "Constant", <<>>)
             /\ (i - error) % 2 # 1 => p.values[i] = Value(i, "Compare", <<error, i - 1>>)
        /\ p.values[correction] = Value(correction, "PowerDifference", <<1, measured>>)
    BY LoweredAt
  <1> HIDE DEF n, m, s, d, error, correction, measured
  <1>2. error < correction /\ error >= 1 + n + m
    <2>1. 2 * s \in Nat
      BY <1>1
    <2>2. QED BY <1>1, <2>1
  <1>3. \A i, op, operands : Value(i, op, operands).op = op
    BY DEF Value
  <1>4. /\ p.values[1].op = "ReferencePower"
        /\ \A i \in 2..(1 + n) : p.values[i].op \in SweepOps
        /\ \A i \in (2 + n)..(1 + n + m) : p.values[i].op \in MeasureOps
    <2>1. \A dimension : SweepOp(dimension) \in SweepOps
      BY DEF SweepOp, SweepOps
    <2>2. p.values[1].op = "ReferencePower"
      BY <1>1, <1>3
    <2>3. \A i \in 2..(1 + n) : p.values[i].op \in SweepOps
      BY <1>1, <1>3, <2>1
    <2>4. \A i \in (2 + n)..(1 + n + m) : p.values[i].op \in MeasureOps
      BY <1>1, <1>3
    <2>5. QED BY <2>2, <2>3, <2>4
  <1>5. ASSUME NEW i \in (2 + n + m)..correction PROVE p.values[i].op \in Rest
    <2>1. CASE i <= error
      BY <1>1, <1>3, <2>1
    <2>2. CASE i > error /\ i < correction
      <3>1. i \in (error + 1)..(correction - 1)
        BY <1>1, <2>2
      <3>2. \/ p.values[i] = Value(i, "Constant", <<>>)
            \/ p.values[i] = Value(i, "Compare", <<error, i - 1>>)
        BY <1>1, <3>1
      <3>3. QED BY <1>3, <3>2
    <2>3. CASE i = correction
      BY <1>1, <1>3, <2>3
    <2>4. QED BY <1>1, <2>1, <2>2, <2>3
  <1>6. \A i \in 1..correction :
          \/ i = 1 \/ i \in 2..(1 + n) \/ i \in (2 + n)..(1 + n + m)
          \/ i \in (2 + n + m)..correction
    BY <1>1
  <1>7. /\ Ids(p) = 1..correction /\ 1 \in Ids(p) /\ 2..(1 + n) \subseteq Ids(p)
        /\ (2 + n)..(1 + n + m) \subseteq Ids(p)
    BY <1>1, <1>2 DEF Ids
  <1>8. /\ "ReferencePower" \notin SweepOps \cup MeasureOps \cup Rest \cup {"Alias"}
        /\ SweepOps \cap MeasureOps = {} /\ SweepOps \cap Rest = {} /\ MeasureOps \cap Rest = {}
        /\ "Alias" \notin SweepOps \cup MeasureOps \cup Rest
    BY DEF SweepOps, MeasureOps
  <1> HIDE DEF Rest
  <1>9. {i \in Ids(p) : p.values[i].op \in {"ReferencePower"}} = {1}
    BY <1>4, <1>5, <1>6, <1>7, <1>8
  <1>10. {i \in Ids(p) : p.values[i].op \in SweepOps} = 2..(1 + n)
    BY <1>4, <1>5, <1>6, <1>7, <1>8
  <1>11. {i \in Ids(p) : p.values[i].op \in MeasureOps} = (2 + n)..(1 + n + m)
    BY <1>4, <1>5, <1>6, <1>7, <1>8
  <1>12. \A i \in Ids(p) : p.values[i].op # "Alias"
    BY <1>4, <1>5, <1>6, <1>7, <1>8
  <1>13. QED BY <1>9, <1>10, <1>11, <1>12 DEF n, m

\* A value that is no alias stands for itself.
LEMMA ResolvedItself ==
  ASSUME NEW p, \A i \in Ids(p) : p.values[i].op # "Alias", NEW id \in Ids(p)
  PROVE  Resolved(p, id) = p.values[id]
  <1> DEFINE Defines(g) ==
               g = [i \in Ids(p) |->
                      IF p.values[i].op = "Alias" THEN g[p.values[i].operands[1]] ELSE i]
             under == CHOOSE g : Defines(g)
  <1>1. Resolved(p, id) = p.values[under[id]]
    BY DEF Resolved
  <1>2. Defines([i \in Ids(p) |-> i])
    OBVIOUS
  <1>3. Defines(under)
    <2> HIDE DEF Defines
    <2>1. QED BY <1>2, Zenon
  <1>4. under[id] = id
    <2> HIDE DEF under
    <2>1. QED BY <1>3
  <1>5. QED BY <1>1, <1>4

LEMMA LoweredTyped ==
  ASSUME NEW script \in Scripts, Analyzed(script)
  PROVE  Lower(script) \in IrPrograms
  <1> DEFINE p == Lower(script)
             n == Len(script.sweeps)
             m == Len(script.measurements)
             error == ErrorId(script)
             Sweep == [value : Nat, dimension : Dimensions, bounds : Bounds, pointCount : Nat]
             Measurement == [value : Nat, op : MeasureOps, type : ValueTypes, legacy : BOOLEAN]
             Named == [value : Nat, type : ValueTypes]
             Assertion == [value : Nat, left : Nat, right : Nat, of : ValueTypes]
             Calibration == [named : BOOLEAN, correction : Nat, type : ValueTypes,
                             indexes : Seq(Nat), indexTypes : Seq(ValueTypes)]
  <1>1. /\ n \in Nat /\ m \in Nat /\ error \in Nat /\ CorrectionId(script) \in Nat
        /\ script.legacy \in BOOLEAN /\ script.derived \in Nat /\ script.assertions \in Nat
        /\ \A a \in 1..n :
             script.sweeps[a].dimension \in Dimensions /\ script.sweeps[a].bounds \in Bounds
        /\ \A k \in 1..m : script.measurements[k] \in MeasureOps
    <2>1. script.derived \in {0, 1}
      BY ScriptParts
    <2>2. script.derived \in Nat
      BY <2>1
    <2> HIDE DEF p, n, m, error
    <2>3. QED BY <2>2, ScriptParts DEF n, m, error
  <1>2. /\ SweptFrequency(script) \in 1..n /\ MeasuredId(script) \in Nat
        /\ \A a \in 1..n : PointCount(script.sweeps[a].bounds) \in Nat
        /\ Product(PointCounts(script)) \in Nat
    <2>1. /\ SweptFrequency(script) \in 1..n
          /\ MeasuredId(script) \in (2 + n)..(1 + n + m)
          /\ \A a \in 1..n : /\ PointCounts(script)[a] = PointCount(script.sweeps[a].bounds)
                             /\ PointCounts(script)[a] \in Nat
          /\ Product(PointCounts(script)) \in Nat
      BY AnalyzedParts
    <2> HIDE DEF n, m
    <2>2. MeasuredId(script) \in Nat
      BY <1>1, <2>1
    <2>3. \A a \in 1..n : PointCount(script.sweeps[a].bounds) \in Nat
      BY <2>1
    <2>4. QED BY <2>1, <2>2, <2>3
  <1>3. /\ p.reference = 1 /\ p.measurement = MeasuredId(script)
        /\ p.sweep = [frequency |-> 1 + SweptFrequency(script),
                      bounds |-> script.sweeps[SweptFrequency(script)].bounds]
        /\ p.sweeps = [a \in 1..n |->
             [value |-> 1 + a, dimension |-> script.sweeps[a].dimension,
              bounds |-> script.sweeps[a].bounds,
              pointCount |-> PointCount(script.sweeps[a].bounds)]]
        /\ p.totalPointCount = Product(PointCounts(script))
        /\ p.measurements = [k \in 1..m |->
             [value |-> 1 + n + k, op |-> script.measurements[k],
              type |-> TypeOf(script.measurements[k]), legacy |-> script.legacy]]
        /\ p.namedValues = [i \in 1..script.derived |->
             [value |-> error, type |-> "PowerDelta"]]
        /\ p.assertions = [k \in 1..script.assertions |->
             [value |-> error + 2 * k, left |-> error, right |-> error + 2 * k - 1,
              of |-> "PowerDelta"]]
        /\ p.calibration =
             [named |-> TRUE, correction |-> CorrectionId(script), type |-> "PowerDelta",
              indexes |-> [a \in 1..n |-> 1 + a],
              indexTypes |-> [a \in 1..n |-> SweepType(script.sweeps[a].dimension)]]
        /\ p = [values |-> p.values, reference |-> p.reference,
                measurement |-> p.measurement, sweep |-> p.sweep, sweeps |-> p.sweeps,
                totalPointCount |-> p.totalPointCount, measurements |-> p.measurements,
                namedValues |-> p.namedValues, assertions |-> p.assertions,
                calibration |-> p.calibration]
    BY LowerIs
  <1>4. p.values \in Seq(Values)
    BY LoweredDefinitions
  <1>5. /\ \A op \in MeasureOps : TypeOf(op) \in ValueTypes
        /\ "PowerDelta" \in ValueTypes
        /\ \A d : SweepType(d) \in ValueTypes
    BY Types DEF MeasureOps, ValueTypes, Deltas, SweepType
  <1> HIDE DEF p, n, m, error
  <1>6. \A S, v : \A l \in Nat : v \in [1..l -> S] => v \in Seq(S)
    OBVIOUS
  <1>7. p.sweeps \in Seq(Sweep)
    <2>1. \A a \in 1..n : [value |-> 1 + a, dimension |-> script.sweeps[a].dimension,
                           bounds |-> script.sweeps[a].bounds,
                           pointCount |-> PointCount(script.sweeps[a].bounds)] \in Sweep
      BY <1>1, <1>2
    <2> HIDE DEF Sweep
    <2>2. p.sweeps \in [1..n -> Sweep]
      BY <1>3, <2>1
    <2>3. QED BY <1>1, <1>6, <2>2
  <1>8. p.measurements \in Seq(Measurement)
    <2>1. \A k \in 1..m : [value |-> 1 + n + k, op |-> script.measurements[k],
                           type |-> TypeOf(script.measurements[k]),
                           legacy |-> script.legacy] \in Measurement
      BY <1>1, <1>5
    <2> HIDE DEF Measurement
    <2>2. p.measurements \in [1..m -> Measurement]
      BY <1>3, <2>1
    <2>3. QED BY <1>1, <1>6, <2>2
  <1>9. p.namedValues \in Seq(Named)
    <2>1. [value |-> error, type |-> "PowerDelta"] \in Named
      BY <1>1, <1>5
    <2> HIDE DEF Named
    <2>2. p.namedValues \in [1..script.derived -> Named]
      BY <1>3, <2>1
    <2>3. QED BY <1>1, <1>6, <2>2
  <1>10. p.assertions \in Seq(Assertion)
    <2>1. ASSUME NEW k \in 1..script.assertions
          PROVE  [value |-> error + 2 * k, left |-> error, right |-> error + 2 * k - 1,
                  of |-> "PowerDelta"] \in Assertion
      <3>1. error + 2 * k \in Nat /\ error + 2 * k - 1 \in Nat
        BY <1>1
      <3>2. QED BY <1>1, <1>5, <3>1
    <2> HIDE DEF Assertion
    <2>2. p.assertions \in [1..script.assertions -> Assertion]
      BY <1>3, <2>1
    <2>3. QED BY <1>1, <1>6, <2>2
  <1>11. p.calibration \in Calibration
    <2> DEFINE indexes == [a \in 1..n |-> 1 + a]
               indexTypes == [a \in 1..n |-> SweepType(script.sweeps[a].dimension)]
    <2>1. indexes \in [1..n -> Nat] /\ indexTypes \in [1..n -> ValueTypes]
      BY <1>1, <1>5
    <2>2. p.calibration = [named |-> TRUE, correction |-> CorrectionId(script),
                           type |-> "PowerDelta", indexes |-> indexes,
                           indexTypes |-> indexTypes]
      BY <1>3
    <2> HIDE DEF indexes, indexTypes
    <2>3. indexes \in Seq(Nat) /\ indexTypes \in Seq(ValueTypes)
      BY <1>1, <1>6, <2>1
    <2>4. QED BY <1>1, <1>5, <2>2, <2>3
  <1>12. p.sweep \in [frequency : Nat, bounds : Bounds]
    BY <1>1, <1>2, <1>3
  <1>13. p.reference \in Nat /\ p.measurement \in Nat /\ p.totalPointCount \in Nat
    BY <1>2, <1>3
  <1> HIDE DEF Sweep, Measurement, Named, Assertion, Calibration
  <1>14. p \in [values : Seq(Values), reference : Nat, measurement : Nat,
                sweep : [frequency : Nat, bounds : Bounds], sweeps : Seq(Sweep),
                totalPointCount : Nat, measurements : Seq(Measurement),
                namedValues : Seq(Named), assertions : Seq(Assertion),
                calibration : Calibration]
    <2> DEFINE x1 == p.values  x2 == p.reference  x3 == p.measurement  x4 == p.sweep
               x5 == p.sweeps  x6 == p.totalPointCount  x7 == p.measurements
               x8 == p.namedValues  x9 == p.assertions  x10 == p.calibration
    <2>1. /\ x1 \in Seq(Values) /\ x2 \in Nat /\ x3 \in Nat
          /\ x4 \in [frequency : Nat, bounds : Bounds] /\ x5 \in Seq(Sweep) /\ x6 \in Nat
          /\ x7 \in Seq(Measurement) /\ x8 \in Seq(Named) /\ x9 \in Seq(Assertion)
          /\ x10 \in Calibration
      BY <1>4, <1>7, <1>8, <1>9, <1>10, <1>11, <1>12, <1>13
    <2>2. p = [values |-> x1, reference |-> x2, measurement |-> x3, sweep |-> x4,
               sweeps |-> x5, totalPointCount |-> x6, measurements |-> x7,
               namedValues |-> x8, assertions |-> x9, calibration |-> x10]
      BY <1>3
    <2> HIDE DEF x1, x2, x3, x4, x5, x6, x7, x8, x9, x10
    <2>3. QED BY <2>1, <2>2, Zenon
  <1>15. QED BY <1>14 DEF p, IrPrograms, Sweep, Measurement, Named, Assertion, Calibration

\* Whatever an analysed script sweeps, measures and asserts, what lowering makes
\* of it passes the Validator, the checks run makes of it in silence included,
\* and measures in the order declared (lowering.cpp, executor.cpp: the analyzer's
\* promise to the runtime).
THEOREM LoweringIsAccepted ==
  \A script \in Scripts : Analyzed(script) => Lowered(Lower(script))
  <1> SUFFICES ASSUME NEW script \in Scripts, Analyzed(script) PROVE Lowered(Lower(script))
    OBVIOUS
  <1> DEFINE p == Lower(script)
             n == Len(script.sweeps)
             m == Len(script.measurements)
             error == ErrorId(script)
             frequency == SweptFrequency(script)
  <1>1. /\ n \in Nat /\ n > 0 /\ m \in Nat /\ m > 0 /\ error \in Nat
        /\ DOMAIN script.sweeps = 1..n /\ DOMAIN script.measurements = 1..m
        /\ script.derived \in {0, 1} /\ script.assertions \in Nat
        /\ \A a \in 1..n : script.sweeps[a].dimension \in Dimensions
        /\ \A k \in 1..m : script.measurements[k] \in MeasureOps
        /\ \A a, b \in 1..n :
             script.sweeps[a].dimension = script.sweeps[b].dimension => a = b
        /\ frequency \in 1..n /\ script.sweeps[frequency].dimension = "frequency"
        /\ Product(PointCounts(script)) <= MaxSweepPoints
        /\ \A a \in 1..n : /\ PointCounts(script)[a] = PointCount(script.sweeps[a].bounds)
                           /\ PointCounts(script)[a] \in Nat /\ PointCounts(script)[a] > 0
    BY ScriptParts, AnalyzedParts
  <1>2. /\ p.reference = 1 /\ p.measurement = MeasuredId(script)
        /\ p.sweep = [frequency |-> 1 + frequency, bounds |-> script.sweeps[frequency].bounds]
        /\ p.sweeps = [a \in 1..n |->
             [value |-> 1 + a, dimension |-> script.sweeps[a].dimension,
              bounds |-> script.sweeps[a].bounds,
              pointCount |-> PointCount(script.sweeps[a].bounds)]]
        /\ p.totalPointCount = Product(PointCounts(script))
        /\ p.measurements = [k \in 1..m |->
             [value |-> 1 + n + k, op |-> script.measurements[k],
              type |-> TypeOf(script.measurements[k]), legacy |-> script.legacy]]
        /\ p.namedValues = [i \in 1..script.derived |->
             [value |-> error, type |-> "PowerDelta"]]
        /\ p.assertions = [k \in 1..script.assertions |->
             [value |-> error + 2 * k, left |-> error, right |-> error + 2 * k - 1,
              of |-> "PowerDelta"]]
        /\ p.calibration =
             [named |-> TRUE, correction |-> CorrectionId(script), type |-> "PowerDelta",
              indexes |-> [a \in 1..n |-> 1 + a],
              indexTypes |-> [a \in 1..n |-> SweepType(script.sweeps[a].dimension)]]
    BY LowerIs
  <1>3. /\ Binding(p, 1, "Power", "ReferencePower")
        /\ Binding(p, MeasuredId(script), "Power", "MeasurePower")
        /\ \A a \in 1..n : Binding(p, 1 + a, SweepType(script.sweeps[a].dimension),
                                   SweepOp(script.sweeps[a].dimension))
        /\ \A k \in 1..m : Binding(p, 1 + n + k, TypeOf(script.measurements[k]),
                                   script.measurements[k])
        /\ script.derived = 1 => Has(p, error, "PowerDelta")
        /\ \A k \in 1..script.assertions :
             /\ Has(p, error + 2 * k, "Boolean")
             /\ p.values[error + 2 * k] =
                  Value(error + 2 * k, "Compare", <<error, error + 2 * k - 1>>)
        /\ Has(p, CorrectionId(script), "PowerDelta")
    BY LoweredHas
  <1>4. /\ {i \in Ids(p) : p.values[i].op \in {"ReferencePower"}} = {1}
        /\ {i \in Ids(p) : p.values[i].op \in SweepOps} = 2..(1 + n)
        /\ {i \in Ids(p) : p.values[i].op \in MeasureOps} = (2 + n)..(1 + n + m)
        /\ \A i \in Ids(p) : p.values[i].op # "Alias"
    BY LoweredCounts
  <1>5. DefinitionsValid(p)
    BY LoweredDefinitions
  <1> HIDE DEF p, n, m, error, frequency
  <1>6. /\ Len(p.sweeps) = n /\ DOMAIN p.sweeps = 1..n
        /\ Len(p.measurements) = m /\ DOMAIN p.measurements = 1..m
        /\ DOMAIN p.namedValues = 1..script.derived
        /\ DOMAIN p.assertions = 1..script.assertions
    <2>1. p.sweeps = [a \in 1..n |-> p.sweeps[a]]
      BY <1>2
    <2>2. p.measurements = [k \in 1..m |-> p.measurements[k]]
      BY <1>2
    <2>3. Len(p.sweeps) = n /\ DOMAIN p.sweeps = 1..n
      BY <1>1, <2>1, FunctionIsSeq
    <2>4. Len(p.measurements) = m /\ DOMAIN p.measurements = 1..m
      BY <1>1, <2>2, FunctionIsSeq
    <2>5. QED BY <1>2, <2>3, <2>4
  <1>7. BaseCountsValid(p)
    <2>1. Counted(p, {"ReferencePower"}) = 1
      BY <1>4, FS_Singleton DEF Counted
    <2>2. Counted(p, SweepOps) = n
      <3>1. Cardinality(2..(1 + n)) = n
        BY <1>1, FS_Interval
      <3>2. QED BY <1>4, <3>1 DEF Counted
    <2>3. Counted(p, MeasureOps) = m
      <3>1. Cardinality((2 + n)..(1 + n + m)) = m
        BY <1>1, FS_Interval
      <3>2. QED BY <1>4, <3>1 DEF Counted
    <2>4. p.sweeps # <<>> /\ p.measurements # <<>>
      BY <1>1, <1>6, EmptyIsSeq
    <2>5. QED BY <1>2, <1>3, <1>6, <2>1, <2>2, <2>3, <2>4 DEF BaseCountsValid
  <1>8. SweepsValid(p)
    <2>1. ASSUME NEW a \in DOMAIN p.sweeps
          PROVE  /\ Binding(p, p.sweeps[a].value, SweepType(p.sweeps[a].dimension),
                            SweepOp(p.sweeps[a].dimension))
                 /\ p.sweeps[a].pointCount > 0
                 /\ p.sweeps[a].pointCount = PointCount(script.sweeps[a].bounds)
      <3>1. /\ a \in 1..n /\ p.sweeps[a].value = 1 + a
            /\ p.sweeps[a].dimension = script.sweeps[a].dimension
            /\ p.sweeps[a].pointCount = PointCount(script.sweeps[a].bounds)
        BY <1>2, <1>6
      <3>2. QED BY <1>1, <1>3, <3>1
    <2>2. [a \in DOMAIN p.sweeps |-> p.sweeps[a].pointCount] = PointCounts(script)
      BY <1>6, <2>1 DEF PointCounts, n
    <2>3. QED BY <1>1, <1>2, <2>1, <2>2 DEF SweepsValid
  <1>9. ~StopsSilently(p)
    <2>1. \A a \in 1..n : p.sweeps[a].dimension = script.sweeps[a].dimension
      BY <1>2
    <2>2. Axes(p, "frequency") = {frequency}
      BY <1>1, <1>6, <2>1, ZenonT(60) DEF Axes
    <2>3. Cardinality(Axes(p, "frequency")) = 1
      BY <2>2, FS_Singleton
    <2>4. ~(Cardinality(Axes(p, "temperature")) > 1)
      <3>1. CASE Axes(p, "temperature") = {}
        BY <3>1, FS_EmptySet
      <3>2. ASSUME NEW b \in Axes(p, "temperature") PROVE Axes(p, "temperature") = {b}
        BY <1>1, <1>6, <2>1 DEF Axes
      <3>3. ASSUME NEW b \in Axes(p, "temperature")
            PROVE  Cardinality(Axes(p, "temperature")) = 1
        BY <3>2, FS_Singleton
      <3>4. QED BY <3>1, <3>3
    <2>5. p.sweeps[frequency].value = p.sweep.frequency
      BY <1>1, <1>2
    <2>6. QED BY <2>2, <2>3, <2>4, <2>5 DEF StopsSilently
  <1>10. MeasurementsValid(p)
    <2>1. ASSUME NEW k \in DOMAIN p.measurements
          PROVE  /\ Binding(p, p.measurements[k].value, p.measurements[k].type,
                            p.measurements[k].op)
                 /\ p.measurements[k].type \in ResultTypes[p.measurements[k].op]
      <3>1. /\ k \in 1..m /\ p.measurements[k].value = 1 + n + k
            /\ p.measurements[k].op = script.measurements[k]
            /\ p.measurements[k].type = TypeOf(script.measurements[k])
        BY <1>2, <1>6
      <3>2. \A op \in MeasureOps : TypeOf(op) \in ResultTypes[op]
        BY Types DEF MeasureOps, ResultTypes
      <3>3. QED BY <1>1, <1>3, <3>1, <3>2
    <2>2. QED BY <1>2, <1>3, <2>1 DEF MeasurementsValid
  <1>11. NamedValuesValid(p)
    <2>1. ASSUME NEW k \in DOMAIN p.namedValues
          PROVE  Has(p, p.namedValues[k].value, p.namedValues[k].type)
      <3>1. /\ k \in 1..script.derived /\ p.namedValues[k].value = error
            /\ p.namedValues[k].type = "PowerDelta"
        BY <1>2, <1>6
      <3>2. script.derived = 1
        BY <1>1, <3>1
      <3>3. QED BY <1>3, <3>1, <3>2
    <2>2. QED BY <2>1 DEF NamedValuesValid
  <1>12. AssertionsValid(p)
    <2>1. ASSUME NEW k \in DOMAIN p.assertions
          PROVE  LET a == p.assertions[k]
                 IN  /\ Has(p, a.value, "Boolean")
                     /\ Resolved(p, a.value).op = "Compare"
                     /\ Resolved(p, a.value).operands = <<a.left, a.right>>
                     /\ Resolved(p, a.value).of = a.of
      <3> DEFINE i == error + 2 * k
      <3>1. /\ k \in 1..script.assertions
            /\ p.assertions[k] = [value |-> i, left |-> error, right |-> error + 2 * k - 1,
                                  of |-> "PowerDelta"]
        BY <1>2, <1>6
      <3>2. /\ Has(p, i, "Boolean")
            /\ p.values[i] = Value(i, "Compare", <<error, error + 2 * k - 1>>)
        BY <1>3, <3>1
      <3> HIDE DEF i
      <3>3. Resolved(p, i) = p.values[i]
        BY <1>4, <3>2, ResolvedItself DEF Has
      <3>4. /\ p.values[i].op = "Compare" /\ p.values[i].of = "PowerDelta"
            /\ p.values[i].operands = <<error, error + 2 * k - 1>>
        BY <3>2 DEF Value
      <3>5. QED BY <3>1, <3>2, <3>3, <3>4
    <2>2. QED BY <2>1 DEF AssertionsValid
  <1>13. CalibrationValid(p)
    <2>1. [a \in DOMAIN p.sweeps |-> p.sweeps[a].value] = [a \in 1..n |-> 1 + a]
      BY <1>2, <1>6
    <2>2. [a \in DOMAIN p.sweeps |-> SweepType(p.sweeps[a].dimension)] =
            [a \in 1..n |-> SweepType(script.sweeps[a].dimension)]
      BY <1>2, <1>6
    <2>3. QED BY <1>2, <1>3, <2>1, <2>2 DEF CalibrationValid
  <1>14. ASSUME NEW k \in DOMAIN p.measurements
         PROVE  /\ p.reference < p.measurements[k].value
                /\ \A j \in DOMAIN p.measurements :
                     j < k => p.measurements[j].value < p.measurements[k].value
    <2>1. \A j \in 1..m : p.measurements[j].value = 1 + n + j
      BY <1>2
    <2>2. n \in Nat /\ m \in Nat /\ DOMAIN p.measurements = 1..m /\ p.reference = 1
      BY <1>1, <1>2, <1>6
    <2>3. QED BY <2>1, <2>2
  <1>15. ASSUME NEW i \in Ids(p), IsMeasure(p.values[i])
         PROVE  \E k \in DOMAIN p.measurements : p.measurements[k].value = i
    <2>1. i \in (2 + n)..(1 + n + m)
      BY <1>4, <1>15 DEF IsMeasure
    <2>2. i - 1 - n \in 1..m /\ 1 + n + (i - 1 - n) = i
      BY <1>1, <2>1
    <2>3. \A j \in 1..m : p.measurements[j].value = 1 + n + j
      BY <1>2
    <2>4. QED BY <1>6, <2>2, <2>3
  <1>16. Lowered(p)
    BY <1>5, <1>7, <1>8, <1>9, <1>10, <1>11, <1>12, <1>13, <1>14, <1>15
       DEF Lowered, BaseValid, RestValid
  <1>17. QED BY <1>16 DEF p

=============================================================================
